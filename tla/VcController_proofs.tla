------------------------- MODULE VcController_proofs -------------------------
(***************************************************************************)
(* What every function of the channel and of the controller preserves, and *)
(* the safety invariants of the controller, for every width of an integer, *)
(* every board, every configuration and every host.  First the arithmetic  *)
(* and the loop of VcRamp, then the channel, then the controller, last the *)
(* retries that VcRetryLog observes.                                       *)
(***************************************************************************)
EXTENDS VcRetryLog, WellFoundedInduction, FiniteSetTheorems, SequenceTheorems, TLAPS

(***************************************************************************)
(* The arithmetic of VcRamp                                                *)
(***************************************************************************)
\* A nonempty set of naturals has the least element that Least chooses.
LEMMA LeastExists ==
    ASSUME NEW S, S \subseteq Nat, S # {}
    PROVE  /\ Least(S) \in S
           /\ \A j \in S : Least(S) <= j
<1>1. IsWellFoundedOn(OpToRel(<, Nat), Nat)
  BY NatLessThanWellFounded
<1>2. PICK x \in S : \A y \in S : ~(<<y, x>> \in OpToRel(<, Nat))
  BY <1>1, WFMin
<1>3. ASSUME NEW y \in S PROVE x <= y
  <2>1. ~(y < x)
    BY <1>2 DEF OpToRel
  <2> QED BY <2>1
<1> QED BY <1>3 DEF Least

\* What the assumptions say of the ranges.
LEMMA Int16Facts ==
    /\ IntMax \in Nat /\ MaxTarget \in Nat /\ MaxTarget <= IntMax
    /\ 0 \in Int16 /\ 0 \in Word /\ 0 .. MaxTarget \subseteq Int16 /\ 0 \in 0 .. MaxTarget
    /\ Int16 \subseteq Int /\ Word \subseteq Nat
    /\ UptimeMod \in Nat \ {0} /\ 0 \in 0 .. UptimeMod - 1
    /\ StepMax \in Nat /\ 0 .. StepMax \subseteq Word
BY IntMaxAssumption, ChannelAssumption DEF Int16, Word, WordMax

\* A cast or a wrapped sum of int16_t values is an int16_t value.
LEMMA CastType ==
    ASSUME NEW w \in Word
    PROVE  CastInt16(w) \in Int16
BY IntMaxAssumption DEF CastInt16, Word, WordMax, Int16

\* clamp_int16 yields an int16_t.
LEMMA ClampType ==
    ASSUME NEW x \in Int
    PROVE  clamp_int16(x) \in Int16
BY IntMaxAssumption DEF clamp_int16, Int16

\* k wrapped steps from an int16_t lead to an int16_t.
LEMMA RampAtType ==
    ASSUME NEW current \in Int16, NEW target \in Int16, NEW step \in Word, NEW k \in Nat
    PROVE  ramp_at(current, target, step, k) \in Int16
<1> DEFINE s == CastInt16(step)
           x == IF current < target THEN current + k * s ELSE current - k * s
           m == 2 * (IntMax + 1)
           r == (x + IntMax + 1) % m
<1>1. s \in Int /\ IntMax \in Nat /\ current \in Int
  BY CastType, IntMaxAssumption DEF Int16
<1>2. k * s \in Int
  BY <1>1
<1>3. x \in Int
  BY <1>1, <1>2
<1>4. m \in Nat \ {0}
  BY <1>1
<1>5. r \in 0 .. m - 1
  <2> HIDE DEF x, m
  <2>1. x + IntMax + 1 \in Int
    BY <1>1, <1>3
  <2> QED BY <2>1, <1>4
<1>6. r - (IntMax + 1) \in Int16
  <2> HIDE DEF r
  <2> QED BY <1>5, <1>1 DEF Int16
<1> QED BY <1>6 DEF ramp_at

\* The numbers of whole intervals in an accumulator.
LEMMA IntervalsIn ==
    ASSUME NEW accum \in Nat, NEW interval \in Nat \ {0}
    PROVE  /\ accum \div interval \in Nat
           /\ (accum \div interval) * interval <= accum
OBVIOUS

\* Whatever the parameters, the loop of vc_channel_tick_ramp leaves an int16_t
\* target and no more time in the accumulator than it found there.
LEMMA RampWalkType ==
    ASSUME NEW current \in Int16, NEW target \in Int16, NEW step \in Word,
           NEW interval \in Nat \ {0}, NEW accum \in Nat
    PROVE  ramp_walk(current, target, step, interval, accum) \in
               [current : Int16, accum : 0 .. accum]
<1> DEFINE n == accum \div interval
           A == ramp_arrivals(current, target, step, n)
<1>1. n \in Nat /\ n * interval \in Nat /\ n * interval <= accum
  BY IntervalsIn
<1>2. A \subseteq 1 .. n
  BY DEF ramp_arrivals
<1>3. ramp_at(current, target, step, n) \in Int16
  BY <1>1, RampAtType
<1>4. CASE A = {}
  <2> HIDE DEF n
  <2>1. accum - n * interval \in 0 .. accum
    BY <1>1
  <2> QED BY <1>3, <1>4, <2>1 DEF ramp_walk, n
<1>5. CASE A # {}
  <2>1. Least(A) \in 1 .. n
    <3> HIDE DEF n, A
    <3>1. A \subseteq Nat
      BY <1>1, <1>2
    <3>2. Least(A) \in A
      BY <3>1, <1>5, LeastExists
    <3> QED BY <3>2, <1>2
  <2>2. Least(A) * interval \in Nat /\ Least(A) * interval <= n * interval
    <3> HIDE DEF n, A
    <3> QED BY <1>1, <2>1
  <2>3. accum - Least(A) * interval \in 0 .. accum
    <3> HIDE DEF n, A
    <3> QED BY <1>1, <2>2
  <2> QED BY <1>5, <2>3 DEF ramp_walk
<1> QED BY <1>4, <1>5

\* A number below the modulus is its own remainder.
LEMMA SmallMod ==
    ASSUME NEW m \in Nat \ {0}, NEW a \in 0 .. m - 1
    PROVE  a % m = a
OBVIOUS

\* As long as the sum stays an int16_t, k steps are k times the step.
LEMMA RampAtNoWrap ==
    ASSUME NEW current \in Int16, NEW target \in Int16, NEW step \in 0 .. IntMax, NEW k \in Nat
    PROVE  /\ current < target /\ current + k * step \in Int16 =>
                  ramp_at(current, target, step, k) = current + k * step
           /\ ~(current < target) /\ current - k * step \in Int16 =>
                  ramp_at(current, target, step, k) = current - k * step
<1>1. CastInt16(step) = step
  BY IntMaxAssumption DEF CastInt16
<1>2. ASSUME NEW x \in Int16
      PROVE  ((x + IntMax + 1) % (2 * (IntMax + 1))) - (IntMax + 1) = x
  <2>1. /\ 2 * (IntMax + 1) \in Nat \ {0}
        /\ x + IntMax + 1 \in 0 .. (2 * (IntMax + 1)) - 1
    BY IntMaxAssumption DEF Int16
  <2>2. (x + IntMax + 1) % (2 * (IntMax + 1)) = x + IntMax + 1
    BY <2>1, SmallMod
  <2> QED BY <2>2, IntMaxAssumption DEF Int16
<1> QED BY <1>1, <1>2 DEF ramp_at

\* A ramp up whose sums cannot wrap and that has not arrived after n steps has
\* made n whole steps: it is between where it began and its target.
LEMMA RampUpBelow ==
    ASSUME NEW current \in Int16, NEW target \in 0 .. IntMax, current < target,
           NEW step \in 0 .. IntMax - target,
           NEW n \in Nat, ramp_arrivals(current, target, step, n) = {}
    PROVE  ramp_at(current, target, step, n) \in current .. target
<1> DEFINE B == {k \in 0 .. n : ~(current + k * step < target)}
<1>0. /\ IntMax \in Nat /\ step \in Nat /\ current \in Int /\ target \in Nat
      /\ step \in 0 .. IntMax /\ target \in Int16
      /\ target + step <= IntMax /\ -(IntMax + 1) <= current
  BY IntMaxAssumption DEF Int16
<1>1. B = {}
  <2> SUFFICES ASSUME B # {} PROVE FALSE
    OBVIOUS
  <2>1. B \subseteq Nat
    OBVIOUS
  <2>2. PICK m : m \in B /\ \A j \in B : m <= j
    <3> HIDE DEF B
    <3> QED BY <2>1, LeastExists
  <2>3. m \in 0 .. n /\ ~(current + m * step < target)
    BY <2>2
  <2>4. m # 0
    BY <2>3, <1>0
  <2>5. m \in 1 .. n /\ m - 1 \in 0 .. n /\ m \in Nat
    BY <2>3, <2>4
  <2>6. current + (m - 1) * step < target
    <3>1. m - 1 \notin B
      <4> HIDE DEF B
      <4> QED BY <2>2, <2>5
    <3> QED BY <3>1, <2>5
  <2>7. m * step = (m - 1) * step + step /\ (m - 1) * step \in Nat /\ m * step \in Nat
    BY <2>5, <1>0
  <2>8. current + m * step \in Int16
    BY <2>6, <2>7, <1>0 DEF Int16
  <2>9. ramp_at(current, target, step, m) >= target
    BY <2>8, <2>7, <2>3, <2>5, <1>0, RampAtNoWrap
  <2> QED BY <2>9, <2>5 DEF ramp_arrivals
<1>2. current + n * step < target
  <2>1. n \in 0 .. n
    OBVIOUS
  <2>2. n \notin B
    <3> HIDE DEF B
    <3> QED BY <1>1
  <2> QED BY <2>1, <2>2
<1>3. n * step \in Nat
  BY <1>0
<1>4. current + n * step \in Int16
  BY <1>0, <1>2, <1>3 DEF Int16
<1>5. ramp_at(current, target, step, n) = current + n * step
  BY <1>4, <1>0, RampAtNoWrap
<1> QED BY <1>5, <1>2, <1>3, <1>0

\* The same on the way down, where every step that is not negative will do.
LEMMA RampDownAbove ==
    ASSUME NEW current \in Int16, NEW target \in 0 .. IntMax, current > target,
           NEW step \in 0 .. IntMax,
           NEW n \in Nat, ramp_arrivals(current, target, step, n) = {}
    PROVE  ramp_at(current, target, step, n) \in target .. current
<1> DEFINE B == {k \in 0 .. n : ~(current - k * step > target)}
<1>0. /\ IntMax \in Nat /\ step \in Nat /\ current \in Nat /\ target \in Nat
      /\ target \in Int16 /\ step <= IntMax
      /\ current <= IntMax /\ ~(current < target)
  BY IntMaxAssumption DEF Int16
<1>1. B = {}
  <2> SUFFICES ASSUME B # {} PROVE FALSE
    OBVIOUS
  <2>1. B \subseteq Nat
    OBVIOUS
  <2>2. PICK m : m \in B /\ \A j \in B : m <= j
    <3> HIDE DEF B
    <3> QED BY <2>1, LeastExists
  <2>3. m \in 0 .. n /\ ~(current - m * step > target)
    BY <2>2
  <2>4. m # 0
    BY <2>3, <1>0
  <2>5. m \in 1 .. n /\ m - 1 \in 0 .. n /\ m \in Nat
    BY <2>3, <2>4
  <2>6. current - (m - 1) * step > target
    <3>1. m - 1 \notin B
      <4> HIDE DEF B
      <4> QED BY <2>2, <2>5
    <3> QED BY <3>1, <2>5
  <2>7. m * step = (m - 1) * step + step /\ (m - 1) * step \in Nat /\ m * step \in Nat
    BY <2>5, <1>0
  <2>8. current - m * step \in Int16
    BY <2>6, <2>7, <1>0 DEF Int16
  <2>9. ramp_at(current, target, step, m) <= target
    BY <2>8, <2>7, <2>3, <2>5, <1>0, RampAtNoWrap
  <2> QED BY <2>9, <2>5, <1>0 DEF ramp_arrivals
<1>2. current - n * step > target
  <2>1. n \in 0 .. n
    OBVIOUS
  <2>2. n \notin B
    <3> HIDE DEF B
    <3> QED BY <1>1
  <2> QED BY <2>1, <2>2
<1>3. n * step \in Nat
  BY <1>0
<1>4. current - n * step \in Int16
  BY <1>0, <1>2, <1>3 DEF Int16
<1>5. ramp_at(current, target, step, n) = current - n * step
  BY <1>4, <1>0, RampAtNoWrap
<1> QED BY <1>5, <1>2, <1>3, <1>0

(***************************************************************************)
(* The while loop of vc_channel_tick_ramp and its closed form.  The loop   *)
(* is a recursive function, so the value that any function with its        *)
(* recursion has: the closed form is one, because it unrolls as the loop   *)
(* does (WalkUnrolls), and the accumulator, which each turn lowers, leaves *)
(* no room for another (LoopWalks).                                        *)
(***************************************************************************)
\* A remainder is the only one in its range.
LEMMA ModUnique ==
    ASSUME NEW m \in Nat \ {0}, NEW x \in Int, NEW q \in Int, NEW r \in 0 .. m - 1,
           x = q * m + r
    PROVE  x % m = r
OBVIOUS

LEMMA ModShift ==
    ASSUME NEW m \in Nat \ {0}, NEW x \in Int
    PROVE  (x + m) % m = x % m /\ (x - m) % m = x % m
<1> DEFINE q == x \div m
           r == x % m
<1>1. q \in Int /\ r \in 0 .. m - 1 /\ x = q * m + r
  OBVIOUS
<1> HIDE DEF q
<1>2. /\ x + m = (q + 1) * m + r /\ x + m \in Int /\ q + 1 \in Int
      /\ x - m = (q - 1) * m + r /\ x - m \in Int /\ q - 1 \in Int
  <2> HIDE DEF r
  <2> QED BY <1>1
<1> HIDE DEF r
<1>3. (x + m) % m = r
  BY <1>1, <1>2, ModUnique
<1>4. (x - m) % m = r
  BY <1>1, <1>2, ModUnique
<1> QED BY <1>3, <1>4 DEF r

\* The value of a sum as an int16_t.
Wrapped(x) == ((x + IntMax + 1) % (2 * (IntMax + 1))) - (IntMax + 1)

LEMMA WrappedFacts ==
    ASSUME NEW x \in Int
    PROVE  /\ Wrapped(x) \in Int16
           /\ x \in Int16 => Wrapped(x) = x
           /\ Wrapped(x + 2 * (IntMax + 1)) = Wrapped(x)
           /\ Wrapped(x - 2 * (IntMax + 1)) = Wrapped(x)
<1> DEFINE h == IntMax + 1
           m == 2 * h
           y == x + IntMax + 1
<1>1. h \in Nat /\ m \in Nat \ {0} /\ y \in Int /\ IntMax \in Nat /\ m = h + h
  BY IntMaxAssumption
<1>2. y % m \in 0 .. m - 1
  <2> HIDE DEF m, y
  <2> QED BY <1>1
<1>3. x \in Int16 => y % m = y
  <2>1. x \in Int16 => y \in 0 .. m - 1
    BY <1>1 DEF Int16
  <2> HIDE DEF m, y
  <2> QED BY <1>1, <2>1, SmallMod
<1>4. (y + m) % m = y % m /\ (y - m) % m = y % m
  <2> HIDE DEF m, y
  <2> QED BY <1>1, ModShift
<1>5. /\ x + 2 * (IntMax + 1) + IntMax + 1 = y + m
      /\ x - 2 * (IntMax + 1) + IntMax + 1 = y - m
  BY <1>1
<1>6. Wrapped(x) = (y % m) - h
  BY <1>1 DEF Wrapped
<1>7. Wrapped(x + 2 * (IntMax + 1)) = ((y + m) % m) - h
  BY <1>5 DEF Wrapped
<1>8. Wrapped(x - 2 * (IntMax + 1)) = ((y - m) % m) - h
  BY <1>5 DEF Wrapped
<1>9. (y % m) - h \in Int16 /\ (x \in Int16 => y - h = x)
  <2>1. h = IntMax + 1 /\ x = y - h
    BY <1>1
  <2> HIDE DEF m, y, h
  <2> QED BY <1>1, <1>2, <2>1 DEF Int16
<1> HIDE DEF m, y, h
<1> QED BY <1>3, <1>4, <1>6, <1>7, <1>8, <1>9

\* Where k steps lead, as a wrapped sum.
LEMMA RampAtSum ==
    ASSUME NEW current \in Int16, NEW target \in Int16, NEW step \in Word, NEW k \in Nat
    PROVE  LET s == CastInt16(step)
           IN  /\ s \in Int16 /\ k * s \in Int
               /\ current < target =>
                      ramp_at(current, target, step, k) = Wrapped(current + k * s)
               /\ ~(current < target) =>
                      ramp_at(current, target, step, k) = Wrapped(current - k * s)
<1>1. CastInt16(step) \in Int16
  BY CastType
<1>2. k * CastInt16(step) \in Int
  <2> DEFINE s == CastInt16(step)
  <2>1. s \in Int
    BY <1>1, Int16Facts
  <2> HIDE DEF s
  <2>2. k * s \in Int
    BY <2>1
  <2> QED BY <2>2 DEF s
<1> QED BY <1>1, <1>2 DEF ramp_at, Wrapped

\* No step leads nowhere.
LEMMA NoStep ==
    ASSUME NEW current \in Int16, NEW target \in Int16, NEW step \in Word
    PROVE  ramp_at(current, target, step, 0) = current
<1> DEFINE s == CastInt16(step)
<1>1. s \in Int16 /\ s \in Int /\ current \in Int
  BY CastType, Int16Facts
<1> HIDE DEF s
<1>2. current + 0 * s = current /\ current - 0 * s = current /\ 0 \in Nat
  BY <1>1
<1> QED BY <1>1, <1>2, RampAtSum, WrappedFacts DEF s

\* One iteration of the loop is one step, cut at the target.
LEMMA OneStep ==
    ASSUME NEW current \in Int16, NEW target \in Int16, NEW step \in Word
    PROVE  LET next == ramp_at(current, target, step, 1)
           IN  /\ next \in Int16
               /\ current < target =>
                      ramp_step(current, target, step) = IF next > target THEN target ELSE next
               /\ ~(current < target) =>
                      ramp_step(current, target, step) = IF next < target THEN target ELSE next
<1> DEFINE s == CastInt16(step)
<1>1. /\ s \in Int16 /\ s \in Int /\ current \in Int /\ 1 \in Nat
      /\ IntMax \in Nat
  BY CastType, Int16Facts
<1>2. ASSUME NEW x \in Int, x <= 2 * IntMax + 1, x >= -(2 * IntMax + 2)
      PROVE  WrapInt16(x) = Wrapped(x)
  <2>1. CASE x > IntMax
    <3>1. x - 2 * (IntMax + 1) \in Int16 /\ x - 2 * (IntMax + 1) \in Int
      BY <1>1, <1>2, <2>1 DEF Int16
    <3> QED BY <2>1, <3>1, WrappedFacts DEF WrapInt16
  <2>2. CASE x < -(IntMax + 1)
    <3>1. /\ x + 2 * (IntMax + 1) \in Int16 /\ x + 2 * (IntMax + 1) \in Int
          /\ ~(x > IntMax)
      BY <1>1, <1>2, <2>2 DEF Int16
    <3> QED BY <2>2, <3>1, WrappedFacts DEF WrapInt16
  <2>3. CASE ~(x > IntMax) /\ ~(x < -(IntMax + 1))
    <3>1. x \in Int16
      BY <1>1, <2>3 DEF Int16
    <3> QED BY <2>3, <3>1, WrappedFacts DEF WrapInt16
  <2> QED BY <2>1, <2>2, <2>3
<1>3. /\ current + s \in Int /\ current + s <= 2 * IntMax + 1
      /\ current + s >= -(2 * IntMax + 2)
      /\ current - s \in Int /\ current - s <= 2 * IntMax + 1
      /\ current - s >= -(2 * IntMax + 2)
      /\ current + 1 * s = current + s /\ current - 1 * s = current - s
  <2> HIDE DEF s
  <2> QED BY <1>1 DEF Int16
<1>4. WrapInt16(current + s) = Wrapped(current + s) /\ WrapInt16(current - s) = Wrapped(current - s)
  <2> HIDE DEF s
  <2> QED BY <1>2, <1>3
<1>5. /\ current < target => ramp_at(current, target, step, 1) = Wrapped(current + s)
      /\ ~(current < target) => ramp_at(current, target, step, 1) = Wrapped(current - s)
  BY <1>1, <1>3, RampAtSum
<1>6. ramp_at(current, target, step, 1) \in Int16
  BY <1>1, RampAtType
<1> QED BY <1>4, <1>5, <1>6 DEF ramp_step

\* The steps that follow one that does not arrive go on from where it leads.
LEMMA StepsGoOn ==
    ASSUME NEW current \in Int16, NEW target \in Int16, NEW step \in Word, NEW k \in Nat,
           ramp_at(current, target, step, 1) < target <=> current < target
    PROVE  ramp_at(ramp_at(current, target, step, 1), target, step, k)
               = ramp_at(current, target, step, k + 1)
<1> DEFINE s == CastInt16(step)
           m == 2 * (IntMax + 1)
           next == ramp_at(current, target, step, 1)
<1>1. s \in Int16 /\ 1 \in Nat /\ k + 1 \in Nat /\ IntMax \in Nat
  BY CastType, Int16Facts
<1>2. next \in Int16
  BY <1>1, RampAtType
<1>3. s \in Int /\ current \in Int /\ next \in Int /\ m \in Int
  <2> HIDE DEF s, next
  <2> QED BY <1>1, <1>2, Int16Facts
<1>4. ASSUME NEW z \in Int, z \in Int16 \/ z - m \in Int16 \/ z + m \in Int16
      PROVE  Wrapped(z) \in {z, z + m, z - m}
  <2>1. Wrapped(z) = Wrapped(z - m) /\ Wrapped(z) = Wrapped(z + m)
    BY WrappedFacts
  <2>2. z - m \in Int /\ z + m \in Int
    BY <1>3
  <2> HIDE DEF m
  <2>3. /\ z \in Int16 => Wrapped(z) = z
        /\ z - m \in Int16 => Wrapped(z - m) = z - m
        /\ z + m \in Int16 => Wrapped(z + m) = z + m
    BY <2>2, WrappedFacts
  <2> QED BY <1>4, <2>1, <2>3
<1>8. ASSUME NEW x \in Int16, NEW y \in -(IntMax + 1) .. IntMax + 1
      PROVE  Wrapped(x + y) \in {x + y, x + y + m, (x + y) - m}
  <2>1. x + y \in Int
    BY <1>1, Int16Facts
  <2>2. x + y \in Int16 \/ (x + y) - m \in Int16 \/ x + y + m \in Int16
    BY <1>1 DEF Int16
  <2> QED BY <1>4, <2>1, <2>2
<1>5. \A w \in Int : Wrapped(w + m) = Wrapped(w) /\ Wrapped(w - m) = Wrapped(w)
  BY WrappedFacts
<1>6. CASE current < target
  <2>1. /\ next = Wrapped(current + 1 * s)
        /\ ramp_at(next, target, step, k) = Wrapped(next + k * s)
        /\ ramp_at(current, target, step, k + 1) = Wrapped(current + (k + 1) * s)
    <3>1. next < target
      BY <1>6
    <3> HIDE DEF next
    <3>2. ramp_at(next, target, step, k) = Wrapped(next + k * s)
      BY <1>2, <3>1, RampAtSum
    <3> QED BY <1>1, <1>6, <3>2, RampAtSum DEF next
  <2> HIDE DEF s, m, next
  <2>2. s \in -(IntMax + 1) .. IntMax + 1 /\ 1 * s = s
    BY <1>1, <1>3 DEF Int16
  <2>3. next \in {current + s, current + s + m, (current + s) - m}
    BY <1>8, <2>1, <2>2
  <2> DEFINE p == k * s
             w == current + s + p
  <2>4. p \in Int /\ w \in Int /\ (k + 1) * s = s + p
    BY <1>3
  <2>5. next + p \in {w, w + m, w - m} /\ current + (k + 1) * s = w
    <3> HIDE DEF p
    <3> QED BY <1>3, <2>3, <2>4
  <2>6. Wrapped(next + p) = Wrapped(w)
    <3> HIDE DEF p, w
    <3> QED BY <1>5, <2>4, <2>5
  <2>7. /\ ramp_at(next, target, step, k) = Wrapped(next + p)
        /\ ramp_at(current, target, step, k + 1) = Wrapped(current + (k + 1) * s)
    BY <2>1
  <2>8. Wrapped(current + (k + 1) * s) = Wrapped(w)
    BY <2>5
  <2> HIDE DEF p, w
  <2> QED BY <2>6, <2>7, <2>8 DEF next
<1>7. CASE ~(current < target)
  <2>1. /\ next = Wrapped(current - 1 * s)
        /\ ramp_at(next, target, step, k) = Wrapped(next - k * s)
        /\ ramp_at(current, target, step, k + 1) = Wrapped(current - (k + 1) * s)
    <3>1. ~(next < target)
      BY <1>7
    <3> HIDE DEF next
    <3>2. ramp_at(next, target, step, k) = Wrapped(next - k * s)
      BY <1>2, <3>1, RampAtSum
    <3> QED BY <1>1, <1>7, <3>2, RampAtSum DEF next
  <2> HIDE DEF s, m, next
  <2>2. /\ -s \in -(IntMax + 1) .. IntMax + 1 /\ current - 1 * s = current + (-s)
        /\ current + (-s) = current - s
    BY <1>1, <1>3 DEF Int16
  <2> DEFINE b == -s
  <2>9. next \in {current + b, current + b + m, (current + b) - m}
    <3>1. next = Wrapped(current + b) /\ b \in -(IntMax + 1) .. IntMax + 1
      BY <2>1, <2>2
    <3> HIDE DEF b
    <3> QED BY <1>8, <3>1
  <2>3. next \in {current - s, current - s + m, current - s - m}
    BY <1>3, <2>9
  <2> DEFINE p == k * s
             w == current - s - p
  <2>4. p \in Int /\ w \in Int /\ (k + 1) * s = s + p
    BY <1>3
  <2>5. next - p \in {w, w + m, w - m} /\ current - (k + 1) * s = w
    <3> HIDE DEF p
    <3> QED BY <1>3, <2>3, <2>4
  <2>6. Wrapped(next - p) = Wrapped(w)
    <3> HIDE DEF p, w
    <3> QED BY <1>5, <2>4, <2>5
  <2>7. /\ ramp_at(next, target, step, k) = Wrapped(next - p)
        /\ ramp_at(current, target, step, k + 1) = Wrapped(current - (k + 1) * s)
    BY <2>1
  <2>8. Wrapped(current - (k + 1) * s) = Wrapped(w)
    BY <2>5
  <2> HIDE DEF p, w
  <2> QED BY <2>6, <2>7, <2>8 DEF next
<1> QED BY <1>6, <1>7

\* Of a set of positive numbers without 1, the least is one more than the
\* least of the predecessors.
LEMMA LeastShift ==
    ASSUME NEW S \in SUBSET (Nat \ {0}), NEW R \in SUBSET (Nat \ {0}),
           R # {}, \A j \in Nat \ {0} : j \in R <=> j + 1 \in S, 1 \notin S
    PROVE  S # {} /\ Least(S) = Least(R) + 1
<1>1. Least(R) \in R /\ \A j \in R : Least(R) <= j
  BY LeastExists
<1>2. Least(R) + 1 \in S
  BY <1>1
<1>3. Least(S) \in S /\ \A j \in S : Least(S) <= j
  BY <1>2, LeastExists
<1> DEFINE l == Least(S)
           q == Least(R)
<1> HIDE DEF l, q
<1>4. l \in S /\ l \in Nat /\ l # 1 /\ l # 0 /\ q \in R /\ q \in Nat /\ q + 1 \in S
  BY <1>1, <1>2, <1>3 DEF l, q
<1>5. l <= q + 1
  BY <1>3, <1>2 DEF l, q
<1>6. l - 1 \in Nat \ {0} /\ (l - 1) + 1 = l
  BY <1>4
<1>7. l - 1 \in R
  BY <1>4, <1>6
<1>8. q <= l - 1
  BY <1>1, <1>7 DEF q
<1>9. l = q + 1
  BY <1>4, <1>5, <1>8
<1> QED BY <1>2, <1>9 DEF l, q

\* One interval less is one step less.
LEMMA DivShift ==
    ASSUME NEW i \in Nat \ {0}, NEW a \in Nat, a >= i
    PROVE  /\ a - i \in Nat /\ a \div i \in Nat /\ a \div i >= 1
           /\ (a - i) \div i = a \div i - 1
<1> DEFINE q == a \div i
           r == a % i
           u == (a - i) \div i
           v == (a - i) % i
<1>1. q \in Int /\ r \in 0 .. i - 1 /\ a = i * q + r
  OBVIOUS
<1>2. u \in Int /\ v \in 0 .. i - 1 /\ a - i = i * u + v
  OBVIOUS
<1> HIDE DEF q, r, u, v
<1>3. q >= 1
  <2> SUFFICES ASSUME q <= 0 PROVE FALSE
    BY <1>1
  <2>1. i * q <= 0
    BY <1>1
  <2> QED BY <1>1, <2>1
<1> DEFINE d == q - 1 - u
<1>4. d \in Int /\ i * d = v - r
  BY <1>1, <1>2
<1>5. d = 0
  <2> HIDE DEF d
  <2>1. d >= 1 => i * d >= i
    BY <1>4
  <2>2. d <= -1 => i * d <= -i
    BY <1>4
  <2> QED BY <1>1, <1>2, <1>4, <2>1, <2>2
<1>6. u = q - 1
  BY <1>1, <1>2, <1>5
<1> QED BY <1>1, <1>3, <1>6 DEF q, u

\* If the first step does not arrive, what remains of the loop arrives one step
\* sooner.
LEMMA ArrivalsShift ==
    ASSUME NEW current \in Int16, NEW target \in Int16, NEW step \in Word, NEW n \in Nat,
           current # target, n >= 1, 1 \notin ramp_arrivals(current, target, step, n)
    PROVE  LET next == ramp_at(current, target, step, 1)
           IN  /\ ramp_step(current, target, step) = next
               /\ next # target /\ (next < target <=> current < target)
               /\ \A j \in Nat \ {0} :
                      j \in ramp_arrivals(next, target, step, n - 1)
                          <=> j + 1 \in ramp_arrivals(current, target, step, n)
<1> DEFINE next == ramp_at(current, target, step, 1)
<1>1. 1 \in Nat /\ 1 \in 1 .. n /\ next \in Int16
  BY RampAtType
<1>2. current \in Int /\ target \in Int /\ next \in Int
  <2> HIDE DEF next
  <2> QED BY <1>1, Int16Facts
<1>3. IF current < target THEN ~(next >= target) ELSE ~(next <= target)
  BY <1>1 DEF ramp_arrivals
<1>4. ramp_step(current, target, step) = IF current < target
                                         THEN IF next > target THEN target ELSE next
                                         ELSE IF next < target THEN target ELSE next
  BY OneStep
<1>5. next # target /\ (next < target <=> current < target)
  <2> HIDE DEF next
  <2> QED BY <1>2, <1>3
<1>6. ramp_step(current, target, step) = next
  <2> HIDE DEF next
  <2> QED BY <1>2, <1>3, <1>4
<1>7. ASSUME NEW j \in Nat \ {0}
      PROVE  j \in ramp_arrivals(next, target, step, n - 1)
                 <=> j + 1 \in ramp_arrivals(current, target, step, n)
  <2>1. ramp_at(next, target, step, j) = ramp_at(current, target, step, j + 1)
    BY <1>5, StepsGoOn
  <2>2. j \in 1 .. n - 1 <=> j + 1 \in 1 .. n
    OBVIOUS
  <2> HIDE DEF next
  <2> QED BY <1>5, <2>1, <2>2 DEF ramp_arrivals
<1> QED BY <1>5, <1>6, <1>7

\* The closed form, also where the loop has nothing to do.
Walked(current, target, step, interval, accum) ==
    IF current = target THEN [current |-> target, accum |-> accum]
    ELSE ramp_walk(current, target, step, interval, accum)

\* The closed form unrolls as the loop does.
LEMMA WalkUnrolls ==
    ASSUME NEW current \in Int16, NEW target \in Int16, NEW step \in Word,
           NEW interval \in Nat \ {0}, NEW accum \in Nat, current # target
    PROVE  /\ ~(accum >= interval) =>
                  ramp_walk(current, target, step, interval, accum)
                      = [current |-> current, accum |-> accum]
           /\ accum >= interval =>
                  /\ ramp_step(current, target, step) \in Int16
                  /\ accum - interval \in Nat
                  /\ ramp_walk(current, target, step, interval, accum)
                         = Walked(ramp_step(current, target, step), target, step,
                                  interval, accum - interval)
<1> DEFINE n == accum \div interval
           S == ramp_arrivals(current, target, step, n)
           next == ramp_at(current, target, step, 1)
<1>1. n \in Nat /\ S \subseteq 1 .. n /\ S \in SUBSET (Nat \ {0}) /\ next \in Int16
  <2>1. n \in Nat /\ 1 \in Nat
    BY IntervalsIn
  <2>2. S \subseteq 1 .. n
    BY DEF ramp_arrivals
  <2>3. next \in Int16
    BY <2>1, RampAtType
  <2> HIDE DEF n, S, next
  <2> QED BY <2>1, <2>2, <2>3
<1>2. CASE ~(accum >= interval)
  <2>1. n = 0
    BY <1>2
  <2>2. S = {}
    <3> HIDE DEF n, S
    <3> QED BY <1>1, <2>1
  <2>3. ramp_at(current, target, step, n) = current /\ accum - n * interval = accum
    <3> HIDE DEF n
    <3> QED BY <2>1, NoStep
  <2> QED BY <1>2, <2>2, <2>3 DEF ramp_walk
<1>3. CASE accum >= interval
  <2>1. /\ accum - interval \in Nat /\ n >= 1
        /\ (accum - interval) \div interval = n - 1
    BY <1>3, DivShift
  <2>2. CASE 1 \in S
    <3>1. ramp_step(current, target, step) = target
      <4>1. IF current < target THEN next >= target ELSE next <= target
        BY <2>2 DEF ramp_arrivals
      <4>2. ramp_step(current, target, step) = IF current < target
                                               THEN IF next > target THEN target ELSE next
                                               ELSE IF next < target THEN target ELSE next
        BY OneStep
      <4>3. target \in Int /\ next \in Int
        <5> HIDE DEF next
        <5> QED BY <1>1, Int16Facts
      <4> HIDE DEF next
      <4> QED BY <4>1, <4>2, <4>3
    <3>2. Least(S) = 1
      <4> HIDE DEF S, n
      <4>1. S \subseteq Nat /\ S # {}
        BY <1>1, <2>2
      <4>2. Least(S) \in S /\ Least(S) <= 1
        BY <2>2, <4>1, LeastExists
      <4> DEFINE l == Least(S)
      <4>3. l \in Nat \ {0} /\ l <= 1
        BY <1>1, <4>2
      <4> HIDE DEF l
      <4>4. l = 1
        BY <4>3
      <4> QED BY <4>4 DEF l
    <3>3. ramp_walk(current, target, step, interval, accum)
              = [current |-> target, accum |-> accum - 1 * interval]
      BY <2>2, <3>2 DEF ramp_walk
    <3> QED BY <1>3, <2>1, <3>1, <3>3 DEF Walked
  <2>3. CASE 1 \notin S
    <3> DEFINE R == ramp_arrivals(next, target, step, n - 1)
    <3>1. /\ ramp_step(current, target, step) = next
          /\ next # target /\ (next < target <=> current < target)
          /\ \A j \in Nat \ {0} : j \in R <=> j + 1 \in S
      <4> HIDE DEF n
      <4> QED BY <1>1, <2>1, <2>3, ArrivalsShift
    <3>2. n - 1 \in Nat /\ R \in SUBSET (Nat \ {0})
      <4> HIDE DEF n, next
      <4> QED BY <1>1, <2>1 DEF ramp_arrivals
    <3>3. Walked(next, target, step, interval, accum - interval) =
              IF R = {}
              THEN [current |-> ramp_at(next, target, step, n - 1),
                    accum   |-> (accum - interval) - (n - 1) * interval]
              ELSE [current |-> target, accum |-> (accum - interval) - Least(R) * interval]
      <4> HIDE DEF next, n
      <4> QED BY <2>1, <3>1 DEF Walked, ramp_walk
    <3>4. ramp_walk(current, target, step, interval, accum) =
              IF S = {}
              THEN [current |-> ramp_at(current, target, step, n),
                    accum   |-> accum - n * interval]
              ELSE [current |-> target, accum |-> accum - Least(S) * interval]
      BY DEF ramp_walk
    <3>5. \A l \in Nat : (accum - interval) - l * interval = accum - (l + 1) * interval
      OBVIOUS
    <3>6. CASE R = {}
      <4>1. S = {}
        <5> HIDE DEF R, S, n
        <5> SUFFICES ASSUME NEW j \in S PROVE FALSE
          OBVIOUS
        <5>1. j \in Nat \ {0} /\ j # 1
          BY <1>1, <2>3
        <5>2. j - 1 \in Nat \ {0} /\ (j - 1) + 1 = j
          BY <5>1
        <5> QED BY <3>1, <3>6, <5>2
      <4>2. ramp_at(next, target, step, n - 1) = ramp_at(current, target, step, n)
        <5>1. (n - 1) + 1 = n
          BY <1>1
        <5> DEFINE k == n - 1
        <5>2. ramp_at(next, target, step, k) = ramp_at(current, target, step, k + 1)
          <6>1. k \in Nat
            BY <3>2
          <6> HIDE DEF k
          <6> QED BY <3>1, <6>1, StepsGoOn
        <5> QED BY <5>1, <5>2
      <4>3. (accum - interval) - (n - 1) * interval = accum - n * interval
        <5> HIDE DEF n
        <5> QED BY <1>1, <3>2, <3>5
      <4> HIDE DEF R, S, n, next
      <4> QED BY <1>1, <1>3, <2>1, <3>1, <3>3, <3>4, <3>6, <4>1, <4>2, <4>3
    <3>7. CASE R # {}
      <4> HIDE DEF R, S, n, next
      <4>1. S # {} /\ Least(S) = Least(R) + 1
        BY <1>1, <2>3, <3>1, <3>2, <3>7, LeastShift
      <4>2. Least(R) \in Nat
        BY <3>2, <3>7, LeastExists
      <4>3. (accum - interval) - Least(R) * interval = accum - Least(S) * interval
        BY <3>5, <4>1, <4>2
      <4> QED BY <1>1, <1>3, <2>1, <3>1, <3>3, <3>4, <3>7, <4>1, <4>3
    <3> QED BY <3>6, <3>7
  <2> QED BY <2>2, <2>3
<1> QED BY <1>2, <1>3

\* The while loop of vc_channel_tick_ramp computes the closed form.
LEMMA LoopWalks ==
    ASSUME NEW current \in Int16, NEW target \in Int16, NEW step \in Word,
           NEW interval \in Nat \ {0}, NEW accum \in Nat, current # target
    PROVE  ramp_loop(current, target, step, interval, accum)
               = ramp_walk(current, target, step, interval, accum)
<1> DEFINE D == [current : Int16, accum : 0 .. accum]
           goes(s) == s.accum >= interval /\ s.current # target
           next(s) == [current |-> ramp_step(s.current, target, step),
                       accum   |-> s.accum - interval]
           walked(s) == Walked(s.current, target, step, interval, s.accum)
           W == [s \in D |-> walked(s)]
           loop == CHOOSE g : g = [s \in D |-> IF goes(s) THEN g[next(s)] ELSE s]
           start == [current |-> current, accum |-> accum]
<1>1. ASSUME NEW s \in D
      PROVE  /\ s = [current |-> s.current, accum |-> s.accum]
             /\ s.current \in Int16 /\ s.accum \in Nat /\ s.accum \in 0 .. accum
  OBVIOUS
<1>2. ASSUME NEW s \in D, goes(s)
      PROVE  next(s) \in D /\ next(s).accum < s.accum /\ walked(s) = walked(next(s))
  <2>1. /\ ramp_step(s.current, target, step) \in Int16
        /\ ramp_walk(s.current, target, step, interval, s.accum)
               = Walked(ramp_step(s.current, target, step), target, step,
                        interval, s.accum - interval)
    BY <1>1, <1>2, WalkUnrolls
  <2>2. s.accum - interval \in 0 .. accum /\ s.accum - interval < s.accum
    BY <1>1, <1>2
  <2>3. next(s).current = ramp_step(s.current, target, step)
        /\ next(s).accum = s.accum - interval
    OBVIOUS
  <2>4. next(s) \in D
    BY <2>1, <2>2
  <2>5. walked(s) = ramp_walk(s.current, target, step, interval, s.accum)
    BY <1>2 DEF Walked
  <2> QED BY <2>1, <2>2, <2>3, <2>4, <2>5
<1>3. ASSUME NEW s \in D, ~goes(s)
      PROVE  walked(s) = s
  <2>1. CASE s.current = target
    BY <1>1, <2>1 DEF Walked
  <2>2. CASE s.current # target
    <3>1. ~(s.accum >= interval)
      BY <1>3, <2>2
    <3>2. ramp_walk(s.current, target, step, interval, s.accum)
              = [current |-> s.current, accum |-> s.accum]
      BY <1>1, <2>2, <3>1, WalkUnrolls
    <3> QED BY <1>1, <2>2, <3>2 DEF Walked
  <2> QED BY <2>1, <2>2
<1>4. ramp_loop(current, target, step, interval, accum) = loop[start]
  BY DEF ramp_loop
<1>5. start \in D /\ walked(start) = ramp_walk(current, target, step, interval, accum)
  BY DEF Walked
<1> HIDE DEF D, goes, next, walked, start
<1>6. W = [s \in D |-> IF goes(s) THEN W[next(s)] ELSE s]
  <2>1. ASSUME NEW s \in D
        PROVE  walked(s) = IF goes(s) THEN W[next(s)] ELSE s
    BY <1>2, <1>3
  <2> QED BY <2>1
<1>7. loop = [s \in D |-> IF goes(s) THEN loop[next(s)] ELSE s]
  <2> HIDE DEF W
  <2> QED BY <1>6, Zenon
<1> HIDE DEF loop
<1>8. \A s \in D : loop[s] = walked(s)
  <2> DEFINE B == {n \in Nat : \E s \in D : s.accum = n /\ loop[s] # walked(s)}
  <2>1. SUFFICES ASSUME NEW s \in D, loop[s] # walked(s) PROVE FALSE
    OBVIOUS
  <2>2. B \subseteq Nat /\ B # {}
    BY <1>1, <2>1
  <2>3. Least(B) \in B /\ \A j \in B : Least(B) <= j
    <3> HIDE DEF B
    <3> QED BY <2>2, LeastExists
  <2>4. PICK u \in D : u.accum = Least(B) /\ loop[u] # walked(u)
    BY <2>3
  <2>5. loop[u] = IF goes(u) THEN loop[next(u)] ELSE u
    BY <1>7
  <2>6. CASE goes(u)
    <3>1. next(u) \in D /\ next(u).accum < u.accum /\ walked(u) = walked(next(u))
      BY <1>2, <2>6
    <3>2. loop[next(u)] # walked(next(u))
      BY <2>4, <2>5, <2>6, <3>1
    <3>3. next(u).accum \in B
      BY <1>1, <3>1, <3>2
    <3>4. next(u).accum \in Nat /\ u.accum \in Nat
      BY <1>1, <3>1
    <3> HIDE DEF B
    <3> QED BY <2>3, <2>4, <3>1, <3>3, <3>4
  <2>7. CASE ~goes(u)
    BY <1>3, <2>4, <2>5, <2>7
  <2> QED BY <2>6, <2>7
<1> QED BY <1>4, <1>5, <1>8

\* No ramp ends beyond its target; and it ends between where it began and its
\* target unless, on the way up, a sum may wrap or, on the way down, the step is
\* negative as an int16_t.
LEMMA WalkStaysBetween ==
    ASSUME NEW current \in Int16, NEW target \in 0 .. IntMax, current # target,
           NEW step \in Word, NEW interval \in Nat \ {0}, NEW accum \in Nat
    PROVE  LET x == ramp_walk(current, target, step, interval, accum).current
           IN  /\ current < target => x <= target /\ (x >= current \/ step > IntMax - target)
               /\ current > target => x >= target /\ (x <= current \/ step > IntMax)
<1> DEFINE n == accum \div interval
           x == ramp_walk(current, target, step, interval, accum).current
           Between(y) ==
               /\ current < target => y <= target /\ (y >= current \/ step > IntMax - target)
               /\ current > target => y >= target /\ (y <= current \/ step > IntMax)
<1>1. n \in Nat
  BY IntervalsIn
<1>2. /\ IntMax \in Nat /\ current \in Int /\ target \in Int /\ target \in Int16
      /\ step \in Nat
  BY IntMaxAssumption DEF Int16, Word, WordMax
<1>3. ASSUME ramp_arrivals(current, target, step, n) # {} PROVE Between(x)
  <2>1. x = target
    BY <1>3 DEF ramp_walk
  <2> HIDE DEF x
  <2> QED BY <1>2, <2>1
<1>4. ASSUME ramp_arrivals(current, target, step, n) = {} PROVE Between(x)
  <2>1. x = ramp_at(current, target, step, n)
    BY <1>4 DEF ramp_walk
  <2>2. ramp_at(current, target, step, n) \in Int
    BY <1>1, <1>2, RampAtType, Int16Facts
  <2>3. CASE n = 0
    <3>1. ramp_at(current, target, step, 0) = current
      BY <1>2, NoStep
    <3> HIDE DEF x, n
    <3> QED BY <1>2, <2>1, <2>3, <3>1
  <2>4. CASE n # 0
    <3>1. n \in 1 .. n
      BY <1>1, <2>4
    <3> HIDE DEF n
    <3>2. /\ current < target => ramp_at(current, target, step, n) < target
          /\ current > target => ramp_at(current, target, step, n) > target
      BY <1>2, <1>4, <2>2, <3>1 DEF ramp_arrivals
    <3>3. ASSUME current < target
          PROVE  ramp_at(current, target, step, n) >= current \/ step > IntMax - target
      <4> SUFFICES ASSUME step \in 0 .. IntMax - target
                   PROVE  ramp_at(current, target, step, n) >= current
        BY <1>2
      <4>1. ramp_at(current, target, step, n) \in current .. target
        BY <1>1, <1>4, <3>3, RampUpBelow
      <4> QED BY <4>1, <1>2
    <3>4. ASSUME current > target
          PROVE  ramp_at(current, target, step, n) <= current \/ step > IntMax
      <4> SUFFICES ASSUME step \in 0 .. IntMax
                   PROVE  ramp_at(current, target, step, n) <= current
        BY <1>2
      <4>1. ramp_at(current, target, step, n) \in target .. current
        BY <1>1, <1>4, <3>4, RampDownAbove
      <4> QED BY <4>1, <1>2
    <3> HIDE DEF x
    <3> QED BY <1>2, <2>1, <2>2, <3>2, <3>3, <3>4
  <2> QED BY <2>3, <2>4
<1> QED BY <1>3, <1>4

\* Whatever is written during a ramp, the while loop of vc_channel_tick_ramp
\* never takes the output beyond its target, and leaves it between where it was
\* and the target, for every width, interval and accumulated time, if the step up
\* is at most INT16_MAX - target or the step down at most INT16_MAX.
THEOREM RampStaysBetween ==
    ASSUME NEW current \in Int16, NEW target \in 0 .. IntMax, current # target,
           NEW step \in Word, NEW interval \in Nat \ {0}, NEW accum \in Nat
    PROVE  LET x == ramp_loop(current, target, step, interval, accum).current
           IN  /\ current < target => x <= target /\ (x >= current \/ step > IntMax - target)
               /\ current > target => x >= target /\ (x <= current \/ step > IntMax)
<1>1. target \in Int16
  BY IntMaxAssumption DEF Int16
<1>2. ramp_loop(current, target, step, interval, accum)
        = ramp_walk(current, target, step, interval, accum)
  BY <1>1, LoopWalks
<1> QED BY <1>2, WalkStaysBetween

(***************************************************************************)
(* The channel                                                             *)
(***************************************************************************)
\* The state of a channel apart from its hardware: typed, at most one word of
\* retry history, a calibration code only with the calibration output on, nothing
\* driven under a hard fault, the targets a ramp aims at in range.
Sound(c) ==
    /\ c \in VcChannel
    /\ Len(c.retry_ages) <= MaxRetryHistory
    /\ c.raw_dac_readback # 0 => c.cal_output_enabled
    /\ has_hard_safety_fault(c) =>
           c.operational_target_voltage = 0 /\ ~c.cal_output_enabled
    /\ c.config.configured_target_voltage \in 0 .. MaxTarget
    /\ c.recovery_target \in 0 .. MaxTarget

\* The hardware does what the state calls for.
Fresh(c) ==
    /\ c.hw.code = hw_command(c).code
    /\ hw_command(c).enable => c.hw.enable

Good(c) == Sound(c) /\ Fresh(c)

\* A function that turns c into d keeps it good and does not turn the
\* calibration output on.
Keeps(c, d) ==
    /\ Good(c) => Good(d)
    /\ d.cal_output_enabled => c.cal_output_enabled

\* Every power of ten in the table is a positive number.
LEMMA Pow10Type ==
    \A e \in 1 .. 10 : vc_pow10_table[e] \in Nat \ {0}
<1> SUFFICES ASSUME NEW e \in 1 .. 10 PROVE vc_pow10_table[e] \in Nat \ {0}
  OBVIOUS
<1>1. e \in {1, 2, 3, 4, 5, 6, 7, 8, 9, 10}
  OBVIOUS
<1> QED BY <1>1 DEF vc_pow10_table

\* C division of integers is an integer.
LEMMA CDivType ==
    ASSUME NEW a \in Int, NEW b \in Nat \ {0}
    PROVE  CDiv(a, b) \in Int
BY DEF CDiv

\* apply_gain of an integer is an integer.
LEMMA GainType ==
    ASSUME NEW raw \in Int, NEW mantissa \in Nat, NEW exp \in CalExp
    PROVE  apply_gain(raw, mantissa, exp) \in Int
<1>1. raw * mantissa \in Int
  OBVIOUS
<1>2. CASE exp > 0
  <2>1. vc_pow10_table[exp + 1] \in Nat
    BY <1>2, Pow10Type DEF CalExp
  <2>2. raw * mantissa * vc_pow10_table[exp + 1] \in Int
    BY <1>1, <2>1
  <2> QED BY <1>2, <2>2 DEF apply_gain, CalExp
<1>3. CASE exp < 0
  <2>1. vc_pow10_table[1 - exp] \in Nat \ {0}
    BY <1>3, Pow10Type DEF CalExp
  <2>2. CDiv(raw * mantissa, vc_pow10_table[1 - exp]) \in Int
    BY <1>1, <2>1, CDivType
  <2> QED BY <1>3, <2>2 DEF apply_gain, CalExp
<1>4. CASE exp = 0
  BY <1>1, <1>4 DEF apply_gain
<1> QED BY <1>2, <1>3, <1>4 DEF CalExp

\* raw_drive_from_target clamps to a DAC word.
LEMMA DriveType ==
    ASSUME NEW c \in VcChannel, NEW target \in Int16
    PROVE  raw_drive_from_target(c, target) \in Word
<1> DEFINE k == c.cal_config
           raw == apply_gain(target, k.output_calib_k, k.output_calib_k_exp) + k.output_calib_b
<1>1. /\ k.output_calib_k \in Nat /\ k.output_calib_k_exp \in CalExp
      /\ k.output_calib_b \in Int /\ target \in Int
  BY Int16Facts DEF VcChannel, VcChannelCalConfig, CalGain, CalOffset
<1>2. raw \in Int
  BY <1>1, GainType
<1>3. raw_drive_from_target(c, target)
        = IF raw <= 0 THEN 0 ELSE IF raw > WordMax THEN WordMax ELSE raw
  BY DEF raw_drive_from_target
<1> HIDE DEF raw
<1> QED BY <1>2, <1>3, IntMaxAssumption DEF Word, WordMax

\* apply_hw commands an enable line and a DAC word.
LEMMA HwType ==
    ASSUME NEW c \in VcChannel
    PROVE  hw_command(c) \in [enable : BOOLEAN, code : Word]
<1>1. raw_drive_from_target(c, c.operational_target_voltage) \in Word
  BY DriveType DEF VcChannel
<1>2. c.raw_dac_readback \in Word /\ 0 \in Word
  BY Int16Facts DEF VcChannel
<1> QED BY <1>1, <1>2 DEF hw_command

\* apply_hw makes a sound channel good.
LEMMA ApplyHw ==
    ASSUME NEW c, Sound(c)
    PROVE  /\ Good(apply_hw(c))
           /\ apply_hw(c).cal_output_enabled = c.cal_output_enabled
<1>1. c \in VcChannel /\ hw_command(c) \in [enable : BOOLEAN, code : Word]
  BY HwType DEF Sound
<1>2. apply_hw(c) \in VcChannel /\ apply_hw(c).hw = hw_command(c)
  BY <1>1 DEF apply_hw, VcChannel
<1>3. Sound(apply_hw(c))
  BY <1>1, <1>2 DEF Sound, apply_hw, VcChannel, has_hard_safety_fault
<1>4. hw_command(apply_hw(c)) = hw_command(c)
  BY <1>1 DEF apply_hw, hw_command, raw_drive_from_target, VcChannel
<1> QED BY <1>1, <1>2, <1>3, <1>4 DEF Good, Fresh, apply_hw, VcChannel

\* update_status_bits touches nothing else.
LEMMA UpdateStatus ==
    ASSUME NEW c, Sound(c)
    PROVE  /\ Sound(update_status_bits(c))
           /\ Fresh(c) => Fresh(update_status_bits(c))
           /\ update_status_bits(c).cal_output_enabled = c.cal_output_enabled
<1>1. c \in VcChannel /\ status_of(c) \in SUBSET StatusBits
  BY DEF Sound, status_of
<1>2. update_status_bits(c) \in VcChannel
  BY <1>1 DEF update_status_bits, VcChannel
<1>3. Sound(update_status_bits(c))
  BY <1>1, <1>2 DEF Sound, update_status_bits, VcChannel, has_hard_safety_fault
<1>4. hw_command(update_status_bits(c)) = hw_command(c)
  BY <1>1 DEF update_status_bits, hw_command, raw_drive_from_target, VcChannel
<1> QED BY <1>1, <1>3, <1>4 DEF Fresh, update_status_bits, VcChannel

\* apply_hw and update_status_bits together make a sound channel good.
LEMMA Refresh ==
    ASSUME NEW c, Sound(c)
    PROVE  /\ Good(refresh(c))
           /\ refresh(c).cal_output_enabled = c.cal_output_enabled
BY ApplyHw, UpdateStatus DEF refresh, Good

(***************************************************************************)
(* Output actions                                                          *)
(***************************************************************************)
\* The start of a graceful disable leaves a sound channel.
LEMMA StartGraceful ==
    ASSUME NEW c, Sound(c)
    PROVE  /\ Sound(start_graceful(c))
           /\ start_graceful(c).cal_output_enabled = c.cal_output_enabled
BY DEF Sound, start_graceful, VcChannel, SmfStates, has_hard_safety_fault

\* An immediate or forced disable leaves a sound channel.
LEMMA CutOutput ==
    ASSUME NEW c, Sound(c), NEW s \in {"DISABLED_HV_ON", "DISABLED_SAFE"}
    PROVE  /\ Sound(cut_output(c, s))
           /\ cut_output(c, s).cal_output_enabled = c.cal_output_enabled
<1>1. cut_output(c, s) \in VcChannel
  BY Int16Facts DEF Sound, cut_output, VcChannel, SmfStates
<1> QED BY <1>1, Int16Facts DEF Sound, cut_output, VcChannel, has_hard_safety_fault

\* apply_protection_action, whatever the action, ends with the hardware applied.
LEMMA ProtectionAction ==
    ASSUME NEW c, Sound(c), NEW action
    PROVE  /\ Good(apply_protection_action(c, action))
           /\ apply_protection_action(c, action).cal_output_enabled = c.cal_output_enabled
<1> DEFINE a == IF channel_has_cap(c, "RAW_OUTPUT_DRIVE") THEN action ELSE "DISABLE_FORCE"
           d == CASE a = "DISABLE_GRACEFUL"  -> start_graceful(c)
                  [] a = "DISABLE_IMMEDIATE" -> cut_output(c, "DISABLED_HV_ON")
                  [] a = "DISABLE_FORCE"     -> cut_output(c, "DISABLED_SAFE")
                  [] OTHER                   -> c
<1>1. Sound(d) /\ d.cal_output_enabled = c.cal_output_enabled
  <2> HIDE DEF a
  <2>1. d \in {start_graceful(c), cut_output(c, "DISABLED_HV_ON"),
               cut_output(c, "DISABLED_SAFE"), c}
    OBVIOUS
  <2> HIDE DEF d
  <2> QED BY <2>1, StartGraceful, CutOutput
<1>2. apply_protection_action(c, action) = apply_hw(d)
  BY DEF apply_protection_action
<1> HIDE DEF d
<1> QED BY <1>1, <1>2, ApplyHw

\* The channel after the ENABLE action, before the refresh.
LEMMA EnableSound ==
    ASSUME NEW c, Sound(c)
    PROVE  LET d == [c EXCEPT !.output_enabled = TRUE, !.ramping = TRUE,
                              !.ramp_to_disable = FALSE, !.smf = "RAMPING"]
           IN  Sound(d) /\ d.cal_output_enabled = c.cal_output_enabled
BY DEF Sound, VcChannel, SmfStates, has_hard_safety_fault

\* A graceful disable also clears the cooldown.
LEMMA ClearCooldownSound ==
    ASSUME NEW c, Sound(c)
    PROVE  LET d == [c EXCEPT !.cooldown_remaining = 0]
           IN  Sound(d) /\ d.cal_output_enabled = c.cal_output_enabled
BY DEF Sound, VcChannel, has_hard_safety_fault

\* vc_channel_output_action keeps a channel good.
LEMMA OutputActionKeeps ==
    ASSUME NEW c, Good(c), NEW action
    PROVE  Keeps(c, vc_channel_output_action(c, action).ch)
<1> DEFINE a == IF /\ ~channel_has_cap(c, "RAW_OUTPUT_DRIVE")
                   /\ action \in {"DISABLE_GRACEFUL", "DISABLE_IMMEDIATE"}
                THEN "DISABLE_FORCE" ELSE action
           enabled == [c EXCEPT !.output_enabled = TRUE, !.ramping = TRUE,
                                !.ramp_to_disable = FALSE, !.smf = "RAMPING"]
           uncooled == [c EXCEPT !.cooldown_remaining = 0]
           R == {c, refresh(enabled), refresh(start_graceful(uncooled)),
                 refresh(cut_output(c, "DISABLED_HV_ON")),
                 refresh(cut_output(c, "DISABLED_SAFE"))}
<1>1. Sound(c)
  BY DEF Good
<1>2. Sound(enabled) /\ enabled.cal_output_enabled = c.cal_output_enabled
  BY <1>1, EnableSound
<1>3. Sound(uncooled) /\ uncooled.cal_output_enabled = c.cal_output_enabled
  BY <1>1, ClearCooldownSound
<1>4. vc_channel_output_action(c, action).ch \in R
  <2> HIDE DEF enabled, uncooled
  <2> QED BY DEF vc_channel_output_action, Reply, OutputActions, ProtectionActions, enabled, uncooled
<1>5. \A d \in R : Keeps(c, d)
  <2> HIDE DEF enabled, uncooled
  <2>1. Keeps(c, c)
    BY DEF Keeps
  <2>2. Keeps(c, refresh(enabled))
    BY <1>2, Refresh DEF Keeps
  <2>3. Keeps(c, refresh(start_graceful(uncooled)))
    BY <1>3, StartGraceful, Refresh DEF Keeps
  <2>4. \A s \in {"DISABLED_HV_ON", "DISABLED_SAFE"} : Keeps(c, refresh(cut_output(c, s)))
    BY <1>1, CutOutput, Refresh DEF Keeps
  <2> QED BY <2>1, <2>2, <2>3, <2>4
<1> HIDE DEF R
<1> QED BY <1>4, <1>5

(***************************************************************************)
(* Faults                                                                  *)
(***************************************************************************)
\* A current trip is not a hard fault, and it may be recorded at any time.
LEMMA TripSound ==
    ASSUME NEW c, Sound(c)
    PROVE  LET seen    == [c EXCEPT !.fault_history_cause = @ \cup {"CURRENT"}]
               tripped == [seen EXCEPT !.active_fault_cause = @ \cup {"CURRENT"}]
           IN  /\ Sound(seen) /\ seen.cal_output_enabled = c.cal_output_enabled
               /\ Fresh(c) => Fresh(seen)
               /\ Sound(tripped) /\ tripped.cal_output_enabled = c.cal_output_enabled
<1> DEFINE seen    == [c EXCEPT !.fault_history_cause = @ \cup {"CURRENT"}]
           tripped == [seen EXCEPT !.active_fault_cause = @ \cup {"CURRENT"}]
<1>1. c \in VcChannel
  BY DEF Sound
<1>2. seen \in VcChannel /\ tripped \in VcChannel
  BY <1>1 DEF VcChannel, FaultCauses
<1>3. Sound(seen) /\ seen.cal_output_enabled = c.cal_output_enabled
  BY <1>1, <1>2 DEF Sound, VcChannel, has_hard_safety_fault
<1>4. hw_command(seen) = hw_command(c) /\ seen.hw = c.hw
  BY <1>1 DEF hw_command, raw_drive_from_target, VcChannel
<1>5. has_hard_safety_fault(tripped) = has_hard_safety_fault(seen)
  BY <1>2 DEF has_hard_safety_fault, VcChannel
<1>6. Sound(tripped) /\ tripped.cal_output_enabled = c.cal_output_enabled
  BY <1>2, <1>3, <1>5 DEF Sound, VcChannel
<1> QED BY <1>3, <1>4, <1>6 DEF Fresh

\* The state machine's state does not reach the hardware while an output is on
\* or the state is not DISABLED_HV_ON.
LEMMA LatchGood ==
    ASSUME NEW c, Good(c), NEW s \in SmfStates \ {"DISABLED_HV_ON"}
    PROVE  LET d == [c EXCEPT !.smf = s]
           IN  Good(d) /\ d.cal_output_enabled = c.cal_output_enabled
<1> DEFINE d == [c EXCEPT !.smf = s]
<1>1. c \in VcChannel /\ Sound(c) /\ Fresh(c)
  BY DEF Good, Sound
<1>2. Sound(d) /\ d.cal_output_enabled = c.cal_output_enabled /\ d.hw = c.hw
  BY <1>1 DEF Sound, VcChannel, has_hard_safety_fault
<1>3. /\ hw_command(d).code = hw_command(c).code
      /\ hw_command(d).enable => hw_command(c).enable
  BY <1>1 DEF hw_command, raw_drive_from_target, VcChannel
<1> QED BY <1>1, <1>2, <1>3 DEF Good, Fresh

\* tick_current_protection keeps a channel good: FAULT_LATCHED is entered after the
\* output action has reached the hardware.
LEMMA CurrentProtectionKeeps ==
    ASSUME NEW c, Good(c)
    PROVE  Keeps(c, tick_current_protection(c))
<1> DEFINE seen    == [c EXCEPT !.fault_history_cause = @ \cup {"CURRENT"}]
           tripped == [seen EXCEPT !.active_fault_cause = @ \cup {"CURRENT"}]
           acted   == apply_protection_action(tripped, c.config.current_protection_output_action)
           latched == [acted EXCEPT !.smf = "FAULT_LATCHED"]
<1>1. Sound(c)
  BY DEF Good
<1>2. /\ Good(seen) /\ seen.cal_output_enabled = c.cal_output_enabled
      /\ Sound(tripped) /\ tripped.cal_output_enabled = c.cal_output_enabled
  BY <1>1, TripSound DEF Good
<1>3. Good(acted) /\ acted.cal_output_enabled = c.cal_output_enabled
  <2> HIDE DEF tripped
  <2> QED BY <1>2, ProtectionAction
<1>4. Good(latched) /\ latched.cal_output_enabled = c.cal_output_enabled
  <2> HIDE DEF acted
  <2> QED BY <1>3, LatchGood DEF SmfStates
<1>5. tick_current_protection(c) \in {c, seen, latched}
  BY DEF tick_current_protection
<1> HIDE DEF seen, latched
<1> QED BY <1>2, <1>4, <1>5 DEF Keeps

\* vc_channel_fault_command keeps a channel good without touching the hardware.
LEMMA FaultCommandKeeps ==
    ASSUME NEW c, Good(c), NEW cmd
    PROVE  Keeps(c, vc_channel_fault_command(c, cmd).ch)
<1> DEFINE cleared == [c EXCEPT !.active_fault_cause = {}, !.smf = "DISABLED_SAFE"]
           forgot  == [c EXCEPT !.fault_history_cause = {}]
           U == {cleared, forgot, c}
<1>1. c \in VcChannel /\ Sound(c) /\ Fresh(c)
  BY DEF Good, Sound
<1>2. Good(cleared) /\ cleared.cal_output_enabled = c.cal_output_enabled
  <2>1. Sound(cleared) /\ cleared.cal_output_enabled = c.cal_output_enabled /\ cleared.hw = c.hw
    BY <1>1 DEF Sound, VcChannel, has_hard_safety_fault, SmfStates
  <2>2. /\ hw_command(cleared).code = hw_command(c).code
        /\ hw_command(cleared).enable => hw_command(c).enable
    BY <1>1 DEF hw_command, raw_drive_from_target, VcChannel
  <2> QED BY <1>1, <2>1, <2>2 DEF Good, Fresh
<1>3. Good(forgot) /\ forgot.cal_output_enabled = c.cal_output_enabled
  <2>1. Sound(forgot) /\ forgot.cal_output_enabled = c.cal_output_enabled /\ forgot.hw = c.hw
    BY <1>1 DEF Sound, VcChannel, has_hard_safety_fault
  <2>2. hw_command(forgot) = hw_command(c)
    BY <1>1 DEF hw_command, raw_drive_from_target, VcChannel
  <2> QED BY <1>1, <2>1, <2>2 DEF Good, Fresh
<1>4. vc_channel_fault_command(c, cmd).ch \in {c} \cup {update_status_bits(d) : d \in U}
  BY DEF vc_channel_fault_command, Reply
<1>5. \A d \in U : Good(d) /\ d.cal_output_enabled = c.cal_output_enabled
  BY <1>2, <1>3
<1> HIDE DEF U
<1>6. \A d \in U : Keeps(c, update_status_bits(d))
  BY <1>5, UpdateStatus DEF Keeps, Good
<1>7. Keeps(c, c)
  BY DEF Keeps
<1> QED BY <1>4, <1>6, <1>7

\* force_safe_state takes the channel to a state without drive, so that a hard
\* fault may become active with it.
LEMMA ConsumeFaultKeeps ==
    ASSUME NEW c, Good(c), NEW cause \in FaultCauses
    PROVE  Keeps(c, vc_channel_consume_fault(c, cause))
<1> DEFINE hit  == [c EXCEPT !.active_fault_cause = @ \cup {cause},
                             !.fault_history_cause = @ \cup {cause}]
           safe == [hit EXCEPT !.output_enabled = FALSE, !.ramping = FALSE,
                               !.recovering = FALSE, !.cooldown_remaining = 0,
                               !.cal_output_enabled = FALSE, !.raw_dac_readback = 0,
                               !.operational_target_voltage = 0, !.smf = "DISABLED_SAFE"]
<1>1. c \in VcChannel /\ Sound(c)
  BY DEF Good, Sound
<1>2. hit \in VcChannel
  BY <1>1 DEF VcChannel
<1>3. safe \in VcChannel
  BY <1>2, Int16Facts DEF VcChannel, SmfStates
<1>4. Sound(safe) /\ safe.cal_output_enabled = FALSE
  BY <1>1, <1>3, Int16Facts DEF Sound, VcChannel
<1>5. vc_channel_consume_fault(c, cause) = update_status_bits(apply_hw(safe))
  BY DEF vc_channel_consume_fault, force_safe_state
<1> HIDE DEF safe
<1> QED BY <1>4, <1>5, ApplyHw, UpdateStatus DEF Good, Keeps

(***************************************************************************)
(* The periodic step                                                       *)
(***************************************************************************)
\* A new measurement does not reach the hardware.
LEMMA MeasureGood ==
    ASSUME NEW c, Good(c), NEW x \in Int16
    PROVE  LET v == [c EXCEPT !.measured_voltage = x]
               m == [c EXCEPT !.measured_current = x]
           IN  /\ Good(v) /\ v.cal_output_enabled = c.cal_output_enabled
               /\ Good(m) /\ m.cal_output_enabled = c.cal_output_enabled
<1> DEFINE v == [c EXCEPT !.measured_voltage = x]
           m == [c EXCEPT !.measured_current = x]
<1>1. c \in VcChannel /\ Sound(c) /\ Fresh(c)
  BY DEF Good, Sound
<1>2. /\ Sound(v) /\ v.cal_output_enabled = c.cal_output_enabled /\ v.hw = c.hw
      /\ Sound(m) /\ m.cal_output_enabled = c.cal_output_enabled /\ m.hw = c.hw
  BY <1>1 DEF Sound, VcChannel, has_hard_safety_fault
<1>3. hw_command(v) = hw_command(c) /\ hw_command(m) = hw_command(c)
  BY <1>1 DEF hw_command, raw_drive_from_target, VcChannel
<1> QED BY <1>1, <1>2, <1>3 DEF Good, Fresh

\* A sample is calibrated and clamped to an int16_t before anything looks at it.
LEMMA SampleType ==
    ASSUME NEW c, Good(c), NEW raw \in Int
    PROVE  /\ \E x \in Int16 :
                  vc_channel_consume_voltage(c, raw)
                    = update_status_bits([c EXCEPT !.measured_voltage = x])
           /\ \E x \in Int16 :
                  vc_channel_consume_current(c, raw)
                    = update_status_bits(tick_current_protection([c EXCEPT !.measured_current = x]))
<1> DEFINE k == c.cal_config
<1>1. /\ k.measured_voltage_calib_k \in Nat /\ k.measured_voltage_calib_k_exp \in CalExp
      /\ k.measured_voltage_calib_b \in Int
      /\ k.measured_current_calib_k \in Nat /\ k.measured_current_calib_k_exp \in CalExp
      /\ k.measured_current_calib_b \in Int
  BY DEF Good, Sound, VcChannel, VcChannelCalConfig, CalGain, CalOffset
<1>2. \A m \in Nat, e \in CalExp, b \in Int : clamp_int16(apply_gain(raw, m, e) + b) \in Int16
  BY GainType, ClampType
<1> QED BY <1>1, <1>2 DEF vc_channel_consume_voltage, vc_channel_consume_current

\* vc_channel_consume_voltage keeps a channel good.
LEMMA ConsumeVoltageKeeps ==
    ASSUME NEW c, Good(c), NEW raw \in Int
    PROVE  Keeps(c, vc_channel_consume_voltage(c, raw))
<1>1. PICK x \in Int16 : vc_channel_consume_voltage(c, raw)
                           = update_status_bits([c EXCEPT !.measured_voltage = x])
  BY SampleType
<1> DEFINE v == [c EXCEPT !.measured_voltage = x]
<1>2. Good(v) /\ v.cal_output_enabled = c.cal_output_enabled
  BY MeasureGood
<1> HIDE DEF v
<1> QED BY <1>1, <1>2, UpdateStatus DEF Keeps, Good, v

\* vc_channel_consume_current keeps a channel good.
LEMMA ConsumeCurrentKeeps ==
    ASSUME NEW c, Good(c), NEW raw \in Int
    PROVE  Keeps(c, vc_channel_consume_current(c, raw))
<1>1. PICK x \in Int16 :
          vc_channel_consume_current(c, raw)
            = update_status_bits(tick_current_protection([c EXCEPT !.measured_current = x]))
  BY SampleType
<1> DEFINE m == [c EXCEPT !.measured_current = x]
<1>2. Good(m) /\ m.cal_output_enabled = c.cal_output_enabled
  BY MeasureGood
<1>3. vc_channel_consume_current(c, raw) = update_status_bits(tick_current_protection(m))
  BY <1>1
<1> HIDE DEF m
<1>4. Keeps(m, tick_current_protection(m))
  BY <1>2, CurrentProtectionKeeps
<1> QED BY <1>2, <1>3, <1>4, UpdateStatus DEF Keeps, Good

\* The end of a ramp leaves a sound channel.
LEMMA RampDoneSound ==
    ASSUME NEW c, Sound(c)
    PROVE  /\ Sound(ramp_done(c))
           /\ ramp_done(c).cal_output_enabled = c.cal_output_enabled
BY DEF Sound, ramp_done, VcChannel, SmfStates, has_hard_safety_fault

\* The end of a ramp that is not a disable needs no refresh of the hardware.
LEMMA RampDoneGood ==
    ASSUME NEW c, Good(c), ~c.ramp_to_disable
    PROVE  Keeps(c, ramp_done(c))
<1> DEFINE d == [c EXCEPT !.ramping = FALSE, !.recovering = FALSE, !.smf = "ENABLED_HOLDING"]
<1>1. c \in VcChannel /\ Sound(c) /\ Fresh(c) /\ ramp_done(c) = d
  BY DEF Good, Sound, ramp_done
<1>2. Sound(d) /\ d.cal_output_enabled = c.cal_output_enabled
  BY <1>1, RampDoneSound
<1>3. /\ hw_command(d).code = hw_command(c).code
      /\ hw_command(d).enable => hw_command(c).enable
      /\ d.hw = c.hw
  BY <1>1 DEF hw_command, raw_drive_from_target, VcChannel
<1> QED BY <1>1, <1>2, <1>3 DEF Good, Fresh, Keeps

\* The target of a ramp is an int16_t, and within range.
LEMMA RampTargetType ==
    ASSUME NEW c, Sound(c)
    PROVE  /\ ramp_target(c) \in Int16
           /\ ramp_target(c) \in 0 .. MaxTarget
BY Int16Facts DEF ramp_target, Sound, VcChannel, VcChannelConfig

\* A new operational target is sound without a hard fault.
LEMMA RetargetSound ==
    ASSUME NEW c, Sound(c), ~has_hard_safety_fault(c), NEW x \in Int16,
           NEW r \in BOOLEAN,
           NEW a \in 0 .. UptimeMod - 1
    PROVE  LET e == [c EXCEPT !.ramping = r, !.ramp_accum = a,
                              !.operational_target_voltage = x]
           IN  Sound(e) /\ e.cal_output_enabled = c.cal_output_enabled
BY DEF Sound, VcChannel, has_hard_safety_fault

\* A target x that a channel may move to without leaving the range, or with a
\* step that the arithmetic on int16_t leads astray.
KeepsRange(c, x) ==
    LET from == c.operational_target_voltage
    IN  /\ x > MaxTarget /\ x > from => c.config.ramp_down_step > IntMax
        /\ x < 0 /\ x < from => c.config.ramp_up_step > IntMax - MaxTarget

\* A target x that is not higher than the present one, or up to zero, or what a
\* negative step down makes of a positive one.
Falls(c, x) ==
    LET from == c.operational_target_voltage
    IN  x > from => x <= 0 \/ (from > 0 /\ c.config.ramp_down_step > IntMax)

\* Where the ramp of vc_channel_tick_ramp may lead a channel.
Reachable(c, x) ==
    /\ KeepsRange(c, x)
    /\ c.ramp_to_disable => Falls(c, x)

\* What vc_channel_tick_ramp does: nothing, the end of a ramp, or a ramp that no
\* fault blocks and that brings the target to a reachable one.
LEMMA RampOutcome ==
    ASSUME NEW c, Sound(c), NEW dt \in Nat
    PROVE  LET d == vc_channel_tick_ramp(c, dt)
               ramped(r, a, x) == [c EXCEPT !.ramping = r, !.ramp_accum = a,
                                            !.operational_target_voltage = x]
           IN  \/ d = c
               \/ d = IF c.ramp_to_disable THEN refresh(ramp_done(c)) ELSE ramp_done(c)
               \/ /\ ~ramp_blocked(c) /\ c.operational_target_voltage # ramp_target(c)
                  /\ \E r \in BOOLEAN, a \in 0 .. UptimeMod - 1, x \in Int16 :
                        /\ Reachable(c, x)
                        /\ d \in {refresh(ramp_done(ramped(r, a, x))), refresh(ramped(r, a, x))}
<1> DEFINE target   == ramp_target(c)
           current  == c.operational_target_voltage
           step     == IF current < target THEN c.config.ramp_up_step
                                           ELSE c.config.ramp_down_step
           interval == IF current < target THEN c.config.ramp_up_interval
                                           ELSE c.config.ramp_down_interval
           accum    == (c.ramp_accum + dt) % UptimeMod
           walked   == ramp_walk(current, target, step, interval, accum)
           ramped(r, a, x) == [c EXCEPT !.ramping = r, !.ramp_accum = a,
                                        !.operational_target_voltage = x]
           d == vc_channel_tick_ramp(c, dt)
<1>1. c \in VcChannel
  BY DEF Sound
<1>2. /\ target \in Int16 /\ current \in Int16
      /\ target \in 0 .. MaxTarget
      /\ c.ramp_to_disable => target = 0
  BY <1>1, RampTargetType DEF Sound, VcChannel, ramp_target
<1>3. step \in 0 .. StepMax /\ interval \in Nat /\ step \in Word
  <2>1. /\ c.config.ramp_up_step \in 0 .. StepMax /\ c.config.ramp_down_step \in 0 .. StepMax
        /\ c.config.ramp_up_interval \in 0 .. IntervalMax
        /\ c.config.ramp_down_interval \in 0 .. IntervalMax
    BY <1>1 DEF VcChannel, VcChannelConfig
  <2>2. IntervalMax \in Nat
    BY ChannelAssumption
  <2>3. step \in 0 .. StepMax /\ interval \in 0 .. IntervalMax
    <3> HIDE DEF target, current
    <3> QED BY <2>1
  <2> HIDE DEF step, interval
  <2> QED BY <2>2, <2>3, Int16Facts
<1>4. accum \in 0 .. UptimeMod - 1
  <2>1. c.ramp_accum + dt \in Nat /\ UptimeMod \in Nat \ {0}
    BY <1>1, Int16Facts DEF VcChannel
  <2> QED BY <2>1
<1>5. CASE \/ ~c.output_enabled
           \/ ramp_blocked(c)
           \/ current = target /\ ~c.ramping
  BY <1>5 DEF vc_channel_tick_ramp
<1>6. CASE ~<1>5!1 /\ current = target
  BY <1>6 DEF vc_channel_tick_ramp
<1>7. CASE ~<1>5!1 /\ current # target /\ (step = 0 \/ interval = 0)
  <2>1. [c EXCEPT !.operational_target_voltage = target]
          = ramped(c.ramping, c.ramp_accum, target)
    <3> HIDE DEF target
    <3> QED BY <1>1 DEF VcChannel
  <2>2. d = refresh(ramp_done([c EXCEPT !.operational_target_voltage = target]))
    BY <1>7 DEF vc_channel_tick_ramp
  <2>3. c.ramping \in BOOLEAN /\ c.ramp_accum \in 0 .. UptimeMod - 1
    BY <1>1 DEF VcChannel
  <2>4. Reachable(c, target)
    <3> HIDE DEF target
    <3> QED BY <1>2, Int16Facts DEF Reachable, KeepsRange, Falls
  <2>5. ~ramp_blocked(c) /\ target \in Int16
    BY <1>2, <1>7
  <2> HIDE DEF target, d, ramped
  <2>6. d \in {refresh(ramp_done(ramped(c.ramping, c.ramp_accum, target))),
               refresh(ramped(c.ramping, c.ramp_accum, target))}
    BY <2>1, <2>2 DEF d
  <2>7. \E r \in BOOLEAN, a \in 0 .. UptimeMod - 1, x \in Int16 :
            /\ Reachable(c, x)
            /\ d \in {refresh(ramp_done(ramped(r, a, x))), refresh(ramped(r, a, x))}
    BY <2>3, <2>4, <2>5, <2>6
  <2> QED BY <1>7, <2>5, <2>7 DEF d, ramped, target
<1>8. CASE ~<1>5!1 /\ current # target /\ ~(step = 0 \/ interval = 0)
  <2>1. walked \in [current : Int16, accum : 0 .. accum]
    <3> HIDE DEF target, current, step, interval, accum
    <3>1. interval \in Nat \ {0} /\ accum \in Nat
      BY <1>3, <1>4, <1>8, Int16Facts
    <3> QED BY <1>2, <1>3, <3>1, RampWalkType
  <2>2. Reachable(c, walked.current)
    <3>1. /\ target \in 0 .. IntMax /\ MaxTarget \in Int /\ IntMax \in Int
          /\ current \in Int /\ walked.current \in Int /\ accum \in Nat
      <4>1. walked.current \in Int16
        <5> HIDE DEF walked, accum
        <5> QED BY <2>1
      <4>2. accum \in Nat
        <5> HIDE DEF accum
        <5> QED BY <1>4, Int16Facts
      <4>3. target \in 0 .. MaxTarget /\ current \in Int16
        BY <1>2
      <4> DEFINE w == walked.current
      <4>4. w \in Int16
        BY <4>1
      <4> HIDE DEF target, current, accum, w
      <4>5. target \in 0 .. IntMax /\ MaxTarget \in Int /\ IntMax \in Int
        BY <4>3, Int16Facts
      <4>6. current \in Int /\ w \in Int
        BY <4>3, <4>4, Int16Facts
      <4> QED BY <4>2, <4>5, <4>6 DEF w
    <3>2. interval \in Nat \ {0}
      BY <1>3, <1>8
    <3>3. /\ current < target => step = c.config.ramp_up_step
          /\ current > target => step = c.config.ramp_down_step
      <4> HIDE DEF target, current
      <4> QED BY <3>1
    <3>4. /\ c.config.ramp_up_step \in Int /\ c.config.ramp_down_step \in Int
      BY <1>1, Int16Facts DEF VcChannel, VcChannelConfig
    <3>5. /\ current < target => /\ walked.current <= target
                                 /\ walked.current >= current \/ step > IntMax - target
          /\ current > target => /\ walked.current >= target
                                 /\ walked.current <= current \/ step > IntMax
      <4> HIDE DEF target, current, step, interval, accum
      <4> QED BY <1>2, <1>3, <1>8, <3>1, <3>2, WalkStaysBetween
    <3> DEFINE x == walked.current
    <3>6. c.operational_target_voltage = current
      OBVIOUS
    <3> HIDE DEF target, current, step, interval, accum, walked
    <3>7. x \in Int
      BY <3>1
    <3>8. /\ current < target => /\ x <= target
                                 /\ x >= current \/ c.config.ramp_up_step > IntMax - target
          /\ current > target => /\ x >= target
                                 /\ x <= current \/ c.config.ramp_down_step > IntMax
      BY <3>3, <3>5
    <3> HIDE DEF x
    <3>9. target \in Int /\ 0 <= target /\ target <= MaxTarget /\ current # target
      BY <1>2, <1>8, <3>1
    <3>10. KeepsRange(c, x)
      BY <3>1, <3>4, <3>6, <3>7, <3>8, <3>9 DEF KeepsRange
    <3>11. ASSUME c.ramp_to_disable PROVE Falls(c, x)
      BY <1>2, <3>1, <3>4, <3>6, <3>7, <3>8, <3>9, <3>11 DEF Falls
    <3> QED BY <3>10, <3>11 DEF Reachable, x
  <2>3. walked.current \in Int16 /\ walked.accum \in 0 .. UptimeMod - 1
    <3> HIDE DEF walked, accum
    <3> QED BY <1>4, <2>1, Int16Facts
  <2>4. d \in {refresh(ramp_done(ramped(TRUE, walked.accum, walked.current))),
               refresh(ramped(TRUE, walked.accum, walked.current))}
    BY <1>8 DEF vc_channel_tick_ramp
  <2>5. ~ramp_blocked(c)
    BY <1>8
  <2> HIDE DEF walked, target, d, ramped
  <2>6. \E r \in BOOLEAN, a \in 0 .. UptimeMod - 1, x \in Int16 :
            /\ Reachable(c, x)
            /\ d \in {refresh(ramp_done(ramped(r, a, x))), refresh(ramped(r, a, x))}
    BY <2>2, <2>3, <2>4
  <2> QED BY <1>8, <2>5, <2>6 DEF d, ramped, target
<1> QED BY <1>5, <1>6, <1>7, <1>8

\* vc_channel_tick_ramp keeps a channel good: it moves the target only without a hard
\* fault, and refreshes the hardware whenever it does.
LEMMA TickRampKeeps ==
    ASSUME NEW c, Good(c), NEW dt \in Nat
    PROVE  Keeps(c, vc_channel_tick_ramp(c, dt))
<1> DEFINE d == vc_channel_tick_ramp(c, dt)
           ramped(r, a, x) == [c EXCEPT !.ramping = r, !.ramp_accum = a,
                                        !.operational_target_voltage = x]
<1>1. c \in VcChannel /\ Sound(c)
  BY DEF Good, Sound
<1>2. CASE d = c
  BY <1>2 DEF Keeps
<1>3. CASE d = IF c.ramp_to_disable THEN refresh(ramp_done(c)) ELSE ramp_done(c)
  BY <1>1, <1>3, RampDoneGood, RampDoneSound, Refresh DEF Keeps
<1>4. ASSUME ~ramp_blocked(c), c.operational_target_voltage # ramp_target(c),
             NEW r \in BOOLEAN, NEW a \in 0 .. UptimeMod - 1, NEW x \in Int16,
             Reachable(c, x),
             d \in {refresh(ramp_done(ramped(r, a, x))), refresh(ramped(r, a, x))}
      PROVE  Keeps(c, d)
  <2> DEFINE e == ramped(r, a, x)
  <2>1. ~has_hard_safety_fault(c)
    BY <1>1, <1>4 DEF ramp_blocked, has_hard_safety_fault, Sound, ramp_target
  <2>2. Sound(e) /\ e.cal_output_enabled = c.cal_output_enabled
    <3> HIDE DEF d
    <3> QED BY <1>1, <2>1, RetargetSound
  <2>3. d \in {refresh(ramp_done(e)), refresh(e)}
    BY <1>4
  <2> HIDE DEF d, e
  <2> QED BY <2>2, <2>3, RampDoneSound, Refresh DEF Keeps
<1> HIDE DEF d
<1> QED BY <1>1, <1>2, <1>3, <1>4, RampOutcome DEF d

\* The number of retries within the window is a number.
LEMMA CountType ==
    ASSUME NEW c, Sound(c)
    PROVE  count_active_retries(c) \in Nat
<1> DEFINE S == {k \in 1 .. Len(c.retry_ages) : c.retry_ages[k] <= c.config.auto_retry_window}
<1>1. Len(c.retry_ages) \in Nat
  BY DEF Sound, VcChannel
<1>2. IsFiniteSet(1 .. Len(c.retry_ages))
  BY <1>1, FS_Interval
<1>3. IsFiniteSet(S)
  BY <1>2, FS_Subset
<1> QED BY <1>3, FS_CardinalityType DEF count_active_retries

\* The history keeps at most MaxRetryHistory entries.
LEMMA RecordRetrySound ==
    ASSUME NEW c, Sound(c)
    PROVE  Sound(record_retry_attempt(c))
<1> DEFINE s == c.retry_ages
           t == IF Len(s) < MaxRetryHistory THEN s ELSE Tail(s)
           u == Append(t, 0)
           d == [c EXCEPT !.retry_ages = u]
<1>1. c \in VcChannel /\ s \in Seq(0 .. UptimeMod - 1) /\ Len(s) <= MaxRetryHistory
  BY DEF Sound, VcChannel
<1>2. MaxRetryHistory \in Nat \ {0} /\ 0 \in 0 .. UptimeMod - 1
  BY ChannelAssumption
<1>3. t \in Seq(0 .. UptimeMod - 1) /\ Len(t) < MaxRetryHistory
  <2> HIDE DEF s
  <2>1. CASE Len(s) < MaxRetryHistory
    BY <1>1, <2>1
  <2>2. CASE ~(Len(s) < MaxRetryHistory)
    BY <1>1, <1>2, <2>2
  <2> QED BY <2>1, <2>2
<1>4. u \in Seq(0 .. UptimeMod - 1) /\ Len(u) <= MaxRetryHistory
  <2> HIDE DEF t
  <2> QED BY <1>2, <1>3
<1>5. record_retry_attempt(c) = d
  BY DEF record_retry_attempt
<1> HIDE DEF u
<1>6. d \in VcChannel /\ d.retry_ages = u
  BY <1>1, <1>4 DEF VcChannel
<1> QED BY <1>1, <1>4, <1>5, <1>6 DEF Sound, VcChannel, has_hard_safety_fault

\* A retry that is not exhausted aims within the range, derated or not.
LEMMA RetryTargetType ==
    ASSUME NEW c, Sound(c),
           c.config.recovery_policy_mode = "AUTO_DERATE_RETRY" => retry_target(c) > 0
    PROVE  retry_target(c) \in 0 .. MaxTarget
<1> DEFINE n == count_active_retries(c)
           cfg == c.config
           p == (n + 1) * cfg.auto_derate_step
<1>1. /\ cfg.auto_derate_step \in Nat
      /\ cfg.configured_target_voltage \in 0 .. MaxTarget
  BY DEF Sound, VcChannel, VcChannelConfig
<1>2. n \in Nat
  BY CountType
<1>3. p \in Nat
  <2> HIDE DEF n, cfg
  <2>1. n + 1 \in Nat
    BY <1>2
  <2> QED BY <1>1, <2>1
<1>4. CASE cfg.recovery_policy_mode = "AUTO_DERATE_RETRY"
  <2>1. retry_target(c) = cfg.configured_target_voltage - p /\ retry_target(c) > 0
    BY <1>4 DEF retry_target
  <2> HIDE DEF p, cfg
  <2> QED BY <1>1, <1>3, <2>1, Int16Facts
<1>5. CASE cfg.recovery_policy_mode # "AUTO_DERATE_RETRY"
  BY <1>1, <1>5 DEF retry_target
<1> QED BY <1>4, <1>5

\* Starting a retry keeps the channel sound and refreshes the hardware.
LEMMA StartRetryKeeps ==
    ASSUME NEW c, Sound(c), retry_target(c) \in 0 .. MaxTarget
    PROVE  Keeps(c, start_retry(c))
<1> DEFINE r == record_retry_attempt(c)
           x == retry_target(c)
           d == [r EXCEPT !.active_fault_cause = {}, !.recovering = TRUE,
                          !.recovery_target = x, !.output_enabled = TRUE]
<1>1. Sound(r) /\ r.cal_output_enabled = c.cal_output_enabled
  BY RecordRetrySound DEF record_retry_attempt, Sound, VcChannel
<1>2. Sound(d) /\ d.cal_output_enabled = r.cal_output_enabled
  <2> HIDE DEF r, x
  <2>1. r \in VcChannel /\ x \in Int16 /\ x \in 0 .. MaxTarget
    BY <1>1, Int16Facts DEF Sound, x
  <2>2. d \in VcChannel
    BY <2>1 DEF VcChannel
  <2>3. ~has_hard_safety_fault(d)
    BY <2>1 DEF has_hard_safety_fault, VcChannel
  <2> QED BY <1>1, <2>1, <2>2, <2>3 DEF Sound, VcChannel
<1>3. start_retry(c) = refresh(d)
  BY DEF start_retry
<1> HIDE DEF d
<1> QED BY <1>1, <1>2, <1>3, Refresh DEF Keeps

\* The fields of the recovery alone do not reach the hardware: a channel that
\* cools down in any state but DISABLED_HV_ON stays good.
LEMMA CoolStateGood ==
    ASSUME NEW c, Good(c), NEW n \in Nat, NEW s \in SmfStates \ {"DISABLED_HV_ON"}
    PROVE  LET d == [c EXCEPT !.cooldown_remaining = n, !.smf = s]
           IN  Good(d) /\ d.cal_output_enabled = c.cal_output_enabled
<1> DEFINE d == [c EXCEPT !.cooldown_remaining = n, !.smf = s]
<1>1. c \in VcChannel /\ Sound(c) /\ Fresh(c)
  BY DEF Good, Sound
<1>2. Sound(d) /\ d.cal_output_enabled = c.cal_output_enabled /\ d.hw = c.hw
  BY <1>1 DEF Sound, VcChannel, has_hard_safety_fault
<1>3. /\ hw_command(d).code = hw_command(c).code
      /\ hw_command(d).enable => hw_command(c).enable
  BY <1>1 DEF hw_command, raw_drive_from_target, VcChannel
<1> QED BY <1>1, <1>2, <1>3 DEF Good, Fresh

\* Nor does the time left to cool down.
LEMMA CoolTimeGood ==
    ASSUME NEW c, Good(c), NEW n \in Nat
    PROVE  LET d == [c EXCEPT !.cooldown_remaining = n]
           IN  Good(d) /\ d.cal_output_enabled = c.cal_output_enabled
<1> DEFINE d == [c EXCEPT !.cooldown_remaining = n]
<1>1. c \in VcChannel /\ Sound(c) /\ Fresh(c)
  BY DEF Good, Sound
<1>2. Sound(d) /\ d.cal_output_enabled = c.cal_output_enabled /\ d.hw = c.hw
  BY <1>1 DEF Sound, VcChannel, has_hard_safety_fault
<1>3. hw_command(d) = hw_command(c)
  BY <1>1 DEF hw_command, raw_drive_from_target, VcChannel
<1> QED BY <1>1, <1>2, <1>3 DEF Good, Fresh

\* Nor does a new fault that is not a hard one.
LEMMA SoftFaultGood ==
    ASSUME NEW c, Good(c), NEW s \in SmfStates \ {"DISABLED_HV_ON"},
           NEW F \in SUBSET FaultCauses,
           F \cap {"HARDWARE", "INTERLOCK"} = c.active_fault_cause \cap {"HARDWARE", "INTERLOCK"}
    PROVE  LET d == [c EXCEPT !.active_fault_cause = F, !.smf = s]
           IN  Good(d) /\ d.cal_output_enabled = c.cal_output_enabled
<1> DEFINE d == [c EXCEPT !.active_fault_cause = F, !.smf = s]
<1>1. c \in VcChannel /\ Sound(c) /\ Fresh(c)
  BY DEF Good, Sound
<1>2. Sound(d) /\ d.cal_output_enabled = c.cal_output_enabled /\ d.hw = c.hw
  <2>1. d \in VcChannel /\ (has_hard_safety_fault(d) <=> has_hard_safety_fault(c))
    BY <1>1 DEF VcChannel, has_hard_safety_fault
  <2> QED BY <1>1, <2>1 DEF Sound, VcChannel
<1>3. /\ hw_command(d).code = hw_command(c).code
      /\ hw_command(d).enable => hw_command(c).enable
  BY <1>1 DEF hw_command, raw_drive_from_target, VcChannel
<1> QED BY <1>1, <1>2, <1>3 DEF Good, Fresh

\* Entering the cooldown keeps a channel good.
LEMMA EnterCooldownKeeps ==
    ASSUME NEW c, Good(c)
    PROVE  Keeps(c, enter_cooldown(c))
<1> DEFINE d == [c EXCEPT !.cooldown_remaining = c.config.auto_retry_delay,
                          !.smf = "RETRY_COOLDOWN"]
<1>1. /\ c.config.auto_retry_delay \in Nat
      /\ "RETRY_COOLDOWN" \in SmfStates \ {"DISABLED_HV_ON"}
  BY DEF Good, Sound, VcChannel, VcChannelConfig, SmfStates
<1>2. Good(d) /\ d.cal_output_enabled = c.cal_output_enabled
  BY <1>1, CoolStateGood
<1>3. enter_cooldown(c) \in {c, update_status_bits(d)}
  BY DEF enter_cooldown
<1> HIDE DEF d
<1> QED BY <1>2, <1>3, UpdateStatus DEF Good, Keeps

\* Giving up keeps a channel good.
LEMMA RetryExhaustedKeeps ==
    ASSUME NEW c, Good(c)
    PROVE  Keeps(c, retry_exhausted(c))
<1> DEFINE F == c.active_fault_cause \cup {"RETRY_EXHAUST"}
           d == [c EXCEPT !.active_fault_cause = F, !.smf = "FAULT_LATCHED"]
<1>1. F \in SUBSET FaultCauses
  BY DEF Good, Sound, VcChannel, FaultCauses
<1>2. F \cap {"HARDWARE", "INTERLOCK"} = c.active_fault_cause \cap {"HARDWARE", "INTERLOCK"}
  OBVIOUS
<1>3. Good(d) /\ d.cal_output_enabled = c.cal_output_enabled
  <2>1. "FAULT_LATCHED" \in SmfStates \ {"DISABLED_HV_ON"}
    BY DEF SmfStates
  <2> HIDE DEF F
  <2> QED BY <1>1, <1>2, <2>1, SoftFaultGood
<1>4. retry_exhausted(c) = update_status_bits(d)
  BY DEF retry_exhausted
<1> HIDE DEF d
<1> QED BY <1>3, <1>4, UpdateStatus DEF Good, Keeps

\* tick_recovery keeps a channel good.
LEMMA TickRecoveryKeeps ==
    ASSUME NEW c, Good(c), NEW dt \in Nat, NEW sys_mode
    PROVE  Keeps(c, tick_recovery(c, dt, sys_mode))
<1> DEFINE cooling == enter_cooldown(c)
           left    == cooling.cooldown_remaining
           cooler  == [cooling EXCEPT !.cooldown_remaining = left - dt]
           cooled  == [cooling EXCEPT !.cooldown_remaining = 0]
           spent   == \/ count_active_retries(cooled) >= cooled.config.auto_retry_max_count
                      \/ /\ cooled.config.recovery_policy_mode = "AUTO_DERATE_RETRY"
                         /\ retry_target(cooled) <= 0
<1>1. Good(cooling) /\ (cooling.cal_output_enabled => c.cal_output_enabled)
  BY EnterCooldownKeeps DEF Keeps
<1>2. left \in Nat /\ cooling.active_fault_cause \in SUBSET FaultCauses
  BY <1>1 DEF Good, Sound, VcChannel
<1>3. /\ left > dt => Good(cooler) /\ cooler.cal_output_enabled = cooling.cal_output_enabled
      /\ Good(cooled) /\ cooled.cal_output_enabled = cooling.cal_output_enabled
  <2> HIDE DEF cooling
  <2>1. \A n \in Nat : LET e == [cooling EXCEPT !.cooldown_remaining = n]
                       IN  Good(e) /\ e.cal_output_enabled = cooling.cal_output_enabled
    BY <1>1, CoolTimeGood
  <2>2. left > dt => left - dt \in Nat
    BY <1>2
  <2> QED BY <2>1, <2>2
<1>4. CASE ~retry_eligible(c, sys_mode)
  BY <1>4 DEF tick_recovery, Keeps
<1>5. CASE retry_eligible(c, sys_mode) /\ left > dt
  <2>1. tick_recovery(c, dt, sys_mode) = cooler
    BY <1>5 DEF tick_recovery
  <2> HIDE DEF cooler
  <2> QED BY <1>1, <1>3, <1>5, <2>1 DEF Keeps
<1>6. CASE retry_eligible(c, sys_mode) /\ ~(left > dt)
  <2>1. tick_recovery(c, dt, sys_mode)
          = IF ~is_safe_to_clear_active(cooled) THEN cooled
            ELSE IF spent THEN retry_exhausted(cooled) ELSE start_retry(cooled)
    BY <1>6 DEF tick_recovery
  <2>2. ~spent => Keeps(cooled, start_retry(cooled))
    <3> SUFFICES ASSUME ~spent PROVE Keeps(cooled, start_retry(cooled))
      OBVIOUS
    <3> HIDE DEF cooled
    <3>1. Sound(cooled)
      BY <1>3 DEF Good
    <3>2. cooled.config.recovery_policy_mode = "AUTO_DERATE_RETRY" => retry_target(cooled) > 0
      <4>1. /\ cooled.config.configured_target_voltage \in Int
            /\ cooled.config.auto_derate_step \in Nat
        BY <3>1, Int16Facts DEF Sound, VcChannel, VcChannelConfig
      <4>2. count_active_retries(cooled) \in Nat
        BY <3>1, CountType
      <4>3. (count_active_retries(cooled) + 1) * cooled.config.auto_derate_step \in Int
        BY <4>1, <4>2
      <4>4. retry_target(cooled) \in Int
        BY <4>1, <4>3 DEF retry_target
      <4> QED BY <4>4
    <3> QED BY <3>1, <3>2, RetryTargetType, StartRetryKeeps
  <2>3. Keeps(cooled, retry_exhausted(cooled))
    BY <1>3, RetryExhaustedKeeps
  <2> HIDE DEF cooled, spent
  <2> QED BY <1>1, <1>3, <2>1, <2>2, <2>3 DEF Keeps
<1> QED BY <1>4, <1>5, <1>6

\* The elements of a sequence over U are in U.
LEMMA AgeType ==
    ASSUME NEW U, NEW s \in Seq(U), NEW k \in DOMAIN s
    PROVE  s[k] \in U
<1>1. k \in 1 .. Len(s)
  OBVIOUS
<1> QED BY <1>1

\* The channel clock ages the retry history and nothing else.
LEMMA AgeGood ==
    ASSUME NEW c, Good(c), NEW dt \in Nat
    PROVE  LET d == [c EXCEPT !.retry_ages = [k \in DOMAIN @ |-> (@[k] + dt) % UptimeMod]]
           IN  Good(d) /\ d.cal_output_enabled = c.cal_output_enabled
<1> DEFINE s == c.retry_ages
           t == [k \in DOMAIN s |-> (s[k] + dt) % UptimeMod]
           d == [c EXCEPT !.retry_ages = t]
<1>1. c \in VcChannel /\ Sound(c) /\ Fresh(c) /\ s \in Seq(0 .. UptimeMod - 1)
  BY DEF Good, Sound, VcChannel
<1>2. \A k \in DOMAIN s : (s[k] + dt) % UptimeMod \in 0 .. UptimeMod - 1
  <2> SUFFICES ASSUME NEW k \in DOMAIN s PROVE (s[k] + dt) % UptimeMod \in 0 .. UptimeMod - 1
    OBVIOUS
  <2> HIDE DEF s
  <2>1. s[k] \in 0 .. UptimeMod - 1
    BY <1>1, AgeType
  <2>2. s[k] + dt \in Nat /\ UptimeMod \in Nat \ {0}
    BY <2>1, Int16Facts
  <2> QED BY <2>2
<1>3. t \in Seq(0 .. UptimeMod - 1) /\ Len(t) = Len(s)
  <2> HIDE DEF s
  <2>1. Len(s) \in Nat /\ DOMAIN s = 1 .. Len(s)
    BY <1>1
  <2>2. t \in [1 .. Len(s) -> 0 .. UptimeMod - 1]
    BY <1>2, <2>1
  <2> QED BY <2>1, <2>2
<1> HIDE DEF t
<1>4. d \in VcChannel /\ d.retry_ages = t
  BY <1>1, <1>3 DEF VcChannel
<1>5. Sound(d) /\ d.cal_output_enabled = c.cal_output_enabled /\ d.hw = c.hw
  BY <1>1, <1>3, <1>4 DEF Sound, VcChannel, has_hard_safety_fault
<1>6. hw_command(d) = hw_command(c)
  BY <1>1 DEF hw_command, raw_drive_from_target, VcChannel
<1> QED BY <1>1, <1>5, <1>6 DEF Good, Fresh, t

\* A whole tick of a channel.
LEMMA RunKeeps ==
    ASSUME NEW c, Good(c), NEW dt \in Nat, NEW v \in Int \cup {NoSample},
           NEW i \in Int \cup {NoSample}, NEW sys_mode
    PROVE  Keeps(c, vc_channel_run(c, dt, v, i, sys_mode))
<1> DEFINE aged == [c EXCEPT !.retry_ages = [k \in DOMAIN @ |-> (@[k] + dt) % UptimeMod]]
           volt == IF v = NoSample THEN aged ELSE vc_channel_consume_voltage(aged, v)
           amps == IF i = NoSample THEN volt ELSE vc_channel_consume_current(volt, i)
<1>1. Good(aged) /\ aged.cal_output_enabled = c.cal_output_enabled
  BY AgeGood
<1>2. Keeps(aged, volt) /\ Good(volt)
  <2> HIDE DEF aged
  <2> QED BY <1>1, ConsumeVoltageKeeps DEF Keeps
<1>3. Keeps(volt, amps) /\ Good(amps)
  <2> HIDE DEF volt
  <2> QED BY <1>2, ConsumeCurrentKeeps DEF Keeps
<1>4. vc_channel_run(c, dt, v, i, sys_mode)
        = tick_recovery(vc_channel_tick_ramp(amps, dt), dt, sys_mode)
  BY DEF vc_channel_run
<1> HIDE DEF amps, volt, aged
<1>5. Keeps(amps, vc_channel_tick_ramp(amps, dt)) /\ Good(vc_channel_tick_ramp(amps, dt))
  BY <1>3, TickRampKeeps DEF Keeps
<1>6. Keeps(vc_channel_tick_ramp(amps, dt), vc_channel_run(c, dt, v, i, sys_mode))
  BY <1>4, <1>5, TickRecoveryKeeps
<1> QED BY <1>1, <1>2, <1>3, <1>5, <1>6 DEF Keeps

(***************************************************************************)
(* Configuration and calibration                                           *)
(***************************************************************************)
\* A value that fits one configuration's field fits every configuration's.
LEMMA FieldFits ==
    ASSUME NEW a \in VcChannelConfig, NEW b \in VcChannelConfig,
           NEW f \in DOMAIN a, NEW x, [a EXCEPT ![f] = x] \in VcChannelConfig
    PROVE  [b EXCEPT ![f] = x] \in VcChannelConfig
<1>1. f \in {"configured_target_voltage", "configured_output_enabled", "ramp_up_step",
             "ramp_up_interval", "ramp_down_step", "ramp_down_interval",
             "recovery_policy_mode", "auto_retry_delay", "auto_retry_max_count",
             "auto_retry_window", "current_safe_band_pct", "current_protection_mode",
             "current_protection_output_action", "current_limit_threshold",
             "auto_derate_step"}
  BY DEF VcChannelConfig
<1> QED BY <1>1 DEF VcChannelConfig

\* A value that fits one calibration's field fits every calibration's.
LEMMA CalFieldFits ==
    ASSUME NEW a \in VcChannelCalConfig, NEW b \in VcChannelCalConfig,
           NEW f \in DOMAIN a, NEW x, [a EXCEPT ![f] = x] \in VcChannelCalConfig
    PROVE  [b EXCEPT ![f] = x] \in VcChannelCalConfig
<1>1. f \in {"output_calib_k", "output_calib_b", "output_calib_k_exp",
             "measured_voltage_calib_k", "measured_voltage_calib_b",
             "measured_voltage_calib_k_exp", "measured_current_calib_k",
             "measured_current_calib_b", "measured_current_calib_k_exp"}
  BY DEF VcChannelCalConfig
<1> QED BY <1>1 DEF VcChannelCalConfig

\* A configuration whose target is in range leaves a sound channel.
LEMMA ConfigSound ==
    ASSUME NEW c, Sound(c), NEW new \in VcChannelConfig,
           new.configured_target_voltage \in 0 .. MaxTarget
    PROVE  LET d == [c EXCEPT !.config = new]
           IN  Sound(d) /\ d.cal_output_enabled = c.cal_output_enabled
BY DEF Sound, VcChannel, has_hard_safety_fault

\* A calibration leaves a sound channel.
LEMMA CalConfigSound ==
    ASSUME NEW c, Sound(c), NEW new \in VcChannelCalConfig
    PROVE  LET d == [c EXCEPT !.cal_config = new]
           IN  Sound(d) /\ d.cal_output_enabled = c.cal_output_enabled
BY DEF Sound, VcChannel, has_hard_safety_fault

\* vc_channel_set_field keeps a channel good.
LEMMA SetFieldKeeps ==
    ASSUME NEW c, Good(c), NEW f \in DOMAIN DefaultConfig, NEW x,
           field_valid(f, x) => [DefaultConfig EXCEPT ![f] = x] \in VcChannelConfig
    PROVE  Keeps(c, vc_channel_set_field(c, f, x).ch)
<1> DEFINE new == [c.config EXCEPT ![f] = x]
           d == [c EXCEPT !.config = new]
<1>1. Sound(c) /\ c \in VcChannel /\ c.config \in VcChannelConfig
  BY DEF Good, Sound, VcChannel
<1>2. DefaultConfig \in VcChannelConfig
  BY ChannelAssumption
<1>3. vc_channel_set_field(c, f, x).ch \in
          IF field_valid(f, x) THEN {c, refresh(d)} ELSE {c}
  <2>1. [c EXCEPT !.config[f] = x] = d
    BY <1>1 DEF VcChannel
  <2> HIDE DEF d
  <2> QED BY <2>1 DEF vc_channel_set_field, Reply
<1>4. CASE field_valid(f, x)
  <2>1. new \in VcChannelConfig
    BY <1>1, <1>2, <1>4, FieldFits
  <2>2. new.configured_target_voltage \in 0 .. MaxTarget
    <3>1. CASE f = "configured_target_voltage"
      <4>1. x \in 0 .. MaxTarget
        BY <1>4, <3>1 DEF field_valid
      <4> QED BY <1>1, <3>1, <4>1 DEF VcChannelConfig
    <3>2. CASE f # "configured_target_voltage"
      BY <1>1, <3>2 DEF VcChannelConfig, Sound
    <3> QED BY <3>1, <3>2
  <2>3. Sound(d) /\ d.cal_output_enabled = c.cal_output_enabled
    <3> HIDE DEF new
    <3> QED BY <1>1, <2>1, <2>2, ConfigSound
  <2> HIDE DEF d
  <2> QED BY <1>3, <1>4, <2>3, Refresh DEF Keeps
<1>5. CASE ~field_valid(f, x)
  BY <1>3, <1>5 DEF Keeps
<1> QED BY <1>4, <1>5

\* vc_channel_set_config keeps a channel good.
LEMMA SetConfigKeeps ==
    ASSUME NEW c, Good(c), NEW new \in VcChannelConfig
    PROVE  Keeps(c, vc_channel_set_config(c, new).ch)
<1> DEFINE d == [c EXCEPT !.config = new]
<1>1. Sound(c)
  BY DEF Good
<1>2. CASE new.configured_target_voltage \in 0 .. MaxTarget
  <2>1. Sound(d) /\ d.cal_output_enabled = c.cal_output_enabled
    BY <1>1, <1>2, ConfigSound
  <2>2. vc_channel_set_config(c, new).ch \in {c, refresh(d)}
    BY DEF vc_channel_set_config, Reply
  <2> HIDE DEF d
  <2> QED BY <2>1, <2>2, Refresh DEF Keeps
<1>3. CASE new.configured_target_voltage \notin 0 .. MaxTarget
  <2>1. vc_channel_set_config(c, new).ch = c
    BY <1>3 DEF vc_channel_set_config, Reply
  <2> QED BY <2>1 DEF Keeps
<1> QED BY <1>2, <1>3

\* vc_channel_set_cal_field keeps a channel good: the drive follows the new gain.
LEMMA SetCalFieldKeeps ==
    ASSUME NEW c, Good(c), NEW f \in DOMAIN DefaultCal, NEW x,
           \/ f \in CalExpFields /\ x \notin CalExp
           \/ [DefaultCal EXCEPT ![f] = x] \in VcChannelCalConfig
    PROVE  Keeps(c, vc_channel_set_cal_field(c, f, x).ch)
<1> DEFINE new == [c.cal_config EXCEPT ![f] = x]
           d == [c EXCEPT !.cal_config = new]
<1>1. Sound(c) /\ c \in VcChannel /\ c.cal_config \in VcChannelCalConfig
  BY DEF Good, Sound, VcChannel
<1>2. DefaultCal \in VcChannelCalConfig
  BY ChannelAssumption
<1>3. CASE f \in CalExpFields /\ x \notin CalExp
  BY <1>3 DEF vc_channel_set_cal_field, Reply, Keeps
<1>4. CASE ~(f \in CalExpFields /\ x \notin CalExp)
  <2>1. new \in VcChannelCalConfig
    BY <1>1, <1>2, <1>4, CalFieldFits
  <2>2. Sound(d) /\ d.cal_output_enabled = c.cal_output_enabled
    <3> HIDE DEF new
    <3> QED BY <1>1, <2>1, CalConfigSound
  <2>3. vc_channel_set_cal_field(c, f, x).ch = apply_hw(d)
    <3>1. [c EXCEPT !.cal_config[f] = x] = d
      BY <1>1 DEF VcChannel
    <3> HIDE DEF d
    <3> QED BY <1>4, <3>1 DEF vc_channel_set_cal_field, Reply
  <2> HIDE DEF d
  <2> QED BY <2>2, <2>3, ApplyHw DEF Keeps
<1> QED BY <1>3, <1>4

\* vc_channel_load_cal keeps a channel good.
LEMMA LoadCalKeeps ==
    ASSUME NEW c, Good(c), NEW cal \in VcChannelCalConfig
    PROVE  Keeps(c, vc_channel_load_cal(c, cal))
<1> DEFINE d == [c EXCEPT !.cal_config = cal]
<1>1. Sound(d) /\ d.cal_output_enabled = c.cal_output_enabled
  BY CalConfigSound DEF Good
<1>2. vc_channel_load_cal(c, cal) = apply_hw(d)
  BY DEF vc_channel_load_cal
<1> HIDE DEF d
<1> QED BY <1>1, <1>2, ApplyHw DEF Keeps

\* Entering or leaving calibration switches the calibration output off.
LEMMA ResetCalibrationGood ==
    ASSUME NEW c, Good(c), NEW entering \in BOOLEAN
    PROVE  /\ Good(vc_channel_reset_calibration(c, entering))
           /\ ~vc_channel_reset_calibration(c, entering).cal_output_enabled
<1> DEFINE s == IF entering THEN "CALIBRATION_OUTPUT" ELSE "DISABLED_SAFE"
           d == [c EXCEPT !.output_enabled = FALSE, !.ramping = FALSE, !.ramp_accum = 0,
                          !.cooldown_remaining = 0, !.operational_target_voltage = 0,
                          !.measured_voltage = 0, !.measured_current = 0,
                          !.raw_dac_readback = 0, !.cal_output_enabled = FALSE, !.smf = s]
<1>1. Sound(c) /\ c \in VcChannel
  BY DEF Good, Sound
<1>2. s \in SmfStates
  BY DEF SmfStates
<1>3. d \in VcChannel /\ d.cal_output_enabled = FALSE
  <2> HIDE DEF s
  <2> QED BY <1>1, <1>2, Int16Facts DEF VcChannel
<1>4. Sound(d)
  <2> HIDE DEF s
  <2> QED BY <1>1, <1>3, Int16Facts DEF Sound, VcChannel, has_hard_safety_fault
<1>5. vc_channel_reset_calibration(c, entering) = refresh(d)
  BY DEF vc_channel_reset_calibration
<1> HIDE DEF d
<1> QED BY <1>3, <1>4, <1>5, Refresh

\* The only function that turns the calibration output on.
LEMMA CalOutputEnableGood ==
    ASSUME NEW c, Good(c), NEW enable \in BOOLEAN
    PROVE  /\ Good(vc_channel_cal_set_output_enable(c, enable).ch)
           /\ ~enable => Keeps(c, vc_channel_cal_set_output_enable(c, enable).ch)
<1> DEFINE on  == [c EXCEPT !.cal_output_enabled = TRUE]
           off == [c EXCEPT !.cal_output_enabled = FALSE, !.raw_dac_readback = 0]
<1>1. Sound(c) /\ c \in VcChannel
  BY DEF Good, Sound
<1>2. ~has_hard_safety_fault(c) => Sound(on)
  BY <1>1 DEF Sound, VcChannel, has_hard_safety_fault
<1>3. Sound(off) /\ ~off.cal_output_enabled
  BY <1>1, Int16Facts DEF Sound, VcChannel, has_hard_safety_fault
<1>4. vc_channel_cal_set_output_enable(c, enable).ch \in
          IF enable /\ ~has_hard_safety_fault(c) THEN {c, apply_hw(on)}
          ELSE IF enable THEN {c} ELSE {c, apply_hw(off)}
  BY DEF vc_channel_cal_set_output_enable, Reply
<1> HIDE DEF on, off
<1> QED BY <1>2, <1>3, <1>4, ApplyHw DEF Keeps

\* vc_channel_cal_set_raw_dac takes a code only with the calibration output on.
LEMMA CalRawDacKeeps ==
    ASSUME NEW c, Good(c), NEW code \in Nat
    PROVE  Keeps(c, vc_channel_cal_set_raw_dac(c, code).ch)
<1> DEFINE d == [c EXCEPT !.raw_dac_readback = code]
           allowed == /\ code <= MaxRawDac
                      /\ code # 0 => c.cal_output_enabled
<1>1. Sound(c) /\ c \in VcChannel
  BY DEF Good, Sound
<1>2. MaxRawDac \in Nat /\ MaxRawDac <= WordMax
  BY ChannelAssumption, IntMaxAssumption DEF Word, WordMax
<1>3. allowed => Sound(d) /\ d.cal_output_enabled = c.cal_output_enabled
  <2> SUFFICES ASSUME allowed PROVE Sound(d) /\ d.cal_output_enabled = c.cal_output_enabled
    OBVIOUS
  <2>1. code \in Word
    BY <1>2, IntMaxAssumption DEF Word, WordMax
  <2>2. d \in VcChannel
    BY <1>1, <2>1 DEF VcChannel
  <2> QED BY <1>1, <2>2 DEF Sound, VcChannel, has_hard_safety_fault
<1>4. vc_channel_cal_set_raw_dac(c, code).ch \in IF allowed THEN {c, apply_hw(d)} ELSE {c}
  BY <1>2 DEF vc_channel_cal_set_raw_dac, Reply
<1> HIDE DEF d, allowed
<1> QED BY <1>3, <1>4, ApplyHw DEF Keeps

\* A fresh channel is good.
LEMMA InitGood ==
    ASSUME NEW caps \in SUBSET Capabilities, NEW config \in VcChannelConfig,
           config.configured_target_voltage = 0
    PROVE  Good(vc_channel_init(caps, config)) /\ ~vc_channel_init(caps, config).cal_output_enabled
<1> DEFINE c == vc_channel_init(caps, config)
<1>1. DefaultCal \in VcChannelCalConfig
  BY ChannelAssumption
<1>2. << >> \in Seq(0 .. UptimeMod - 1) /\ Len(<< >>) = 0 /\ 0 <= MaxRetryHistory
  BY ChannelAssumption
<1>3. c \in VcChannel
  BY <1>1, <1>2, Int16Facts DEF vc_channel_init, VcChannel, SmfStates
<1>4. Sound(c)
  BY <1>1, <1>2, <1>3, Int16Facts DEF Sound, vc_channel_init, has_hard_safety_fault
<1>5. Fresh(c) /\ ~c.cal_output_enabled
  BY DEF Fresh, vc_channel_init, hw_command
<1> QED BY <1>4, <1>5 DEF Good

(***************************************************************************)
(* What a step of the controller may do to a channel                       *)
(***************************************************************************)
\* A step leaves a channel with the capabilities it has, and with a
\* configuration that every channel accepts which accepted the one before.
Configured(c, d) ==
    /\ d.capabilities = c.capabilities
    /\ \A b : /\ b.capabilities = c.capabilities
              /\ vc_channel_set_config(b, c.config).st = "OK"
              => vc_channel_set_config(b, d.config).st = "OK"

\* It leaves the target alone, or sets it to zero.
Holds(c, d) == d.operational_target_voltage \in {c.operational_target_voltage, 0}

\* A tick moves it as the ramp does.
Moves(c, d) ==
    /\ KeepsRange(c, d.operational_target_voltage)
    /\ c.active_fault_cause # {} /\ d.active_fault_cause # {} =>
           Falls(c, d.operational_target_voltage)

\* A channel that is built always on has nothing to ramp down, to calibrate or
\* to hold energised while it is off.
AlwaysOn(c) ==
    /\ {"OUTPUT_ENABLE", "RAW_OUTPUT_DRIVE"} \cap c.capabilities = {}
    /\ ~c.ramp_to_disable
    /\ ~c.cal_output_enabled
    /\ c.smf # "DISABLED_HV_ON"
    /\ c.hw.enable => c.output_enabled

Follows(c, d) ==
    /\ Configured(c, d)
    /\ Holds(c, d)
    /\ AlwaysOn(c) => AlwaysOn(d)

\* The same of a tick.
Ticks(c, d) ==
    /\ Configured(c, d)
    /\ Moves(c, d)
    /\ AlwaysOn(c) => AlwaysOn(d)

\* Such a channel goes dark only with a fault.
StaysLit(c, d) ==
    AlwaysOn(c) /\ c.output_enabled => d.output_enabled \/ d.active_fault_cause # {}

\* d differs from c in nothing these relations look at but the hardware.
SameControl(c, d) ==
    /\ d.capabilities = c.capabilities
    /\ d.config = c.config
    /\ d.output_enabled = c.output_enabled
    /\ d.ramp_to_disable = c.ramp_to_disable
    /\ d.smf = c.smf
    /\ d.operational_target_voltage = c.operational_target_voltage
    /\ d.active_fault_cause = c.active_fault_cause
    /\ d.cal_output_enabled = c.cal_output_enabled

\* apply_hw and update_status_bits change the hardware and the status bits.
LEMMA RefreshControl ==
    ASSUME NEW c \in VcChannel
    PROVE  /\ SameControl(c, apply_hw(c)) /\ apply_hw(c).hw = hw_command(c)
           /\ SameControl(c, update_status_bits(c)) /\ update_status_bits(c).hw = c.hw
           /\ SameControl(c, refresh(c)) /\ refresh(c).hw = hw_command(c)
BY DEF SameControl, apply_hw, update_status_bits, refresh, VcChannel

\* The hardware of a channel built always on is on only if its output is.
LEMMA AlwaysOnRefreshed ==
    ASSUME NEW c \in VcChannel,
           {"OUTPUT_ENABLE", "RAW_OUTPUT_DRIVE"} \cap c.capabilities = {},
           ~c.ramp_to_disable, ~c.cal_output_enabled, c.smf # "DISABLED_HV_ON"
    PROVE  AlwaysOn(apply_hw(c)) /\ AlwaysOn(refresh(c))
<1>1. hw_command(c).enable => c.output_enabled
  BY DEF hw_command, VcChannel
<1> QED BY <1>1, RefreshControl DEF AlwaysOn, SameControl

\* A change of anything else is a step.
LEMMA SameFollows ==
    ASSUME NEW c \in VcChannel, NEW d, SameControl(c, d), d.hw.enable => c.hw.enable
    PROVE  Follows(c, d) /\ StaysLit(c, d)
<1>1. c.operational_target_voltage \in Int
  BY Int16Facts DEF VcChannel
<1> QED BY <1>1 DEF SameControl, Follows, Configured, Holds, AlwaysOn, StaysLit

\* Steps that follow each other are a step.
LEMMA FollowsTwice ==
    ASSUME NEW c, NEW m, NEW d, Follows(c, m), Follows(m, d)
    PROVE  Follows(c, d)
<1>1. Holds(c, d)
  BY DEF Follows, Holds
<1>2. Configured(c, d)
  BY DEF Follows, Configured
<1> QED BY <1>1, <1>2 DEF Follows

\* A step that is no tick is one that a tick may take too.
LEMMA FollowsTicks ==
    ASSUME NEW c \in VcChannel, NEW d, Follows(c, d)
    PROVE  Ticks(c, d)
<1>1. /\ c.operational_target_voltage \in Int /\ MaxTarget \in Nat
      /\ d.operational_target_voltage \in {c.operational_target_voltage, 0}
  BY Int16Facts DEF VcChannel, Follows, Holds
<1>2. Moves(c, d)
  BY <1>1 DEF Moves, KeepsRange, Falls
<1> QED BY <1>2 DEF Follows, Ticks

\* x is c after the assignments of a handler, before it reaches the hardware.
Settles(c, x) ==
    /\ Configured(c, x)
    /\ Holds(c, x)
    /\ AlwaysOn(c) => ~x.ramp_to_disable /\ ~x.cal_output_enabled /\ x.smf # "DISABLED_HV_ON"

\* A handler that ends with apply_hw or a refresh takes a step.
LEMMA SettledFollows ==
    ASSUME NEW c, NEW x \in VcChannel, Settles(c, x), StaysLit(c, x)
    PROVE  /\ Follows(c, apply_hw(x)) /\ StaysLit(c, apply_hw(x))
           /\ Follows(c, refresh(x)) /\ StaysLit(c, refresh(x))
<1>1. SameControl(x, apply_hw(x)) /\ SameControl(x, refresh(x))
  BY RefreshControl
<1>2. AlwaysOn(c) => AlwaysOn(apply_hw(x)) /\ AlwaysOn(refresh(x))
  <2> SUFFICES ASSUME AlwaysOn(c) PROVE AlwaysOn(apply_hw(x)) /\ AlwaysOn(refresh(x))
    OBVIOUS
  <2>1. /\ {"OUTPUT_ENABLE", "RAW_OUTPUT_DRIVE"} \cap x.capabilities = {}
        /\ ~x.ramp_to_disable /\ ~x.cal_output_enabled /\ x.smf # "DISABLED_HV_ON"
    BY DEF Settles, Configured, AlwaysOn
  <2> QED BY <2>1, AlwaysOnRefreshed
<1> QED BY <1>1, <1>2 DEF Settles, SameControl, Follows, Configured, Holds, StaysLit

\* So does one that needs no refresh, since it leaves the output as it is.
LEMMA QuietFollows ==
    ASSUME NEW c, NEW x \in VcChannel, Settles(c, x), x.hw = c.hw,
           x.output_enabled = c.output_enabled
    PROVE  /\ Follows(c, x) /\ StaysLit(c, x)
           /\ Follows(c, update_status_bits(x)) /\ StaysLit(c, update_status_bits(x))
<1>1. SameControl(x, update_status_bits(x)) /\ update_status_bits(x).hw = x.hw
  BY RefreshControl
<1>2. AlwaysOn(c) => AlwaysOn(x) /\ AlwaysOn(update_status_bits(x))
  BY <1>1 DEF Settles, Configured, AlwaysOn, SameControl
<1> QED BY <1>1, <1>2 DEF Settles, SameControl, Follows, Configured, Holds, StaysLit

\* vc_channel_output_action: an enable needs a channel without a fault, a ramp
\* down the drive, a cut the capability to switch the output.
LEMMA OutputActionFollows ==
    ASSUME NEW c, Good(c), NEW action
    PROVE  LET d == vc_channel_output_action(c, action).ch
           IN  /\ Follows(c, d) /\ StaysLit(c, d)
               /\ d.active_fault_cause = c.active_fault_cause
<1> DEFINE a == IF /\ ~channel_has_cap(c, "RAW_OUTPUT_DRIVE")
                   /\ action \in {"DISABLE_GRACEFUL", "DISABLE_IMMEDIATE"}
                THEN "DISABLE_FORCE" ELSE action
           enabled  == [c EXCEPT !.output_enabled = TRUE, !.ramping = TRUE,
                                 !.ramp_to_disable = FALSE, !.smf = "RAMPING"]
           uncooled == [c EXCEPT !.cooldown_remaining = 0]
           ramped   == start_graceful(uncooled)
           d == vc_channel_output_action(c, action).ch
<1>2. c \in VcChannel /\ Sound(c) /\ c.operational_target_voltage \in Int
  BY Int16Facts DEF Good, Sound, VcChannel
<1>3. \/ d = c
      \/ c.active_fault_cause = {} /\ d = refresh(enabled)
      \/ channel_has_cap(c, "RAW_OUTPUT_DRIVE") /\ d = refresh(ramped)
      \/ /\ channel_has_cap(c, "OUTPUT_ENABLE")
         /\ \E s \in {"DISABLED_HV_ON", "DISABLED_SAFE"} : d = refresh(cut_output(c, s))
  <2> HIDE DEF enabled, uncooled
  <2> QED BY DEF vc_channel_output_action, output_action_supported, Reply, OutputActions,
                 ProtectionActions, ramped, uncooled, enabled
<1>4. CASE d = c
  BY <1>2, <1>4, SameFollows DEF SameControl
<1>5. CASE c.active_fault_cause = {} /\ d = refresh(enabled)
  <2>1. enabled \in VcChannel
    BY <1>2, EnableSound DEF Sound
  <2>2. Settles(c, enabled) /\ StaysLit(c, enabled) /\ enabled.active_fault_cause = {}
    BY <1>2, <1>5 DEF Settles, Configured, Holds, StaysLit, AlwaysOn, VcChannel
  <2> HIDE DEF enabled
  <2> QED BY <1>5, <2>1, <2>2, SettledFollows, RefreshControl DEF SameControl
<1>6. CASE channel_has_cap(c, "RAW_OUTPUT_DRIVE") /\ d = refresh(ramped)
  <2>1. ramped \in VcChannel
    BY <1>2, ClearCooldownSound, StartGraceful DEF Sound
  <2>2. /\ Settles(c, ramped) /\ StaysLit(c, ramped)
        /\ ramped.active_fault_cause = c.active_fault_cause
    BY <1>2, <1>6 DEF Settles, Configured, Holds, StaysLit, AlwaysOn, VcChannel,
                      start_graceful, channel_has_cap
  <2> HIDE DEF ramped
  <2> QED BY <1>6, <2>1, <2>2, SettledFollows, RefreshControl DEF SameControl
<1>7. CASE /\ channel_has_cap(c, "OUTPUT_ENABLE")
           /\ \E s \in {"DISABLED_HV_ON", "DISABLED_SAFE"} : d = refresh(cut_output(c, s))
  <2>1. PICK s \in {"DISABLED_HV_ON", "DISABLED_SAFE"} : d = refresh(cut_output(c, s))
    BY <1>7
  <2> DEFINE x == cut_output(c, s)
  <2>2. x \in VcChannel
    BY <1>2, CutOutput DEF Sound
  <2>3. /\ Settles(c, x) /\ StaysLit(c, x)
        /\ x.active_fault_cause = c.active_fault_cause
    BY <1>2, <1>7 DEF Settles, Configured, Holds, StaysLit, AlwaysOn, VcChannel,
                            cut_output, channel_has_cap
  <2> HIDE DEF x
  <2> QED BY <2>1, <2>2, <2>3, SettledFollows, RefreshControl DEF SameControl, x
<1> QED BY <1>3, <1>4, <1>5, <1>6, <1>7

\* tick_current_protection: a trip adds a fault, and switches a channel that
\* cannot ramp off at once.
LEMMA CurrentProtectionFollows ==
    ASSUME NEW c, Good(c)
    PROVE  LET d == tick_current_protection(c)
           IN  /\ Follows(c, d) /\ StaysLit(c, d)
               /\ c.active_fault_cause \subseteq d.active_fault_cause
               /\ d.config = c.config
<1> DEFINE seen    == [c EXCEPT !.fault_history_cause = @ \cup {"CURRENT"}]
           tripped == [seen EXCEPT !.active_fault_cause = @ \cup {"CURRENT"}]
           action  == IF channel_has_cap(tripped, "RAW_OUTPUT_DRIVE")
                      THEN c.config.current_protection_output_action ELSE "DISABLE_FORCE"
           x == CASE action = "DISABLE_GRACEFUL"  -> start_graceful(tripped)
                  [] action = "DISABLE_IMMEDIATE" -> cut_output(tripped, "DISABLED_HV_ON")
                  [] action = "DISABLE_FORCE"     -> cut_output(tripped, "DISABLED_SAFE")
                  [] OTHER                        -> tripped
           latched == [apply_hw(x) EXCEPT !.smf = "FAULT_LATCHED"]
           d == tick_current_protection(c)
<1>1. c \in VcChannel /\ Sound(c)
  BY DEF Good, Sound
<1>2. d \in {c, seen} \/ (c.active_fault_cause = {} /\ d = latched)
  BY DEF tick_current_protection, apply_protection_action
<1>3. CASE d \in {c, seen}
  <2>1. SameControl(c, d) /\ d.hw = c.hw
    BY <1>1, <1>3 DEF SameControl, VcChannel
  <2> HIDE DEF seen
  <2> QED BY <1>1, <2>1, SameFollows DEF SameControl
<1>4. CASE c.active_fault_cause = {} /\ d = latched
  <2>1. tripped \in VcChannel /\ Sound(tripped)
    BY <1>1, TripSound DEF Sound
  <2>2. /\ tripped.active_fault_cause = {"CURRENT"} /\ tripped.capabilities = c.capabilities
        /\ tripped.config = c.config /\ tripped.ramp_to_disable = c.ramp_to_disable
        /\ tripped.cal_output_enabled = c.cal_output_enabled /\ tripped.smf = c.smf
        /\ tripped.operational_target_voltage = c.operational_target_voltage
    BY <1>1, <1>4 DEF VcChannel
  <2> HIDE DEF tripped
  <2>3. x \in {start_graceful(tripped), cut_output(tripped, "DISABLED_HV_ON"),
               cut_output(tripped, "DISABLED_SAFE"), tripped}
    OBVIOUS
  <2>4. x \in VcChannel
    <3> HIDE DEF x
    <3> QED BY <2>1, <2>3, StartGraceful, CutOutput DEF Sound
  <2>5. /\ x.capabilities = c.capabilities /\ x.config = c.config
        /\ x.active_fault_cause = {"CURRENT"} /\ x.cal_output_enabled = c.cal_output_enabled
        /\ Holds(c, x)
    <3>1. \A y \in {start_graceful(tripped), cut_output(tripped, "DISABLED_HV_ON"),
                    cut_output(tripped, "DISABLED_SAFE"), tripped} :
              /\ y.capabilities = tripped.capabilities /\ y.config = tripped.config
              /\ y.active_fault_cause = tripped.active_fault_cause
              /\ y.cal_output_enabled = tripped.cal_output_enabled
              /\ Holds(tripped, y)
      <4> DEFINE Same(y) == /\ y.capabilities = tripped.capabilities
                            /\ y.config = tripped.config
                            /\ y.active_fault_cause = tripped.active_fault_cause
                            /\ y.cal_output_enabled = tripped.cal_output_enabled
                            /\ Holds(tripped, y)
      <4>1. Same(start_graceful(tripped))
        BY <2>1 DEF start_graceful, VcChannel, Holds
      <4>2. \A s : Same(cut_output(tripped, s))
        BY <2>1 DEF cut_output, VcChannel, Holds
      <4>3. Same(tripped)
        BY DEF Holds
      <4> HIDE DEF Same
      <4>4. \A y \in {start_graceful(tripped), cut_output(tripped, "DISABLED_HV_ON"),
                      cut_output(tripped, "DISABLED_SAFE"), tripped} : Same(y)
        BY <4>1, <4>2, <4>3
      <4> QED BY <4>4 DEF Same
    <3> HIDE DEF x
    <3> QED BY <2>2, <2>3, <3>1 DEF Holds
  <2>6. AlwaysOn(c) => ~x.ramp_to_disable /\ x.smf # "DISABLED_HV_ON"
    <3>1. AlwaysOn(c) => x = cut_output(tripped, "DISABLED_SAFE")
      BY <2>2 DEF AlwaysOn, channel_has_cap
    <3> HIDE DEF x
    <3> QED BY <2>1, <3>1 DEF cut_output, VcChannel
  <2> HIDE DEF x
  <2>7. Settles(c, x) /\ StaysLit(c, x)
    BY <1>4, <2>5, <2>6 DEF Settles, Configured, StaysLit, AlwaysOn
  <2>8. Follows(c, apply_hw(x)) /\ apply_hw(x) \in VcChannel /\ SameControl(x, apply_hw(x))
    <3>1. apply_hw(x) \in VcChannel
      BY <2>4, HwType DEF apply_hw, VcChannel
    <3> QED BY <2>4, <2>7, <3>1, SettledFollows, RefreshControl
  <2>9. /\ latched.active_fault_cause = {"CURRENT"} /\ latched.smf = "FAULT_LATCHED"
        /\ latched.capabilities = c.capabilities /\ latched.config = c.config
        /\ latched.ramp_to_disable = apply_hw(x).ramp_to_disable
        /\ latched.cal_output_enabled = apply_hw(x).cal_output_enabled
        /\ latched.operational_target_voltage = apply_hw(x).operational_target_voltage
        /\ latched.hw = apply_hw(x).hw /\ latched.output_enabled = apply_hw(x).output_enabled
    BY <2>5, <2>8 DEF SameControl, VcChannel
  <2> HIDE DEF latched
  <2> QED BY <1>4, <2>8, <2>9 DEF Follows, Configured, Holds, AlwaysOn, StaysLit
<1> QED BY <1>2, <1>3, <1>4

\* vc_channel_fault_command changes neither the target nor the output.
LEMMA FaultCommandFollows ==
    ASSUME NEW c, Good(c), NEW cmd
    PROVE  LET d == vc_channel_fault_command(c, cmd).ch
           IN  Follows(c, d) /\ StaysLit(c, d)
<1> DEFINE cleared == [c EXCEPT !.active_fault_cause = {}, !.smf = "DISABLED_SAFE"]
           forgot  == [c EXCEPT !.fault_history_cause = {}]
           d == vc_channel_fault_command(c, cmd).ch
<1>1. c \in VcChannel /\ c.operational_target_voltage \in Int
  BY Int16Facts DEF Good, Sound, VcChannel
<1>2. \/ d = c
      \/ \E x \in {c, cleared, forgot} : d = update_status_bits(x)
  BY DEF vc_channel_fault_command, Reply
<1>3. ASSUME NEW x \in {c, cleared, forgot}
      PROVE  /\ x \in VcChannel /\ Settles(c, x) /\ x.hw = c.hw
             /\ x.output_enabled = c.output_enabled
  <2>1. /\ x \in VcChannel /\ x.hw = c.hw /\ x.output_enabled = c.output_enabled
        /\ x.capabilities = c.capabilities /\ x.config = c.config
        /\ x.operational_target_voltage = c.operational_target_voltage
        /\ x.ramp_to_disable = c.ramp_to_disable
        /\ x.cal_output_enabled = c.cal_output_enabled
        /\ x.smf \in {c.smf, "DISABLED_SAFE"}
    <3>1. CASE x = c
      BY <1>1, <3>1
    <3>2. CASE x = cleared
      BY <1>1, <3>2 DEF VcChannel, SmfStates
    <3>3. CASE x = forgot
      BY <1>1, <3>3 DEF VcChannel
    <3> QED BY <3>1, <3>2, <3>3
  <2> HIDE DEF cleared, forgot
  <2> QED BY <1>1, <2>1 DEF Settles, Configured, Holds, AlwaysOn
<1>4. CASE d = c
  BY <1>3, <1>4, QuietFollows
<1>5. CASE \E x \in {c, cleared, forgot} : d = update_status_bits(x)
  <2>1. PICK x \in {c, cleared, forgot} : d = update_status_bits(x)
    BY <1>5
  <2> HIDE DEF cleared, forgot
  <2> QED BY <1>3, <2>1, QuietFollows
<1> QED BY <1>2, <1>4, <1>5

\* vc_channel_consume_fault leaves a dark channel with a fault.
LEMMA ConsumeFaultFollows ==
    ASSUME NEW c, Good(c), NEW cause \in FaultCauses
    PROVE  LET d == vc_channel_consume_fault(c, cause)
           IN  Follows(c, d) /\ StaysLit(c, d)
<1> DEFINE hit == [c EXCEPT !.active_fault_cause = @ \cup {cause},
                            !.fault_history_cause = @ \cup {cause}]
           safe == [hit EXCEPT !.output_enabled = FALSE, !.ramping = FALSE,
                               !.recovering = FALSE, !.cooldown_remaining = 0,
                               !.cal_output_enabled = FALSE, !.raw_dac_readback = 0,
                               !.operational_target_voltage = 0, !.smf = "DISABLED_SAFE"]
<1>1. c \in VcChannel
  BY DEF Good, Sound
<1>2. safe \in VcChannel
  <2>1. hit \in VcChannel
    BY <1>1 DEF VcChannel
  <2> QED BY <2>1, Int16Facts DEF VcChannel, SmfStates
<1>3. Settles(c, safe) /\ safe.active_fault_cause # {}
  BY <1>1 DEF Settles, Configured, Holds, AlwaysOn, VcChannel
<1>4. vc_channel_consume_fault(c, cause) = refresh(safe)
  BY DEF vc_channel_consume_fault, force_safe_state, refresh
<1> HIDE DEF safe
<1> QED BY <1>2, <1>3, <1>4, SettledFollows DEF StaysLit

\* vc_channel_consume_voltage changes nothing that steps look at.
LEMMA ConsumeVoltageFollows ==
    ASSUME NEW c, Good(c), NEW raw \in Int
    PROVE  LET d == vc_channel_consume_voltage(c, raw)
           IN  SameControl(c, d) /\ d.hw = c.hw
<1>1. PICK x \in Int16 : vc_channel_consume_voltage(c, raw)
                           = update_status_bits([c EXCEPT !.measured_voltage = x])
  BY SampleType
<1> DEFINE v == [c EXCEPT !.measured_voltage = x]
<1>2. c \in VcChannel /\ v \in VcChannel
  BY DEF Good, Sound, VcChannel
<1>3. SameControl(c, v) /\ v.hw = c.hw
  BY <1>2 DEF SameControl, VcChannel
<1> DEFINE d == vc_channel_consume_voltage(c, raw)
<1>4. d = update_status_bits(v)
  BY <1>1
<1> HIDE DEF v, d
<1>5. SameControl(v, d) /\ d.hw = v.hw
  BY <1>2, <1>4, RefreshControl
<1> QED BY <1>3, <1>5 DEF SameControl, d

\* vc_channel_consume_current may trip the channel.
LEMMA ConsumeCurrentFollows ==
    ASSUME NEW c, Good(c), NEW raw \in Int
    PROVE  LET d == vc_channel_consume_current(c, raw)
           IN  /\ Follows(c, d) /\ StaysLit(c, d)
               /\ c.active_fault_cause \subseteq d.active_fault_cause
               /\ d.config = c.config
<1>1. PICK x \in Int16 :
          vc_channel_consume_current(c, raw)
            = update_status_bits(tick_current_protection([c EXCEPT !.measured_current = x]))
  BY SampleType
<1> DEFINE m == [c EXCEPT !.measured_current = x]
           t == tick_current_protection(m)
           d == vc_channel_consume_current(c, raw)
<1>2. c \in VcChannel /\ m \in VcChannel /\ Good(m)
  BY MeasureGood DEF Good, Sound
<1>3. SameControl(c, m) /\ m.hw = c.hw
  BY <1>2 DEF SameControl, VcChannel
<1> HIDE DEF m
<1>4. /\ t \in VcChannel /\ Follows(m, t) /\ StaysLit(m, t)
      /\ m.active_fault_cause \subseteq t.active_fault_cause /\ t.config = m.config
  BY <1>2, CurrentProtectionFollows, CurrentProtectionKeeps DEF Keeps, Good, Sound
<1>5. d = update_status_bits(t)
  BY <1>1 DEF m
<1> HIDE DEF t, d
<1>6. SameControl(t, d) /\ d.hw = t.hw
  BY <1>4, <1>5, RefreshControl
<1> QED BY <1>3, <1>4, <1>6 DEF SameControl, Follows, Configured, Holds, AlwaysOn, StaysLit, d

\* ramp_done switches the output off at the end of a disable only.
LEMMA RampSettles ==
    ASSUME NEW c \in VcChannel
    PROVE  LET z == ramp_done(c)
           IN  /\ z \in VcChannel /\ z.hw = c.hw
               /\ Settles(c, z) /\ StaysLit(c, z)
               /\ z.active_fault_cause = c.active_fault_cause
               /\ ~c.ramp_to_disable => z.output_enabled = c.output_enabled
<1> DEFINE z == ramp_done(c)
<1>1. /\ z \in VcChannel /\ z.hw = c.hw
      /\ z.capabilities = c.capabilities /\ z.config = c.config
      /\ z.active_fault_cause = c.active_fault_cause
      /\ z.cal_output_enabled = c.cal_output_enabled
      /\ z.operational_target_voltage = c.operational_target_voltage
      /\ ~c.ramp_to_disable => /\ ~z.ramp_to_disable /\ z.output_enabled = c.output_enabled
                               /\ z.smf = "ENABLED_HOLDING"
  <2>1. CASE c.ramp_to_disable
    <3> DEFINE e == [c EXCEPT !.ramping = FALSE, !.ramp_to_disable = FALSE,
                              !.output_enabled = FALSE, !.smf = "DISABLED_SAFE"]
    <3>1. z = e
      BY <2>1 DEF ramp_done
    <3>2. e \in VcChannel
      BY DEF VcChannel, SmfStates
    <3>3. /\ e.hw = c.hw /\ e.capabilities = c.capabilities /\ e.config = c.config
          /\ e.active_fault_cause = c.active_fault_cause
          /\ e.cal_output_enabled = c.cal_output_enabled
          /\ e.operational_target_voltage = c.operational_target_voltage
      BY DEF VcChannel
    <3> HIDE DEF e, z
    <3> QED BY <2>1, <3>1, <3>2, <3>3
  <2>2. CASE ~c.ramp_to_disable
    <3> DEFINE e == [c EXCEPT !.ramping = FALSE, !.recovering = FALSE,
                              !.smf = "ENABLED_HOLDING"]
    <3>1. z = e
      BY <2>2 DEF ramp_done
    <3>2. e \in VcChannel
      BY DEF VcChannel, SmfStates
    <3>3. /\ e.hw = c.hw /\ e.capabilities = c.capabilities /\ e.config = c.config
          /\ e.active_fault_cause = c.active_fault_cause
          /\ e.cal_output_enabled = c.cal_output_enabled
          /\ e.operational_target_voltage = c.operational_target_voltage
          /\ e.output_enabled = c.output_enabled
          /\ e.ramp_to_disable = c.ramp_to_disable /\ e.smf = "ENABLED_HOLDING"
      BY DEF VcChannel
    <3> HIDE DEF e, z
    <3> QED BY <2>2, <3>1, <3>2, <3>3
  <2> QED BY <2>1, <2>2
<1> HIDE DEF z
<1> QED BY <1>1 DEF Settles, Configured, Holds, StaysLit, AlwaysOn, z

\* vc_channel_tick_ramp: a fault lets only the ramp of a disable go on.
LEMMA TickRampFollows ==
    ASSUME NEW c, Good(c), NEW dt \in Nat
    PROVE  LET d == vc_channel_tick_ramp(c, dt)
           IN  /\ Ticks(c, d) /\ StaysLit(c, d)
               /\ d.active_fault_cause = c.active_fault_cause
<1> DEFINE d == vc_channel_tick_ramp(c, dt)
           ramped(r, a, x) == [c EXCEPT !.ramping = r, !.ramp_accum = a,
                                        !.operational_target_voltage = x]
<1>1. /\ c \in VcChannel /\ Sound(c) /\ c.operational_target_voltage \in Int
      /\ MaxTarget \in Nat
  BY Int16Facts DEF Good, Sound, VcChannel
<1>2. ASSUME NEW y \in VcChannel, NEW z \in VcChannel, Settles(y, z), StaysLit(y, z),
             z.active_fault_cause = y.active_fault_cause, d = refresh(z)
      PROVE  Follows(y, d) /\ StaysLit(y, d) /\ d.active_fault_cause = y.active_fault_cause
  <2> HIDE DEF d
  <2> QED BY <1>2, SettledFollows, RefreshControl DEF SameControl
<1>3. CASE d = c
  <2> HIDE DEF d
  <2> QED BY <1>1, <1>3, SameFollows, FollowsTicks DEF SameControl, d
<1>4. CASE d = IF c.ramp_to_disable THEN refresh(ramp_done(c)) ELSE ramp_done(c)
  <2> DEFINE z == ramp_done(c)
  <2>1. /\ z \in VcChannel /\ z.hw = c.hw /\ Settles(c, z) /\ StaysLit(c, z)
        /\ z.active_fault_cause = c.active_fault_cause
        /\ ~c.ramp_to_disable => z.output_enabled = c.output_enabled
    BY <1>1, RampSettles
  <2>2. d = IF c.ramp_to_disable THEN refresh(z) ELSE z
    BY <1>4
  <2> HIDE DEF z, d
  <2>3. Follows(c, d) /\ StaysLit(c, d) /\ d.active_fault_cause = c.active_fault_cause
    <3>1. CASE c.ramp_to_disable
      BY <1>1, <1>2, <2>1, <2>2, <3>1 DEF d
    <3>2. CASE ~c.ramp_to_disable
      BY <2>1, <2>2, <3>2, QuietFollows
    <3> QED BY <3>1, <3>2
  <2> QED BY <1>1, <2>3, FollowsTicks DEF d
<1>5. ASSUME ~ramp_blocked(c), NEW r \in BOOLEAN, NEW a \in 0 .. UptimeMod - 1,
             NEW x \in Int16, Reachable(c, x),
             d \in {refresh(ramp_done(ramped(r, a, x))), refresh(ramped(r, a, x))}
      PROVE  Ticks(c, d) /\ StaysLit(c, d) /\ d.active_fault_cause = c.active_fault_cause
  <2> DEFINE y == ramped(r, a, x)
             z == ramp_done(y)
  <2>1. /\ y \in VcChannel /\ y.operational_target_voltage = x /\ y.hw = c.hw
        /\ SameControl(c, [y EXCEPT
               !.operational_target_voltage = c.operational_target_voltage])
    BY <1>1 DEF VcChannel, SameControl
  <2>2. /\ y.capabilities = c.capabilities /\ y.config = c.config
        /\ y.output_enabled = c.output_enabled /\ y.ramp_to_disable = c.ramp_to_disable
        /\ y.smf = c.smf /\ y.active_fault_cause = c.active_fault_cause
        /\ y.cal_output_enabled = c.cal_output_enabled
    BY <1>1 DEF VcChannel
  <2>3. d \in {refresh(z), refresh(y)}
    BY <1>5
  <2> HIDE DEF y
  <2>4. /\ Settles(y, y) /\ StaysLit(y, y)
        /\ z \in VcChannel /\ Settles(y, z) /\ StaysLit(y, z)
        /\ z.active_fault_cause = y.active_fault_cause
    <3>1. Settles(y, y) /\ StaysLit(y, y)
      BY DEF Settles, Configured, Holds, StaysLit, AlwaysOn
    <3> QED BY <2>1, <3>1, RampSettles
  <2> HIDE DEF d, z
  <2>5. Follows(y, d) /\ StaysLit(y, d) /\ d.active_fault_cause = y.active_fault_cause
    BY <1>2, <2>1, <2>3, <2>4 DEF d
  <2>6. d.operational_target_voltage \in {x, 0} /\ x \in Int
    BY <2>1, <2>5, Int16Facts DEF Follows, Holds
  <2>7. Moves(c, d)
    BY <1>1, <1>5, <2>6 DEF Moves, Reachable, KeepsRange, Falls, ramp_blocked
  <2>8. Configured(c, d)
    BY <2>2, <2>5 DEF Follows, Configured
  <2>9. AlwaysOn(c) => AlwaysOn(y)
    BY <2>1, <2>2 DEF AlwaysOn
  <2>10. Ticks(c, d)
    BY <2>5, <2>7, <2>8, <2>9 DEF Follows, Ticks
  <2>11. StaysLit(c, d)
    BY <2>2, <2>5, <2>9 DEF StaysLit
  <2> QED BY <2>2, <2>5, <2>10, <2>11
<1> HIDE DEF d
<1> QED BY <1>1, <1>3, <1>4, <1>5, RampOutcome DEF d

\* An output that is on or a fault remains.
RemainsLit(c, d) ==
    c.output_enabled \/ c.active_fault_cause # {} =>
        d.output_enabled \/ d.active_fault_cause # {}

\* The recovery of a fault waits, gives up or switches the output on again: d is c
\* but for the state, the status bits, the time to cool down and one fault more.
Recovers(c, d) ==
    /\ SameControl(c, [d EXCEPT !.smf = c.smf, !.active_fault_cause = c.active_fault_cause])
    /\ d.smf \in {c.smf, "RETRY_COOLDOWN", "FAULT_LATCHED"}
    /\ c.active_fault_cause \subseteq d.active_fault_cause
    /\ d.hw = c.hw

\* Such a change is a step.
LEMMA RecoverFollows ==
    ASSUME NEW c \in VcChannel, NEW d \in VcChannel, Recovers(c, d)
    PROVE  Follows(c, d) /\ RemainsLit(c, d)
<1>1. /\ d.capabilities = c.capabilities /\ d.config = c.config
      /\ d.output_enabled = c.output_enabled /\ d.ramp_to_disable = c.ramp_to_disable
      /\ d.operational_target_voltage = c.operational_target_voltage
      /\ d.cal_output_enabled = c.cal_output_enabled
      /\ c.operational_target_voltage \in Int
  BY Int16Facts DEF Recovers, SameControl, VcChannel
<1> QED BY <1>1 DEF Recovers, Follows, Configured, Holds, AlwaysOn, RemainsLit

\* enter_cooldown and the passing of the time to cool down.
LEMMA CooldownRecovers ==
    ASSUME NEW c, Good(c), NEW n \in Nat
    PROVE  LET d == [enter_cooldown(c) EXCEPT !.cooldown_remaining = n]
           IN  d \in VcChannel /\ Recovers(c, d)
<1> DEFINE a == [c EXCEPT !.cooldown_remaining = c.config.auto_retry_delay,
                          !.smf = "RETRY_COOLDOWN"]
           b == enter_cooldown(c)
           d == [b EXCEPT !.cooldown_remaining = n]
<1>1. c \in VcChannel
  BY DEF Good, Sound
<1>2. b \in VcChannel
  BY EnterCooldownKeeps DEF Keeps, Good, Sound
<1>3. Recovers(c, a) /\ a \in VcChannel
  BY <1>1 DEF Recovers, SameControl, VcChannel, VcChannelConfig, SmfStates
<1>4. b \in {c, update_status_bits(a)}
  BY DEF enter_cooldown
<1>5. Recovers(c, b)
  <2>1. Recovers(c, c)
    BY <1>1 DEF Recovers, SameControl, VcChannel
  <2>2. Recovers(c, update_status_bits(a))
    <3> HIDE DEF a
    <3> QED BY <1>1, <1>3 DEF Recovers, SameControl, update_status_bits, VcChannel
  <2> QED BY <1>4, <2>1, <2>2
<1> HIDE DEF b
<1>6. d \in VcChannel /\ Recovers(c, d)
  BY <1>1, <1>2, <1>5 DEF Recovers, SameControl, VcChannel
<1> QED BY <1>6 DEF b

\* tick_recovery: the target stays, and a channel that a retry does not switch on
\* keeps its fault.
LEMMA TickRecoveryFollows ==
    ASSUME NEW c, Good(c), NEW dt \in Nat, NEW sys_mode
    PROVE  LET d == tick_recovery(c, dt, sys_mode)
           IN  Follows(c, d) /\ RemainsLit(c, d)
<1> DEFINE cooling == enter_cooldown(c)
           left    == cooling.cooldown_remaining
           cooler  == [cooling EXCEPT !.cooldown_remaining = left - dt]
           cooled  == [cooling EXCEPT !.cooldown_remaining = 0]
           lost    == [cooled EXCEPT !.active_fault_cause = @ \cup {"RETRY_EXHAUST"},
                                     !.smf = "FAULT_LATCHED"]
           d       == tick_recovery(c, dt, sys_mode)
<1>1. c \in VcChannel /\ left \in Nat
  <2>1. cooling \in VcChannel /\ c \in VcChannel
    BY EnterCooldownKeeps DEF Keeps, Good, Sound
  <2> QED BY <2>1 DEF VcChannel
<1>2. \/ d = c
      \/ left > dt /\ d = cooler
      \/ d = cooled
      \/ d = update_status_bits(lost)
      \/ d = start_retry(cooled)
  BY DEF tick_recovery, retry_exhausted
<1>3. cooled \in VcChannel /\ Recovers(c, cooled)
  BY CooldownRecovers
<1>4. CASE d = c
  <2>1. Recovers(c, c)
    BY <1>1 DEF Recovers, SameControl, VcChannel
  <2> QED BY <1>1, <1>4, <2>1, RecoverFollows
<1>5. CASE left > dt /\ d = cooler
  <2> HIDE DEF left
  <2>1. left - dt \in Nat
    BY <1>1, <1>5
  <2>2. cooler \in VcChannel /\ Recovers(c, cooler)
    BY <2>1, CooldownRecovers
  <2> QED BY <1>1, <1>5, <2>2, RecoverFollows
<1>6. CASE d = cooled
  BY <1>1, <1>3, <1>6, RecoverFollows
<1> HIDE DEF cooled
<1>7. CASE d = update_status_bits(lost)
  <2>1. lost \in VcChannel /\ Recovers(c, lost)
    BY <1>1, <1>3 DEF Recovers, SameControl, VcChannel, FaultCauses, SmfStates
  <2> HIDE DEF lost
  <2>2. update_status_bits(lost) \in VcChannel /\ Recovers(c, update_status_bits(lost))
    BY <1>1, <2>1 DEF Recovers, SameControl, VcChannel, update_status_bits, status_of
  <2> QED BY <1>1, <1>7, <2>2, RecoverFollows
<1>8. CASE d = start_retry(cooled)
  <2> DEFINE r == record_retry_attempt(cooled)
             x == [r EXCEPT !.active_fault_cause = {}, !.recovering = TRUE,
                            !.recovery_target = retry_target(cooled), !.output_enabled = TRUE]
             h == hw_command(x)
             t == status_of(apply_hw(x))
             y == [[x EXCEPT !.hw = h] EXCEPT !.status_bits = t]
  <2>1. d = y
    BY <1>8 DEF start_retry, refresh, apply_hw, update_status_bits
  <2>2. /\ cooled.capabilities = c.capabilities /\ cooled.config = c.config
        /\ cooled.ramp_to_disable = c.ramp_to_disable
        /\ cooled.cal_output_enabled = c.cal_output_enabled
        /\ cooled.smf \in {c.smf, "RETRY_COOLDOWN", "FAULT_LATCHED"}
        /\ cooled.operational_target_voltage = c.operational_target_voltage
    BY <1>1, <1>3 DEF Recovers, SameControl, VcChannel
  <2> HIDE DEF h, t
  <2>3. /\ y.capabilities = cooled.capabilities /\ y.config = cooled.config
        /\ y.ramp_to_disable = cooled.ramp_to_disable
        /\ y.cal_output_enabled = cooled.cal_output_enabled
        /\ y.active_fault_cause = {} /\ y.output_enabled /\ y.smf = cooled.smf
        /\ y.operational_target_voltage = cooled.operational_target_voltage
    BY <1>3 DEF record_retry_attempt, VcChannel
  <2> HIDE DEF y, d
  <2> QED BY <2>1, <2>2, <2>3
        DEF Follows, Configured, Holds, AlwaysOn, RemainsLit, d
<1> QED BY <1>2, <1>4, <1>5, <1>6, <1>7, <1>8

\* A whole tick of a channel.
LEMMA RunFollows ==
    ASSUME NEW c, Good(c), NEW dt \in Nat, NEW v \in Int \cup {NoSample},
           NEW i \in Int \cup {NoSample}, NEW sys_mode
    PROVE  LET d == vc_channel_run(c, dt, v, i, sys_mode)
           IN  Ticks(c, d) /\ StaysLit(c, d)
<1> DEFINE aged == [c EXCEPT !.retry_ages = [k \in DOMAIN @ |-> (@[k] + dt) % UptimeMod]]
           volt == IF v = NoSample THEN aged ELSE vc_channel_consume_voltage(aged, v)
           amps == IF i = NoSample THEN volt ELSE vc_channel_consume_current(volt, i)
           ramp == vc_channel_tick_ramp(amps, dt)
           d    == vc_channel_run(c, dt, v, i, sys_mode)
<1>1. c \in VcChannel /\ Good(aged)
  BY AgeGood DEF Good, Sound
<1>2. SameControl(c, aged) /\ aged.hw = c.hw
  BY <1>1 DEF SameControl, VcChannel
<1> HIDE DEF aged
<1>3. Good(volt) /\ SameControl(c, volt) /\ volt.hw = c.hw
  <2>1. v # NoSample => /\ Good(volt) /\ SameControl(aged, volt) /\ volt.hw = aged.hw
    BY <1>1, ConsumeVoltageKeeps, ConsumeVoltageFollows DEF Keeps
  <2> HIDE DEF volt
  <2>2. v = NoSample => volt = aged
    BY DEF volt
  <2> QED BY <1>1, <1>2, <2>1, <2>2 DEF SameControl
<1> HIDE DEF volt
<1>4. Good(amps) /\ Follows(volt, amps) /\ StaysLit(volt, amps)
      /\ volt.active_fault_cause \subseteq amps.active_fault_cause
      /\ amps.config = volt.config
  <2>1. CASE i = NoSample
    <3>1. volt \in VcChannel /\ SameControl(volt, volt)
      BY <1>3 DEF Good, Sound, SameControl
    <3> QED BY <1>3, <2>1, <3>1, SameFollows
  <2>2. CASE i # NoSample
    BY <1>3, <2>2, ConsumeCurrentKeeps, ConsumeCurrentFollows DEF Keeps
  <2> QED BY <2>1, <2>2
<1>5. d = tick_recovery(ramp, dt, sys_mode)
  BY DEF vc_channel_run, amps, volt, aged
<1> HIDE DEF amps
<1>6. Good(ramp) /\ Ticks(amps, ramp) /\ StaysLit(amps, ramp)
      /\ ramp.active_fault_cause = amps.active_fault_cause
  BY <1>4, TickRampKeeps, TickRampFollows DEF Keeps
<1> HIDE DEF ramp, d
<1>7. Good(d) /\ Follows(ramp, d) /\ RemainsLit(ramp, d)
  BY <1>5, <1>6, TickRecoveryKeeps, TickRecoveryFollows DEF Keeps
<1>8. {volt, amps, ramp, d} \subseteq VcChannel
  BY <1>3, <1>4, <1>6, <1>7 DEF Good, Sound
<1>9. Follows(c, volt)
  BY <1>1, <1>3, SameFollows
<1>10. /\ Follows(c, amps) /\ c.active_fault_cause \subseteq amps.active_fault_cause
       /\ amps.config = c.config
  BY <1>1, <1>3, <1>4, <1>9, FollowsTwice DEF SameControl
<1>11. Configured(c, d)
  BY <1>6, <1>7, <1>10 DEF Follows, Ticks, Configured
<1>12. Ticks(c, d)
  <2>1. /\ {c.operational_target_voltage, amps.operational_target_voltage,
            ramp.operational_target_voltage} \subseteq Int
        /\ MaxTarget \in Nat
    <3>1. \A e \in VcChannel : e.operational_target_voltage \in Int
      BY Int16Facts DEF VcChannel
    <3> QED BY <1>1, <1>8, <3>1, Int16Facts
  <2>2. /\ amps.operational_target_voltage \in {c.operational_target_voltage, 0}
        /\ d.operational_target_voltage \in {ramp.operational_target_voltage, 0}
    BY <1>7, <1>10 DEF Follows, Holds
  <2>3. Moves(amps, ramp)
    BY <1>6 DEF Ticks
  <2>4. Moves(c, d)
    BY <1>6, <1>10, <2>1, <2>2, <2>3 DEF Moves, KeepsRange, Falls
  <2>5. AlwaysOn(c) => AlwaysOn(d)
    BY <1>6, <1>7, <1>10 DEF Follows, Ticks
  <2> QED BY <1>11, <2>4, <2>5 DEF Ticks
<1>13. StaysLit(c, d)
  <2> SUFFICES ASSUME AlwaysOn(c), c.output_enabled
               PROVE  d.output_enabled \/ d.active_fault_cause # {}
    BY DEF StaysLit
  <2>1. AlwaysOn(volt) /\ volt.output_enabled
    BY <1>3, <1>9 DEF SameControl, Follows
  <2>2. AlwaysOn(amps) /\ (amps.output_enabled \/ amps.active_fault_cause # {})
    BY <1>4, <1>10, <2>1 DEF StaysLit, Follows
  <2>3. ramp.output_enabled \/ ramp.active_fault_cause # {}
    BY <1>6, <2>2 DEF StaysLit
  <2> QED BY <1>7, <2>3 DEF RemainsLit
<1> QED BY <1>12, <1>13 DEF d

\* A configuration that a channel with capabilities caps and configuration own
\* accepts: vc_channel_set_config.
Accepted(caps, own, new) ==
    /\ "RAW_OUTPUT_DRIVE" \in caps =>
           new.configured_output_enabled = own.configured_output_enabled
    /\ "RAW_OUTPUT_DRIVE" \notin caps =>
           /\ new.configured_target_voltage = 0
           /\ new.ramp_up_step = own.ramp_up_step
           /\ new.ramp_up_interval = own.ramp_up_interval
           /\ new.ramp_down_step = own.ramp_down_step
           /\ new.ramp_down_interval = own.ramp_down_interval
    /\ "OUTPUT_ENABLE" \notin caps =>
           new.configured_output_enabled = own.configured_output_enabled
    /\ "CURRENT_MEASUREMENT" \notin caps =>
           /\ new.current_protection_mode = "DISABLED"
           /\ new.current_protection_output_action = own.current_protection_output_action
           /\ new.current_limit_threshold = own.current_limit_threshold
    /\ ~({"RAW_OUTPUT_DRIVE", "VOLTAGE_MEASUREMENT"} \subseteq caps) =>
           new.auto_derate_step = own.auto_derate_step
    /\ new.configured_target_voltage \in 0 .. MaxTarget
    /\ ~(new.current_limit_threshold < 0)
    /\ new.current_protection_mode \in ProtectionModes
    /\ new.current_protection_output_action \in ProtectionActions

\* The conditions of vc_channel_set_config, field by field.
LEMMA SetConfigAccepts ==
    ASSUME NEW b, NEW new
    PROVE  vc_channel_set_config(b, new).st = "OK" <=> Accepted(b.capabilities, b.config, new)
<1>1. validate_capability_config(b, new) <=>
          /\ "RAW_OUTPUT_DRIVE" \in b.capabilities =>
                 new.configured_output_enabled = b.config.configured_output_enabled
          /\ "RAW_OUTPUT_DRIVE" \notin b.capabilities =>
                 /\ new.configured_target_voltage = 0
                 /\ new.ramp_up_step = b.config.ramp_up_step
                 /\ new.ramp_up_interval = b.config.ramp_up_interval
                 /\ new.ramp_down_step = b.config.ramp_down_step
                 /\ new.ramp_down_interval = b.config.ramp_down_interval
          /\ "OUTPUT_ENABLE" \notin b.capabilities =>
                 new.configured_output_enabled = b.config.configured_output_enabled
          /\ "CURRENT_MEASUREMENT" \notin b.capabilities =>
                 /\ new.current_protection_mode = "DISABLED"
                 /\ new.current_protection_output_action
                      = b.config.current_protection_output_action
                 /\ new.current_limit_threshold = b.config.current_limit_threshold
          /\ ~({"RAW_OUTPUT_DRIVE", "VOLTAGE_MEASUREMENT"} \subseteq b.capabilities) =>
                 new.auto_derate_step = b.config.auto_derate_step
  BY DEF validate_capability_config, channel_has_cap, DriveFields, CurrentFields
<1> QED BY <1>1 DEF vc_channel_set_config, Accepted, Reply

\* What vc_channel_set_field may write of one field keeps a configuration acceptable.
LEMMA FieldAccepted ==
    ASSUME NEW c \in VcChannel, NEW f \in DOMAIN DefaultConfig, NEW x,
           field_supported(c, f), field_valid(f, x),
           [c.config EXCEPT ![f] = x] \in VcChannelConfig,
           NEW own, Accepted(c.capabilities, own, c.config)
    PROVE  Accepted(c.capabilities, own, [c.config EXCEPT ![f] = x])
<1> DEFINE new == [c.config EXCEPT ![f] = x]
           Names == {"configured_target_voltage", "configured_output_enabled", "ramp_up_step",
                     "ramp_up_interval", "ramp_down_step", "ramp_down_interval",
                     "recovery_policy_mode", "auto_retry_delay", "auto_retry_max_count",
                     "auto_retry_window", "current_safe_band_pct", "current_protection_mode",
                     "current_protection_output_action", "current_limit_threshold",
                     "auto_derate_step"}
<1>1. f \in Names
  BY ChannelAssumption DEF VcChannelConfig
<1>2. \A g \in Names : new[g] = IF g = f THEN x ELSE c.config[g]
  BY <1>1 DEF VcChannel, VcChannelConfig
<1>3. c.config.current_limit_threshold \in Int
  BY DEF VcChannel, VcChannelConfig
<1> HIDE DEF new
<1>4. /\ "RAW_OUTPUT_DRIVE" \notin c.capabilities => f \notin DriveFields
      /\ f = "configured_output_enabled" => /\ "RAW_OUTPUT_DRIVE" \notin c.capabilities
                                            /\ "OUTPUT_ENABLE" \in c.capabilities
      /\ "CURRENT_MEASUREMENT" \notin c.capabilities => f \notin CurrentFields
      /\ ~({"RAW_OUTPUT_DRIVE", "VOLTAGE_MEASUREMENT"} \subseteq c.capabilities) =>
             f # "auto_derate_step"
  BY DEF field_supported, channel_has_cap
<1>5. /\ new.configured_target_voltage \in 0 .. MaxTarget
      /\ new.current_protection_mode \in ProtectionModes
      /\ new.current_protection_output_action \in ProtectionActions
  BY <1>2 DEF field_valid, Accepted
<1>6. ~(new.current_limit_threshold < 0)
  <2>1. CASE f = "current_limit_threshold"
    <3>1. new.current_limit_threshold \in Int
      BY DEF VcChannelConfig, new
    <3> QED BY <1>2, <2>1, <3>1 DEF field_valid
  <2>2. CASE f # "current_limit_threshold"
    BY <1>2, <2>2 DEF Accepted
  <2> QED BY <2>1, <2>2
<1> QED BY <1>2, <1>4, <1>5, <1>6 DEF Accepted, DriveFields, CurrentFields, new

\* A write of a configuration that keeps what was acceptable acceptable.
LEMMA ConfigWriteFollows ==
    ASSUME NEW c, Good(c), NEW new \in VcChannelConfig,
           \A own : Accepted(c.capabilities, own, c.config) =>
                        Accepted(c.capabilities, own, new)
    PROVE  LET d == refresh([c EXCEPT !.config = new])
           IN  /\ Follows(c, d) /\ StaysLit(c, d)
               /\ d.active_fault_cause = c.active_fault_cause
<1> DEFINE x == [c EXCEPT !.config = new]
<1>1. c \in VcChannel /\ c.operational_target_voltage \in Int
  BY Int16Facts DEF Good, Sound, VcChannel
<1>2. /\ x \in VcChannel /\ x.config = new /\ x.capabilities = c.capabilities
      /\ x.output_enabled = c.output_enabled /\ x.ramp_to_disable = c.ramp_to_disable
      /\ x.smf = c.smf /\ x.cal_output_enabled = c.cal_output_enabled
      /\ x.operational_target_voltage = c.operational_target_voltage
      /\ x.active_fault_cause = c.active_fault_cause
  BY <1>1 DEF VcChannel
<1> HIDE DEF x
<1>3. Configured(c, x)
  BY <1>2, SetConfigAccepts DEF Configured
<1>4. Settles(c, x) /\ StaysLit(c, x)
  BY <1>1, <1>2, <1>3 DEF Settles, Holds, AlwaysOn, StaysLit
<1> QED BY <1>2, <1>4, SettledFollows, RefreshControl DEF SameControl, x

\* vc_channel_set_field writes a field that the channel supports.
LEMMA SetFieldFollows ==
    ASSUME NEW c, Good(c), NEW f \in DOMAIN DefaultConfig, NEW x,
           field_valid(f, x) => [DefaultConfig EXCEPT ![f] = x] \in VcChannelConfig
    PROVE  LET d == vc_channel_set_field(c, f, x).ch
           IN  /\ Follows(c, d) /\ StaysLit(c, d)
               /\ d.active_fault_cause = c.active_fault_cause
<1> DEFINE new == [c.config EXCEPT ![f] = x]
           d == vc_channel_set_field(c, f, x).ch
<1>1. c \in VcChannel /\ c.config \in VcChannelConfig /\ DefaultConfig \in VcChannelConfig
  BY ChannelAssumption DEF Good, Sound, VcChannel
<1>2. CASE field_supported(c, f) /\ field_valid(f, x)
  <2>1. new \in VcChannelConfig
    BY <1>1, <1>2, FieldFits
  <2>2. \A own : Accepted(c.capabilities, own, c.config) => Accepted(c.capabilities, own, new)
    BY <1>1, <1>2, <2>1, FieldAccepted
  <2>3. d = refresh([c EXCEPT !.config = new])
    <3>1. [c EXCEPT !.config[f] = x] = [c EXCEPT !.config = new]
      BY <1>1 DEF VcChannel
    <3> HIDE DEF new
    <3> QED BY <1>2, <3>1 DEF vc_channel_set_field, Reply
  <2> HIDE DEF new, d
  <2> QED BY <2>1, <2>2, <2>3, ConfigWriteFollows DEF d
<1>3. CASE ~(field_supported(c, f) /\ field_valid(f, x))
  <2>1. d = c
    BY <1>3 DEF vc_channel_set_field, Reply
  <2> HIDE DEF d
  <2> QED BY <1>1, <2>1, SameFollows DEF SameControl, d
<1> QED BY <1>2, <1>3

\* What a channel accepts as a whole is acceptable wherever its own configuration is.
LEMMA SetConfigFollows ==
    ASSUME NEW c, Good(c), NEW new \in VcChannelConfig
    PROVE  LET d == vc_channel_set_config(c, new).ch
           IN  /\ Follows(c, d) /\ StaysLit(c, d)
               /\ d.active_fault_cause = c.active_fault_cause
<1> DEFINE d == vc_channel_set_config(c, new).ch
<1>1. c \in VcChannel
  BY DEF Good, Sound
<1>2. CASE vc_channel_set_config(c, new).st = "OK"
  <2>1. Accepted(c.capabilities, c.config, new)
    BY <1>2, SetConfigAccepts
  <2>2. \A own : Accepted(c.capabilities, own, c.config) => Accepted(c.capabilities, own, new)
    BY <2>1 DEF Accepted
  <2>3. d = refresh([c EXCEPT !.config = new])
    BY <1>2 DEF vc_channel_set_config, Reply
  <2> HIDE DEF d
  <2> QED BY <2>2, <2>3, ConfigWriteFollows DEF d
<1>3. CASE vc_channel_set_config(c, new).st # "OK"
  <2>1. d = c
    BY <1>3 DEF vc_channel_set_config, Reply
  <2> HIDE DEF d
  <2> QED BY <1>1, <2>1, SameFollows DEF SameControl, d
<1> QED BY <1>2, <1>3

\* A write of the calibration changes the drive code only.
LEMMA CalWriteFollows ==
    ASSUME NEW c, Good(c), NEW new \in VcChannelCalConfig
    PROVE  LET d == apply_hw([c EXCEPT !.cal_config = new])
           IN  /\ Follows(c, d) /\ StaysLit(c, d)
               /\ d.active_fault_cause = c.active_fault_cause
<1> DEFINE x == [c EXCEPT !.cal_config = new]
<1>1. c \in VcChannel /\ c.operational_target_voltage \in Int
  BY Int16Facts DEF Good, Sound, VcChannel
<1>2. x \in VcChannel /\ SameControl(c, x)
  BY <1>1 DEF VcChannel, SameControl
<1> HIDE DEF x
<1>3. Settles(c, x) /\ StaysLit(c, x)
  BY <1>1, <1>2 DEF SameControl, Settles, Configured, Holds, AlwaysOn, StaysLit
<1> QED BY <1>2, <1>3, SettledFollows, RefreshControl DEF SameControl, x

\* vc_channel_set_cal_field and vc_channel_load_cal.
LEMMA SetCalFieldFollows ==
    ASSUME NEW c, Good(c), NEW f \in DOMAIN DefaultCal, NEW x,
           \/ f \in CalExpFields /\ x \notin CalExp
           \/ [DefaultCal EXCEPT ![f] = x] \in VcChannelCalConfig
    PROVE  LET d == vc_channel_set_cal_field(c, f, x).ch
           IN  /\ Follows(c, d) /\ StaysLit(c, d)
               /\ d.active_fault_cause = c.active_fault_cause
<1> DEFINE new == [c.cal_config EXCEPT ![f] = x]
           d == vc_channel_set_cal_field(c, f, x).ch
<1>1. c \in VcChannel /\ c.cal_config \in VcChannelCalConfig
      /\ DefaultCal \in VcChannelCalConfig
  BY ChannelAssumption DEF Good, Sound, VcChannel
<1>2. CASE f \in CalExpFields /\ x \notin CalExp
  <2>1. d = c
    BY <1>2 DEF vc_channel_set_cal_field, Reply
  <2> HIDE DEF d
  <2> QED BY <1>1, <2>1, SameFollows DEF SameControl, d
<1>3. CASE ~(f \in CalExpFields /\ x \notin CalExp)
  <2>1. new \in VcChannelCalConfig
    BY <1>1, <1>3, CalFieldFits
  <2>2. d = apply_hw([c EXCEPT !.cal_config = new])
    <3>1. [c EXCEPT !.cal_config[f] = x] = [c EXCEPT !.cal_config = new]
      BY <1>1 DEF VcChannel
    <3> HIDE DEF new
    <3> QED BY <1>3, <3>1 DEF vc_channel_set_cal_field, Reply
  <2> HIDE DEF new, d
  <2> QED BY <2>1, <2>2, CalWriteFollows DEF d
<1> QED BY <1>2, <1>3

\* Entering or leaving calibration is a step, but leaves every channel dark.
LEMMA ResetCalibrationFollows ==
    ASSUME NEW c, Good(c), NEW entering \in BOOLEAN
    PROVE  LET d == vc_channel_reset_calibration(c, entering)
           IN  Follows(c, d) /\ d.active_fault_cause = c.active_fault_cause
<1> DEFINE s == IF entering THEN "CALIBRATION_OUTPUT" ELSE "DISABLED_SAFE"
           x == [c EXCEPT !.output_enabled = FALSE, !.ramping = FALSE, !.ramp_accum = 0,
                          !.cooldown_remaining = 0, !.operational_target_voltage = 0,
                          !.measured_voltage = 0, !.measured_current = 0,
                          !.raw_dac_readback = 0, !.cal_output_enabled = FALSE, !.smf = s]
           d == vc_channel_reset_calibration(c, entering)
<1>1. c \in VcChannel
  BY DEF Good, Sound
<1>2. s \in SmfStates /\ s # "DISABLED_HV_ON"
  BY DEF SmfStates
<1>3. d = refresh(x)
  BY DEF vc_channel_reset_calibration
<1> HIDE DEF s
<1>4. /\ x \in VcChannel /\ x.config = c.config /\ x.capabilities = c.capabilities
      /\ x.ramp_to_disable = c.ramp_to_disable /\ x.smf = s /\ ~x.cal_output_enabled
      /\ x.operational_target_voltage = 0 /\ x.active_fault_cause = c.active_fault_cause
  BY <1>1, <1>2, Int16Facts DEF VcChannel
<1> HIDE DEF x, d
<1>5. Configured(c, d) /\ d.active_fault_cause = c.active_fault_cause
      /\ Holds(c, d)
  BY <1>1, <1>3, <1>4, RefreshControl DEF SameControl, Configured, Holds
<1>6. AlwaysOn(c) => AlwaysOn(d)
  <2> SUFFICES ASSUME AlwaysOn(c) PROVE AlwaysOn(d)
    OBVIOUS
  <2>1. {"OUTPUT_ENABLE", "RAW_OUTPUT_DRIVE"} \cap x.capabilities = {} /\ ~x.ramp_to_disable
    BY <1>4 DEF AlwaysOn
  <2> QED BY <1>2, <1>3, <1>4, <2>1, AlwaysOnRefreshed
<1> QED BY <1>5, <1>6 DEF Follows, d

\* Only a channel with a drive can be driven by the calibration session.
LEMMA CalOutputFollows ==
    ASSUME NEW c, Good(c), NEW on \in BOOLEAN, NEW code \in Nat
    PROVE  LET d == vc_channel_cal_set_output_enable(c, on).ch
               e == vc_channel_cal_set_raw_dac(c, code).ch
           IN  Follows(c, d) /\ StaysLit(c, d) /\ Follows(c, e) /\ StaysLit(c, e)
<1> DEFINE y == [c EXCEPT !.cal_output_enabled = TRUE]
           n == [c EXCEPT !.cal_output_enabled = FALSE, !.raw_dac_readback = 0]
           r == [c EXCEPT !.raw_dac_readback = code]
           d == vc_channel_cal_set_output_enable(c, on).ch
           e == vc_channel_cal_set_raw_dac(c, code).ch
<1>1. c \in VcChannel /\ c.operational_target_voltage \in Int
  BY Int16Facts DEF Good, Sound, VcChannel
<1>2. Follows(c, c) /\ StaysLit(c, c)
  BY <1>1, SameFollows DEF SameControl
<1>3. /\ d = c \/ (channel_has_cap(c, "RAW_OUTPUT_DRIVE") /\ d \in {apply_hw(y), apply_hw(n)})
      /\ e = c \/ (/\ channel_has_cap(c, "RAW_OUTPUT_DRIVE") /\ code <= MaxRawDac
                   /\ e = apply_hw(r))
  <2>1. MaxRawDac \in Int
    BY ChannelAssumption, IntMaxAssumption DEF Word, WordMax
  <2> HIDE DEF y, n, r
  <2> QED BY <2>1 DEF vc_channel_cal_set_output_enable, vc_channel_cal_set_raw_dac, Reply, y, n, r
<1>4. code <= MaxRawDac => code \in Word
  BY ChannelAssumption, IntMaxAssumption DEF Word, WordMax
<1>5. ASSUME channel_has_cap(c, "RAW_OUTPUT_DRIVE"),
             NEW x \in {y, n} \cup (IF code <= MaxRawDac THEN {r} ELSE {})
      PROVE  Follows(c, apply_hw(x)) /\ StaysLit(c, apply_hw(x))
  <2>1. /\ x \in VcChannel /\ x.capabilities = c.capabilities /\ x.config = c.config
        /\ x.output_enabled = c.output_enabled
        /\ x.operational_target_voltage = c.operational_target_voltage
        /\ x.active_fault_cause = c.active_fault_cause
    <3>1. CASE x = y
      BY <1>1, <3>1 DEF VcChannel
    <3>2. CASE x = n
      BY <1>1, <3>2, Int16Facts DEF VcChannel
    <3>3. CASE x = r /\ code <= MaxRawDac
      BY <1>1, <1>4, <3>3 DEF VcChannel
    <3> QED BY <1>5, <3>1, <3>2, <3>3
  <2>2. ~AlwaysOn(c)
    BY <1>5 DEF AlwaysOn, channel_has_cap
  <2> HIDE DEF y, n, r
  <2>3. Settles(c, x) /\ StaysLit(c, x)
    BY <1>1, <2>1, <2>2 DEF Settles, Configured, Holds, StaysLit
  <2> QED BY <2>1, <2>3, SettledFollows
<1> HIDE DEF y, n, r, d, e
<1>6. Follows(c, d) /\ StaysLit(c, d)
  BY <1>2, <1>3, <1>5
<1>7. Follows(c, e) /\ StaysLit(c, e)
  BY <1>2, <1>3, <1>5
<1> QED BY <1>6, <1>7 DEF d, e

\* An enable command is obeyed by every channel without a fault.
LEMMA EnableObeyed ==
    ASSUME NEW c, Good(c), c.active_fault_cause = {}
    PROVE  LET d == vc_channel_output_action(c, "ENABLE").ch
           IN  /\ d.output_enabled /\ d.hw.enable /\ d.active_fault_cause = {}
               /\ d.config = c.config /\ d.capabilities = c.capabilities
<1> DEFINE x == [c EXCEPT !.output_enabled = TRUE, !.ramping = TRUE,
                          !.ramp_to_disable = FALSE, !.smf = "RAMPING"]
<1>1. x \in VcChannel /\ c \in VcChannel
  BY EnableSound DEF Good, Sound
<1>2. vc_channel_output_action(c, "ENABLE").ch = refresh(x)
  BY DEF vc_channel_output_action, output_action_supported, Reply, OutputActions,
         channel_has_cap
<1>3. /\ x.output_enabled /\ x.active_fault_cause = {}
      /\ x.config = c.config /\ x.capabilities = c.capabilities
  BY <1>1 DEF VcChannel
<1> HIDE DEF x
<1>4. hw_command(x).enable
  BY <1>3 DEF hw_command
<1> QED BY <1>1, <1>2, <1>3, <1>4, RefreshControl DEF SameControl

\* A channel at boot accepts its own configuration, has no fault, and has nothing
\* switched on.
LEMMA InitControl ==
    ASSUME NEW caps \in SUBSET Capabilities, NEW config \in VcChannelConfig,
           config.configured_target_voltage = 0,
           config.current_protection_mode = "DISABLED",
           config.current_limit_threshold >= 0
    PROVE  LET c == vc_channel_init(caps, config)
           IN  /\ c.capabilities = caps /\ c.config = config
               /\ Accepted(caps, config, config)
               /\ c.active_fault_cause = {}
               /\ {"OUTPUT_ENABLE", "RAW_OUTPUT_DRIVE"} \cap caps = {} => AlwaysOn(c)
<1>1. /\ config.current_limit_threshold \in Int
      /\ config.current_protection_output_action \in ProtectionActions
  BY DEF VcChannelConfig
<1>2. Accepted(caps, config, config)
  BY <1>1, Int16Facts DEF Accepted, ProtectionModes
<1> QED BY <1>2 DEF vc_channel_init, AlwaysOn

(***************************************************************************)
(* The controller                                                          *)
(***************************************************************************)
\* The inductive invariant, of a controller k.
ControllerInv(k) ==
    /\ k \in VcControllerState
    /\ \A i \in Channels : Good(k.channels[i])
    /\ \A i, j \in Channels :
          k.channels[i].cal_output_enabled /\ k.channels[j].cal_output_enabled => i = j

Inv == ControllerInv(ctrl) /\ nvs \in Settings

\* What a change of the channels needs to preserve the invariant.
LEMMA ChannelsKeep ==
    ASSUME NEW k, ControllerInv(k), NEW f, f = [i \in Channels |-> f[i]],
           \A i \in Channels : Keeps(k.channels[i], f[i])
    PROVE  ControllerInv([k EXCEPT !.channels = f])
<1> DEFINE d == [k EXCEPT !.channels = f]
<1>1. \A i \in Channels : Good(f[i])
  BY DEF ControllerInv, Keeps
<1>2. f \in [Channels -> VcChannel]
  BY <1>1 DEF Good, Sound
<1>3. d \in VcControllerState /\ d.channels = f
  BY <1>2 DEF ControllerInv, VcControllerState
<1>4. \A i, j \in Channels : f[i].cal_output_enabled /\ f[j].cal_output_enabled => i = j
  BY DEF ControllerInv, Keeps
<1> QED BY <1>1, <1>3, <1>4 DEF ControllerInv

\* A change of one channel that keeps it good preserves the invariant.
LEMMA OneChannelKeeps ==
    ASSUME NEW k, ControllerInv(k), NEW i \in Channels, NEW d, Keeps(k.channels[i], d)
    PROVE  ControllerInv([k EXCEPT !.channels[i] = d])
<1> DEFINE f == [k.channels EXCEPT ![i] = d]
<1>1. k \in VcControllerState /\ k.channels \in [Channels -> VcChannel]
  BY DEF ControllerInv, VcControllerState
<1>2. [k EXCEPT !.channels[i] = d] = [k EXCEPT !.channels = f]
  BY <1>1 DEF VcControllerState
<1>3. f = [j \in Channels |-> f[j]]
  BY <1>1
<1>4. \A j \in Channels : Keeps(k.channels[j], f[j])
  BY <1>1 DEF Keeps
<1> HIDE DEF f
<1> QED BY <1>2, <1>3, <1>4, ChannelsKeep

\* The same for a command on one channel.
LEMMA OnChannelKeeps ==
    ASSUME NEW k, ControllerInv(k), NEW i \in Channels, NEW reply,
           Keeps(k.channels[i], reply.ch)
    PROVE  ControllerInv(OnChannel(k, i, reply).ctrl)
BY OneChannelKeeps DEF OnChannel, Answer

\* Resetting the calibration watchdog preserves the invariant.
LEMMA WatchdogResetKeeps ==
    ASSUME NEW k, ControllerInv(k)
    PROVE  ControllerInv(cal_watchdog_reset(k))
<1>1. WatchdogTicks \in 0 .. WatchdogTicks
  BY ControllerAssumption
<1> QED BY <1>1 DEF ControllerInv, VcControllerState, cal_watchdog_reset

(***************************************************************************)
(* Operating mode                                                          *)
(***************************************************************************)
\* What a mode change does to one channel keeps it good.
LEMMA SwitchChannelKeeps ==
    ASSUME NEW c, Good(c), NEW from, NEW mode
    PROVE  Keeps(c, switch_channel(from, mode, c))
<1> DEFINE a == leave_cal(from, c)
           b == retreat(from, mode, a)
           d == auto_enable(mode, b)
           e == enter_cal(mode, d)
<1>1. Good(a) /\ Keeps(c, a)
  BY ResetCalibrationGood DEF leave_cal, Keeps
<1>2. Good(b) /\ Keeps(a, b)
  <2> HIDE DEF a
  <2> QED BY <1>1, OutputActionKeeps DEF retreat, Keeps
<1>3. Good(d) /\ Keeps(b, d)
  <2> HIDE DEF b
  <2> QED BY <1>2, OutputActionKeeps DEF auto_enable, Keeps
<1>4. Good(e) /\ Keeps(d, e)
  <2> HIDE DEF d
  <2> QED BY <1>3, ResetCalibrationGood DEF enter_cal, Keeps
<1>5. switch_channel(from, mode, c) = e
  BY DEF switch_channel
<1> HIDE DEF a, b, d, e
<1> QED BY <1>1, <1>2, <1>3, <1>4, <1>5 DEF Keeps

\* A mode change preserves the invariant: CALIBRATION is remembered in operating_mode
\* only, never in sys_cfg or pre_cal_mode.
LEMMA SwitchModeKeeps ==
    ASSUME NEW k, ControllerInv(k), NEW mode \in Modes, mode # k.operating_mode
    PROVE  ControllerInv(switch_mode(k, mode))
<1> DEFINE from == k.operating_mode
           f == [i \in Channels |-> switch_channel(from, mode, k.channels[i])]
           a == [k EXCEPT !.channels = f]
           b == [a EXCEPT !.operating_mode = mode]
           switched == [k EXCEPT !.channels = f, !.operating_mode = mode]
           locked == [switched EXCEPT !.pre_cal_mode = from, !.cal_unlock_step = 0,
                                      !.cal_unlocked = FALSE]
<1>1. \A i \in Channels : Keeps(k.channels[i], f[i])
  BY SwitchChannelKeeps DEF ControllerInv
<1>2. ControllerInv(a)
  <2>1. f = [i \in Channels |-> f[i]]
    OBVIOUS
  <2> HIDE DEF f
  <2> QED BY <1>1, <2>1, ChannelsKeep
<1>3. ControllerInv(switched)
  <2> HIDE DEF f
  <2>1. switched = [a EXCEPT !.operating_mode = mode]
    BY DEF ControllerInv, VcControllerState
  <2> QED BY <1>2, <2>1 DEF ControllerInv, VcControllerState
<1>4. from \in Modes /\ switched.sys_cfg \in VcSystemConfig
  <2> HIDE DEF switched
  <2> QED BY <1>3 DEF ControllerInv, VcControllerState
<1> HIDE DEF switched
<1>5. CASE mode = "CALIBRATION"
  <2>1. from \in {"NORMAL", "AUTOMATIC"}
    BY <1>4, <1>5 DEF Modes
  <2>2. ControllerInv(locked)
    <3> HIDE DEF from
    <3> QED BY <1>3, <2>1 DEF ControllerInv, VcControllerState
  <2>3. switch_mode(k, mode) = cal_watchdog_reset(locked)
    BY <1>5 DEF switch_mode, switched
  <2> HIDE DEF locked
  <2> QED BY <2>2, <2>3, WatchdogResetKeeps
<1>6. CASE mode # "CALIBRATION"
  <2>1. switch_mode(k, mode) = [switched EXCEPT !.sys_cfg.operating_mode = mode]
    BY <1>6 DEF switch_mode, switched
  <2>2. mode \in {"NORMAL", "AUTOMATIC"}
    BY <1>6 DEF Modes
  <2>3. [switched.sys_cfg EXCEPT !.operating_mode = mode] \in VcSystemConfig
    BY <1>4, <2>2 DEF VcSystemConfig
  <2>4. [switched EXCEPT !.sys_cfg.operating_mode = mode]
          = [switched EXCEPT !.sys_cfg = [switched.sys_cfg EXCEPT !.operating_mode = mode]]
    BY <1>3 DEF ControllerInv, VcControllerState
  <2> QED BY <1>3, <2>1, <2>3, <2>4 DEF ControllerInv, VcControllerState
<1> QED BY <1>5, <1>6

\* vc_controller_set_operating_mode preserves the invariant.
LEMMA SetModeKeeps ==
    ASSUME NEW k, ControllerInv(k), NEW mode
    PROVE  ControllerInv(vc_controller_set_operating_mode(k, mode).ctrl)
<1>1. vc_controller_set_operating_mode(k, mode).ctrl \in
          {k, cal_watchdog_reset(k)}
              \cup (IF mode \in Modes /\ mode # k.operating_mode
                    THEN {switch_mode(k, mode)} ELSE {})
  BY DEF vc_controller_set_operating_mode, Answer
<1> QED BY <1>1, WatchdogResetKeeps, SwitchModeKeeps

\* vc_controller_set_system_config preserves the invariant, even when the mode change
\* is refused.
LEMMA SetSystemConfigKeeps ==
    ASSUME NEW k, ControllerInv(k), NEW cfg \in VcSystemConfig
    PROVE  ControllerInv(vc_controller_set_system_config(k, cfg).ctrl)
<1> DEFINE stored == [k EXCEPT !.sys_cfg = cfg]
<1>1. cfg.operating_mode # "CALIBRATION"
  BY DEF VcSystemConfig
<1>2. ControllerInv(stored)
  BY DEF ControllerInv, VcControllerState
<1>3. vc_controller_set_system_config(k, cfg).ctrl \in
          {stored, vc_controller_set_operating_mode(stored, cfg.operating_mode).ctrl}
  BY <1>1 DEF vc_controller_set_system_config, Answer
<1> HIDE DEF stored
<1> QED BY <1>2, <1>3, SetModeKeeps

\* vc_controller_cal_exit preserves the invariant.
LEMMA CalExitKeeps ==
    ASSUME NEW k, ControllerInv(k)
    PROVE  ControllerInv(vc_controller_cal_exit(k).ctrl)
BY SetModeKeeps DEF vc_controller_cal_exit, Answer

\* vc_controller_calibration_unlock preserves the invariant.
LEMMA UnlockKeeps ==
    ASSUME NEW k, ControllerInv(k), NEW value
    PROVE  ControllerInv(vc_controller_calibration_unlock(k, value).ctrl)
<1>1. \A u \in {0, 1}, b \in BOOLEAN :
          ControllerInv([k EXCEPT !.cal_unlock_step = u, !.cal_unlocked = b])
  BY DEF ControllerInv, VcControllerState
<1> QED BY <1>1 DEF vc_controller_calibration_unlock, Answer

\* vc_controller_tick preserves the invariant.
LEMMA TickKeeps ==
    ASSUME NEW k, ControllerInv(k), NEW dt \in Nat,
           NEW v \in [Channels -> Int \cup {NoSample}],
           NEW c \in [Channels -> Int \cup {NoSample}]
    PROVE  ControllerInv(vc_controller_tick(k, dt, v, c))
<1> DEFINE f == [i \in Channels |-> vc_channel_run(k.channels[i], dt, v[i], c[i],
                                                   k.sys_cfg.operating_mode)]
           waited == [k EXCEPT !.cal_watchdog = k.cal_watchdog - dt]
<1>1. CASE k.operating_mode = "CALIBRATION" /\ dt >= k.cal_watchdog
  BY <1>1, CalExitKeeps DEF vc_controller_tick
<1>2. CASE k.operating_mode = "CALIBRATION" /\ ~(dt >= k.cal_watchdog)
  <2>1. k.cal_watchdog \in 0 .. WatchdogTicks /\ WatchdogTicks \in Nat
    BY ControllerAssumption DEF ControllerInv, VcControllerState
  <2>2. k.cal_watchdog - dt \in 0 .. WatchdogTicks
    BY <1>2, <2>1
  <2>3. vc_controller_tick(k, dt, v, c) = waited
    BY <1>2 DEF vc_controller_tick
  <2> QED BY <2>2, <2>3 DEF ControllerInv, VcControllerState
<1>3. CASE k.operating_mode # "CALIBRATION"
  <2>1. \A i \in Channels : Keeps(k.channels[i], f[i])
    BY RunKeeps DEF ControllerInv
  <2>2. f = [i \in Channels |-> f[i]]
    OBVIOUS
  <2>3. vc_controller_tick(k, dt, v, c) = [k EXCEPT !.channels = f]
    BY <1>3 DEF vc_controller_tick
  <2> HIDE DEF f
  <2> QED BY <2>1, <2>2, <2>3, ChannelsKeep
<1> QED BY <1>1, <1>2, <1>3

(***************************************************************************)
(* Channel commands                                                        *)
(***************************************************************************)
\* vc_controller_channel_output_action preserves the invariant.
LEMMA OutputActionKeepsInv ==
    ASSUME NEW k, ControllerInv(k), NEW i \in Channels, NEW action
    PROVE  ControllerInv(vc_controller_channel_output_action(k, i, action).ctrl)
<1>1. Keeps(k.channels[i], vc_channel_output_action(k.channels[i], action).ch)
  BY OutputActionKeeps DEF ControllerInv
<1> QED BY <1>1, OnChannelKeeps DEF vc_controller_channel_output_action, Answer

\* A write of the target in AUTOMATIC enables the channel as well.
LEMMA SetFieldKeepsInv ==
    ASSUME NEW k, ControllerInv(k), NEW i \in Channels, NEW w \in HostWrites
    PROVE  ControllerInv(vc_controller_channel_set_field(k, i, w.field, w.value).ctrl)
<1> DEFINE set == vc_channel_set_field(k.channels[i], w.field, w.value)
           on == vc_channel_output_action(set.ch, "ENABLE")
<1>1. /\ w.field \in DOMAIN DefaultConfig
      /\ field_valid(w.field, w.value) =>
             [DefaultConfig EXCEPT ![w.field] = w.value] \in VcChannelConfig
  BY ControllerAssumption DEF ConfigFields
<1>2. Good(k.channels[i])
  BY DEF ControllerInv
<1>3. Keeps(k.channels[i], set.ch)
  BY <1>1, <1>2, SetFieldKeeps
<1>4. Keeps(k.channels[i], on.ch)
  <2> HIDE DEF set
  <2>1. Keeps(set.ch, on.ch)
    BY <1>2, <1>3, OutputActionKeeps DEF Keeps
  <2> HIDE DEF on
  <2> QED BY <1>2, <1>3, <2>1 DEF Keeps
<1>5. vc_controller_channel_set_field(k, i, w.field, w.value) \in
          {OnChannel(k, i, on), OnChannel(k, i, set)}
  BY DEF vc_controller_channel_set_field
<1> HIDE DEF set, on
<1> QED BY <1>3, <1>4, <1>5, OnChannelKeeps

\* A calibration command that does not switch an output on preserves the invariant.
LEMMA CalCommandKeeps ==
    ASSUME NEW k, ControllerInv(k), NEW i \in Channels, NEW reply,
           Keeps(k.channels[i], reply.ch)
    PROVE  ControllerInv(cal_command(k, i, reply).ctrl)
<1> DEFINE r == cal_watchdog_reset(k)
<1>1. ControllerInv(r) /\ r.channels = k.channels
  BY WatchdogResetKeeps DEF cal_watchdog_reset, ControllerInv, VcControllerState
<1>2. cal_command(k, i, reply).ctrl \in
          {k, OnChannel(k, i, reply).ctrl, OnChannel(r, i, reply).ctrl}
  BY DEF cal_command, Answer
<1> HIDE DEF r
<1> QED BY <1>1, <1>2, OnChannelKeeps

\* One channel may be switched on when no other is.
LEMMA CalEnableKeeps ==
    ASSUME NEW k, ControllerInv(k), NEW i \in Channels, NEW d, Good(d),
           \A j \in Channels \ {i} : ~k.channels[j].cal_output_enabled
    PROVE  ControllerInv([k EXCEPT !.channels[i] = d])
<1> DEFINE e == [k EXCEPT !.channels[i] = d]
<1>1. k \in VcControllerState /\ k.channels \in [Channels -> VcChannel] /\ d \in VcChannel
  BY DEF ControllerInv, VcControllerState, Good, Sound
<1>2. e \in VcControllerState /\ e.channels = [k.channels EXCEPT ![i] = d]
  BY <1>1 DEF VcControllerState
<1> QED BY <1>1, <1>2 DEF ControllerInv

\* vc_controller_channel_cal_output_enable preserves the invariant: it enables only
\* when no other channel is driven.
LEMMA CalOutputEnableKeepsInv ==
    ASSUME NEW k, ControllerInv(k), NEW i \in Channels, NEW enable \in BOOLEAN
    PROVE  ControllerInv(vc_controller_channel_cal_output_enable(k, i, enable).ctrl)
<1> DEFINE reply == vc_channel_cal_set_output_enable(k.channels[i], enable)
           r == cal_watchdog_reset(k)
<1>1. Good(k.channels[i])
  BY DEF ControllerInv
<1>2. Good(reply.ch) /\ (~enable => Keeps(k.channels[i], reply.ch))
  BY <1>1, CalOutputEnableGood
<1>3. vc_controller_channel_cal_output_enable(k, i, enable).ctrl \in
          IF k.operating_mode = "CALIBRATION" /\ enable /\ cal_busy_elsewhere(k, i) THEN {k}
          ELSE {cal_command(k, i, reply).ctrl}
  BY DEF vc_controller_channel_cal_output_enable, Answer
<1>4. CASE ~enable
  <2> HIDE DEF reply
  <2> QED BY <1>2, <1>3, <1>4, CalCommandKeeps
<1>5. CASE enable /\ (k.operating_mode # "CALIBRATION" \/ cal_busy_elsewhere(k, i))
  <2>1. k.operating_mode # "CALIBRATION" => cal_command(k, i, reply).ctrl = k
    BY DEF cal_command, Answer
  <2> HIDE DEF reply
  <2> QED BY <1>3, <1>5, <2>1
<1>6. CASE enable /\ ~cal_busy_elsewhere(k, i)
  <2>1. \A j \in Channels \ {i} : ~k.channels[j].cal_output_enabled
    BY <1>6 DEF cal_busy_elsewhere
  <2>2. ControllerInv(r) /\ r.channels = k.channels
    BY WatchdogResetKeeps DEF cal_watchdog_reset, ControllerInv, VcControllerState
  <2> HIDE DEF reply, r
  <2>3. /\ ControllerInv([k EXCEPT !.channels[i] = reply.ch])
        /\ ControllerInv([r EXCEPT !.channels[i] = reply.ch])
    BY <1>2, <2>1, <2>2, CalEnableKeeps
  <2>4. cal_command(k, i, reply).ctrl \in
            {k, [k EXCEPT !.channels[i] = reply.ch], [r EXCEPT !.channels[i] = reply.ch]}
    BY DEF cal_command, Answer, OnChannel, r
  <2> QED BY <1>3, <2>3, <2>4
<1> QED BY <1>4, <1>5, <1>6

(***************************************************************************)
(* Storage                                                                 *)
(***************************************************************************)
\* Loading a channel's calibration preserves the invariant.
LEMMA LoadCalChannel ==
    ASSUME NEW k, ControllerInv(k), NEW i \in Channels,
           NEW cal \in VcChannelCalConfig \cup {NoRecord}
    PROVE  /\ ControllerInv(load_cal(k, i, cal))
           /\ Keeps(k.channels[i], load_cal(k, i, cal).channels[i])
<1> DEFINE d == vc_channel_load_cal(k.channels[i], cal)
<1>1. k.channels \in [Channels -> VcChannel] /\ k \in VcControllerState
  BY DEF ControllerInv, VcControllerState
<1>2. CASE cal = NoRecord
  BY <1>2 DEF load_cal, Keeps
<1>3. CASE cal # NoRecord
  <2>1. Keeps(k.channels[i], d)
    BY <1>3, LoadCalKeeps DEF ControllerInv
  <2>2. load_cal(k, i, cal) = [k EXCEPT !.channels[i] = d]
    BY <1>3 DEF load_cal
  <2> HIDE DEF d
  <2>3. load_cal(k, i, cal).channels[i] = d
    BY <1>1, <2>2 DEF VcControllerState
  <2> QED BY <2>1, <2>2, <2>3, OneChannelKeeps
<1> QED BY <1>2, <1>3

\* Loading or resetting a channel's configuration, then its calibration.
LEMMA LoadChannelKeeps ==
    ASSUME NEW k, ControllerInv(k), NEW i \in Channels,
           NEW cfg \in VcChannelConfig \cup {NoRecord},
           NEW cal \in VcChannelCalConfig \cup {NoRecord}
    PROVE  /\ ControllerInv(load_channel(k, i, cfg, cal).ctrl)
           /\ Keeps(k.channels[i], load_channel(k, i, cfg, cal).ctrl.channels[i])
           /\ ControllerInv(reset_channel(k, i, cal).ctrl)
           /\ Keeps(k.channels[i], reset_channel(k, i, cal).ctrl.channels[i])
<1>1. k.channels \in [Channels -> VcChannel] /\ k \in VcControllerState /\ Good(k.channels[i])
  BY DEF ControllerInv, VcControllerState
<1>2. ASSUME NEW new \in VcChannelConfig
      PROVE  LET m == OnChannel(k, i, vc_channel_set_config(k.channels[i], new)).ctrl
             IN  /\ ControllerInv(load_cal(m, i, cal))
                 /\ Keeps(k.channels[i], load_cal(m, i, cal).channels[i])
  <2> DEFINE set == vc_channel_set_config(k.channels[i], new)
             m == OnChannel(k, i, set).ctrl
  <2>1. Keeps(k.channels[i], set.ch)
    BY <1>1, SetConfigKeeps
  <2> HIDE DEF set
  <2>2. ControllerInv(m)
    BY <2>1, OnChannelKeeps
  <2>3. m.channels[i] = set.ch
    BY <1>1 DEF OnChannel, Answer, VcControllerState
  <2> HIDE DEF m
  <2>4. ControllerInv(load_cal(m, i, cal)) /\ Keeps(set.ch, load_cal(m, i, cal).channels[i])
    BY <2>2, <2>3, LoadCalChannel
  <2>5. Keeps(k.channels[i], load_cal(m, i, cal).channels[i])
    BY <2>1, <2>4 DEF Keeps
  <2> QED BY <2>4, <2>5 DEF m, set
<1>3. Keeps(k.channels[i], k.channels[i])
  BY DEF Keeps
<1>4. DefaultConfig \in VcChannelConfig
  BY ChannelAssumption
<1>5. /\ ControllerInv(reset_channel(k, i, cal).ctrl)
      /\ Keeps(k.channels[i], reset_channel(k, i, cal).ctrl.channels[i])
  BY <1>2, <1>3, <1>4 DEF reset_channel, Answer
<1>6. CASE cfg = NoRecord
  BY <1>5, <1>6, LoadCalChannel DEF load_channel, Answer
<1>7. CASE cfg # NoRecord
  <2>1. cfg \in VcChannelConfig
    BY <1>7
  <2> QED BY <1>2, <1>3, <1>5, <1>7, <2>1 DEF load_channel, Answer
<1> QED BY <1>6, <1>7

\* The defaults of the devicetree only switch outputs off.
LEMMA BootConfigType ==
    ASSUME NEW i \in Channels
    PROVE  /\ boot_config(i) \in VcChannelConfig
           /\ boot_config(i).configured_target_voltage = 0
           /\ boot_config(i).current_protection_mode = "DISABLED"
           /\ boot_config(i).current_limit_threshold >= 0
BY ChannelAssumption DEF boot_config, VcChannelConfig

\* A controller before the boot sequence satisfies the invariant.
LEMMA InitInv == ControllerInv(vc_controller_init)
<1> DEFINE k == vc_controller_init
<1>1. \A i \in Channels : Good(boot_channel(i)) /\ ~boot_channel(i).cal_output_enabled
  BY InitGood, BootConfigType, ControllerAssumption DEF boot_channel
<1>2. default_system_config \in VcSystemConfig /\ 0 \in 0 .. WatchdogTicks
  BY ControllerAssumption DEF default_system_config, VcSystemConfig
<1>3. [i \in Channels |-> boot_channel(i)] \in [Channels -> VcChannel]
  BY <1>1 DEF Good, Sound
<1>4. k \in VcControllerState
  BY <1>2, <1>3 DEF vc_controller_init, VcControllerState, Modes
<1>5. \A i \in Channels : k.channels[i] = boot_channel(i)
  BY DEF vc_controller_init
<1> HIDE DEF k
<1> QED BY <1>1, <1>4, <1>5 DEF ControllerInv, k

\* The system config and the channels after the first two phases of the boot.
LoadedSystem(s) == IF s.sys = NoRecord THEN vc_controller_init.sys_cfg ELSE s.sys

Loaded(s) ==
    [vc_controller_init EXCEPT !.channels = [i \in Channels |->
        IF LoadedSystem(s).startup_channel_policy = 0
        THEN load_channel(vc_controller_init, i, s.cfg[i], s.cal[i]).ctrl.channels[i]
        ELSE reset_channel(vc_controller_init, i, s.cal[i]).ctrl.channels[i]]]

\* The third phase applies the system config.
LEMMA AutoLoadPhases ==
    ASSUME NEW s
    PROVE  auto_load(s) = vc_controller_set_system_config(Loaded(s), LoadedSystem(s)).ctrl
BY DEF auto_load, Loaded, LoadedSystem

\* The first two phases lead to a controller that satisfies the invariant.
LEMMA LoadedInv ==
    ASSUME NEW s \in Settings
    PROVE  /\ LoadedSystem(s) \in VcSystemConfig
           /\ ControllerInv(Loaded(s))
<1> DEFINE k   == vc_controller_init
           sys == LoadedSystem(s)
           f == [i \in Channels |->
                    IF sys.startup_channel_policy = 0
                    THEN load_channel(k, i, s.cfg[i], s.cal[i]).ctrl.channels[i]
                    ELSE reset_channel(k, i, s.cal[i]).ctrl.channels[i]]
           m == [k EXCEPT !.channels = f]
<1>1. ControllerInv(k)
  BY InitInv
<1>2. sys \in VcSystemConfig
  <2> HIDE DEF k
  <2> QED BY <1>1 DEF Settings, ControllerInv, VcControllerState, LoadedSystem, k
<1>3. \A i \in Channels : s.cfg[i] \in VcChannelConfig \cup {NoRecord}
                       /\ s.cal[i] \in VcChannelCalConfig \cup {NoRecord}
  BY DEF Settings
<1>4. \A i \in Channels : Keeps(k.channels[i], f[i])
  <2> HIDE DEF k, sys
  <2> QED BY <1>1, <1>3, LoadChannelKeeps
<1>5. f = [i \in Channels |-> f[i]]
  OBVIOUS
<1>6. ControllerInv(m)
  <2> HIDE DEF k, f
  <2> QED BY <1>1, <1>4, <1>5, ChannelsKeep
<1>7. Loaded(s) = m
  BY DEF Loaded
<1> HIDE DEF m, sys
<1> QED BY <1>2, <1>6, <1>7 DEF sys

\* The boot sequence.
LEMMA AutoLoadInv ==
    ASSUME NEW s \in Settings
    PROVE  ControllerInv(auto_load(s))
BY AutoLoadPhases, LoadedInv, SetSystemConfigKeeps

(***************************************************************************)
(* The invariant is inductive                                              *)
(***************************************************************************)
\* The invariant holds after every boot.
LEMMA InitImpliesInv == Init => Inv
<1> SUFFICES ASSUME Init PROVE Inv
  OBVIOUS
<1>1. nvs \in Settings /\ ctrl = auto_load(nvs)
  BY ControllerAssumption DEF Init
<1> QED BY <1>1, AutoLoadInv DEF Inv

\* What a read returns is a record of its key, or nothing.
LEMMA ReadAllType ==
    ASSUME NEW s \in Settings, NEW r \in ReadAll(s)
    PROVE  r \in Settings
<1>1. /\ r.sys \in VcSystemConfig \cup {NoRecord}
      /\ r.cfg \in [Channels -> {s.cfg[i] : i \in Channels} \cup {NoRecord}]
      /\ r.cal \in [Channels -> {s.cal[i] : i \in Channels} \cup {NoRecord}]
  BY DEF ReadAll, ReadKey, Settings
<1>2. /\ s.cfg \in [Channels -> VcChannelConfig \cup {NoRecord}]
      /\ s.cal \in [Channels -> VcChannelCalConfig \cup {NoRecord}]
  BY DEF Settings
<1>3. /\ r.cfg \in [Channels -> VcChannelConfig \cup {NoRecord}]
      /\ r.cal \in [Channels -> VcChannelCalConfig \cup {NoRecord}]
  BY <1>1, <1>2
<1>4. r = [sys |-> r.sys, cfg |-> r.cfg, cal |-> r.cal]
  BY DEF ReadAll
<1> QED BY <1>1, <1>3, <1>4 DEF Settings

\* The steps that write the settings.
LEMMA SettingsKept ==
    ASSUME Inv, NEW i \in Channels
    PROVE  /\ [nvs EXCEPT !.sys = ctrl.sys_cfg] \in Settings
           /\ [nvs EXCEPT !.cfg[i] = ctrl.channels[i].config] \in Settings
           /\ [nvs EXCEPT !.cal[i] = ctrl.channels[i].cal_config] \in Settings
<1>1. /\ ctrl.sys_cfg \in VcSystemConfig
      /\ ctrl.channels[i] \in VcChannel
  BY DEF Inv, ControllerInv, VcControllerState
<1>2. /\ ctrl.channels[i].config \in VcChannelConfig
      /\ ctrl.channels[i].cal_config \in VcChannelCalConfig
  BY <1>1 DEF VcChannel
<1> QED BY <1>1, <1>2 DEF Inv, Settings

\* Every command the worker dispatches preserves the invariant.
LEMMA CommandKeepsInv ==
    ASSUME Inv, OutputCommand \/ OtherCommand
    PROVE  Inv'
<1>0. ControllerInv(ctrl) /\ nvs \in Settings
  BY DEF Inv
<1>1. ASSUME NEW i \in Channels, NEW action \in HostOutputActions, OutputAction(i, action)
      PROVE  Inv'
  BY <1>0, <1>1, OutputActionKeepsInv DEF OutputAction, Inv
<1>2. ASSUME NEW mode \in HostModes, SetOperatingMode(mode)
      PROVE  Inv'
  BY <1>0, <1>2, SetModeKeeps DEF SetOperatingMode, Inv
<1>3. ASSUME NEW policy \in HostPolicies, SetStartupPolicy(policy)
      PROVE  Inv'
  <2>1. [ctrl.sys_cfg EXCEPT !.startup_channel_policy = policy] \in VcSystemConfig
    BY <1>0, ControllerAssumption DEF ControllerInv, VcControllerState, VcSystemConfig
  <2> QED BY <1>0, <1>3, <2>1, SetSystemConfigKeeps DEF SetStartupPolicy, Inv
<1>4. ASSUME NEW value \in {"CAL_UNLOCK_STEP1", "CAL_UNLOCK_STEP2", "OTHER"},
             CalibrationUnlock(value)
      PROVE  Inv'
  BY <1>0, <1>4, UnlockKeeps DEF CalibrationUnlock, Inv
<1>5. CASE CalExit
  BY <1>0, <1>5, CalExitKeeps DEF CalExit, Inv
<1>6. CASE SystemSave
  <2>1. [nvs EXCEPT !.sys = ctrl.sys_cfg] \in Settings
    BY <1>0 DEF Settings, ControllerInv, VcControllerState
  <2> QED BY <1>0, <1>6, <2>1 DEF SystemSave, Inv
<1>7. CASE SystemLoad
  <2>1. PICK r \in ReadKey(nvs.sys) :
            ctrl' = IF r = NoRecord THEN ctrl
                    ELSE vc_controller_set_system_config(ctrl, r).ctrl
    BY <1>7 DEF SystemLoad
  <2>2. r \in VcSystemConfig \cup {NoRecord}
    BY <1>0 DEF ReadKey, Settings
  <2> QED BY <1>0, <1>7, <2>1, <2>2, SetSystemConfigKeeps DEF SystemLoad, Inv
<1>8. CASE SystemFactoryReset
  <2>1. ControllerInv(reset_system(ctrl))
    <3>1. default_system_config \in VcSystemConfig
      BY ControllerAssumption DEF default_system_config, VcSystemConfig
    <3> QED BY <1>0, <3>1 DEF reset_system, ControllerInv, VcControllerState, Modes
  <2>2. PICK kept :
          nvs' = [sys |-> IF kept.sys THEN nvs.sys ELSE NoRecord,
                  cfg |-> [i \in Channels |-> IF i \in kept.cfg THEN nvs.cfg[i] ELSE NoRecord],
                  cal |-> [i \in Channels |-> IF i \in kept.cal THEN nvs.cal[i] ELSE NoRecord]]
    BY <1>8 DEF SystemFactoryReset
  <2>3. nvs' \in Settings
    BY <1>0, <2>2 DEF Settings
  <2> QED BY <1>8, <2>1, <2>3 DEF SystemFactoryReset, Inv
<1>9. ASSUME NEW i \in Channels, NEW cmd \in HostFaultCommands, FaultCommand(i, cmd)
      PROVE  Inv'
  <2>1. Keeps(ctrl.channels[i], vc_channel_fault_command(ctrl.channels[i], cmd).ch)
    BY <1>0, FaultCommandKeeps DEF ControllerInv
  <2> QED BY <1>0, <1>9, <2>1, OnChannelKeeps DEF FaultCommand, Inv
<1>10. ASSUME NEW i \in Channels, NEW w \in HostWrites, SetChannelField(i, w)
       PROVE  Inv'
  BY <1>0, <1>10, SetFieldKeepsInv DEF SetChannelField, Inv
<1>11. ASSUME NEW i \in Channels, NEW w \in HostCalWrites, SetCalField(i, w)
       PROVE  Inv'
  <2>1. /\ w.field \in DOMAIN DefaultCal
        /\ \/ w.field \in CalExpFields /\ w.value \notin CalExp
           \/ [DefaultCal EXCEPT ![w.field] = w.value] \in VcChannelCalConfig
    BY ControllerAssumption DEF CalFields
  <2>2. Keeps(ctrl.channels[i],
              vc_channel_set_cal_field(ctrl.channels[i], w.field, w.value).ch)
    BY <1>0, <2>1, SetCalFieldKeeps DEF ControllerInv
  <2> QED BY <1>0, <1>11, <2>2, CalCommandKeeps DEF SetCalField, Inv
<1>12. ASSUME NEW i \in Channels, NEW enable \in BOOLEAN, CalOutputEnable(i, enable)
       PROVE  Inv'
  BY <1>0, <1>12, CalOutputEnableKeepsInv DEF CalOutputEnable, Inv
<1>13. ASSUME NEW i \in Channels, NEW code \in HostRawDacs, CalRawDac(i, code)
       PROVE  Inv'
  <2>1. code \in Nat
    BY ControllerAssumption
  <2>2. Keeps(ctrl.channels[i], vc_channel_cal_set_raw_dac(ctrl.channels[i], code).ch)
    BY <1>0, <2>1, CalRawDacKeeps DEF ControllerInv
  <2> QED BY <1>0, <1>13, <2>2, CalCommandKeeps DEF CalRawDac, Inv
<1>14. ASSUME NEW i \in Channels, CalSample(i) \/ CalCommit(i)
       PROVE  Inv'
  <2>1. /\ Keeps(ctrl.channels[i], vc_channel_cal_sample(ctrl.channels[i]).ch)
        /\ Keeps(ctrl.channels[i], vc_channel_cal_commit(ctrl.channels[i]).ch)
    BY DEF vc_channel_cal_sample, vc_channel_cal_commit, Reply, Keeps
  <2>2. /\ ControllerInv(cal_command(ctrl, i, vc_channel_cal_sample(ctrl.channels[i])).ctrl)
        /\ ControllerInv(cal_command(ctrl, i, vc_channel_cal_commit(ctrl.channels[i])).ctrl)
    BY <1>0, <2>1, CalCommandKeeps
  <2>3. [nvs EXCEPT !.cal[i] = ctrl.channels[i].cal_config] \in Settings
    BY SettingsKept
  <2> QED BY <1>0, <1>14, <2>2, <2>3 DEF CalSample, CalCommit, Inv
<1>15. ASSUME NEW i \in Channels, ChannelSave(i)
       PROVE  Inv'
  <2>1. [nvs EXCEPT !.cfg[i] = ctrl.channels[i].config] \in Settings
    BY SettingsKept
  <2> QED BY <1>0, <1>15, <2>1 DEF ChannelSave, Inv
<1>16. ASSUME NEW i \in Channels, ChannelLoad(i) \/ ChannelFactoryReset(i)
       PROVE  Inv'
  <2>1. /\ nvs.cfg[i] \in VcChannelConfig \cup {NoRecord}
        /\ \A cal \in ReadKey(nvs.cal[i]) : cal \in VcChannelCalConfig \cup {NoRecord}
    BY <1>0 DEF Settings, ReadKey
  <2>2. \A cal \in ReadKey(nvs.cal[i]) :
            /\ ControllerInv(load_channel(ctrl, i, nvs.cfg[i], cal).ctrl)
            /\ ControllerInv(reset_channel(ctrl, i, cal).ctrl)
    BY <1>0, <2>1, LoadChannelKeeps
  <2> QED BY <1>0, <1>16, <2>2 DEF ChannelLoad, ChannelFactoryReset, Inv
<1> QED BY <1>1, <1>2, <1>3, <1>4, <1>5, <1>6, <1>7, <1>8, <1>9, <1>10, <1>11, <1>12,
           <1>13, <1>14, <1>15, <1>16 DEF OutputCommand, OtherCommand

\* Every tick preserves the invariant.
LEMMA TickKeepsInv ==
    ASSUME Inv, NEW dt \in TickLengths, Tick(dt)
    PROVE  Inv'
<1>1. PICK v \in [Channels -> RawVoltages \cup {NoSample}],
           c \in [Channels -> RawCurrents \cup {NoSample}] :
          ctrl' = vc_controller_tick(ctrl, dt, v, c)
  BY DEF Tick
<1>2. /\ dt \in Nat
      /\ v \in [Channels -> Int \cup {NoSample}]
      /\ c \in [Channels -> Int \cup {NoSample}]
  BY ControllerAssumption
<1>3. ControllerInv(vc_controller_tick(ctrl, dt, v, c))
  BY <1>2, TickKeeps DEF Inv
<1> QED BY <1>1, <1>3 DEF Tick, Inv

\* Every step preserves the invariant.
LEMMA NextKeepsInv == Inv /\ [Next]_vars => Inv'
<1> SUFFICES ASSUME Inv, [Next]_vars PROVE Inv'
  OBVIOUS
<1>1. CASE OutputCommand \/ OtherCommand
  BY <1>1, CommandKeepsInv
<1>2. ASSUME NEW dt \in TickLengths, Tick(dt) PROVE Inv'
  BY <1>2, TickKeepsInv
<1>3. CASE DriverFault
  <2>1. PICK i \in Channels, cause \in DriverFaults : ConsumeFault(i, cause)
    BY <1>3 DEF DriverFault
  <2>2. cause \in FaultCauses
    BY ControllerAssumption
  <2>3. Keeps(ctrl.channels[i], vc_channel_consume_fault(ctrl.channels[i], cause))
    BY <2>2, ConsumeFaultKeeps DEF Inv, ControllerInv
  <2>4. ControllerInv([ctrl EXCEPT !.channels[i] =
                          vc_channel_consume_fault(ctrl.channels[i], cause)])
    BY <2>3, OneChannelKeeps DEF Inv
  <2> QED BY <2>1, <2>4 DEF ConsumeFault, Inv
<1>4. CASE Reboot
  <2>1. PICK s \in ReadAll(nvs) : ctrl' = auto_load(s)
    BY <1>4 DEF Reboot
  <2> QED BY <1>4, <2>1, ReadAllType, AutoLoadInv DEF Reboot, Inv
<1>5. CASE UNCHANGED vars
  BY <1>5 DEF vars, Inv
<1> QED BY <1>1, <1>2, <1>3, <1>4, <1>5 DEF Next

\* Every behaviour keeps the invariant.
THEOREM Invariance == Spec => []Inv
<1>1. Init => Inv
  BY InitImpliesInv
<1>2. Inv /\ [Next]_vars => Inv'
  BY NextKeepsInv
<1> QED BY <1>1, <1>2, PTL DEF Spec

(***************************************************************************)
(* What the invariant gives                                                *)
(***************************************************************************)
\* Type correctness: whatever the host, the drivers and the storage do, every
\* field keeps its type, the retry history fits its array, and neither the live
\* system config nor the stored one holds CALIBRATION.
THEOREM TypeCorrect == Spec => []TypeOK
<1>1. Inv => TypeOK
  BY DEF Inv, ControllerInv, TypeOK, Good, Sound
<1> QED BY <1>1, Invariance, PTL

\* The hardware is driven with what the state calls for: no handler returns
\* having changed what apply_hw reads without calling it.
THEOREM HardwareFollows == Spec => []HwDriveFresh
<1>1. Inv => HwDriveFresh
  BY DEF Inv, ControllerInv, HwDriveFresh, Good, Fresh
<1> QED BY <1>1, Invariance, PTL

\* At most one channel is driven by the calibration session.
THEOREM CalibrationIsExclusive == Spec => []CalExclusive
<1>1. Inv => CalExclusive
  BY DEF Inv, ControllerInv, CalExclusive, CalDriven, Good, Sound
<1> QED BY <1>1, Invariance, PTL

\* A hardware or interlock fault keeps the operational target at zero and the
\* calibration output off.
THEOREM HardFaultIsSafe == Spec => []HardFaultHoldsZero
<1>1. Inv => HardFaultHoldsZero
  BY DEF Inv, ControllerInv, HardFaultHoldsZero, CalDriven, Good, Sound
<1> QED BY <1>1, Invariance, PTL

(***************************************************************************)
(* What a step may do                                                      *)
(***************************************************************************)
\* A step from a controller k to a controller m other than a tick or a reset: every
\* channel takes a step of its own, one that is always on stays lit outside
\* calibration, and a switch into AUTOMATIC leaves every channel that wants output
\* with it.
Lights(k, m) ==
    /\ "CALIBRATION" \notin {k.operating_mode, m.operating_mode} =>
           \A i \in Channels : StaysLit(k.channels[i], m.channels[i])
    /\ k.operating_mode # "AUTOMATIC" /\ m.operating_mode = "AUTOMATIC" =>
           \A i \in Channels :
               wants_output(m.channels[i]) /\ m.channels[i].active_fault_cause = {} =>
                   m.channels[i].output_enabled /\ m.channels[i].hw.enable

Step(k, m) ==
    /\ \A i \in Channels : Follows(k.channels[i], m.channels[i])
    /\ Lights(k, m)

\* The same of a step that may be a tick.
Passes(k, m) ==
    /\ \A i \in Channels : Ticks(k.channels[i], m.channels[i])
    /\ Lights(k, m)

SameFaults(k, m) ==
    \A i \in Channels : m.channels[i].active_fault_cause = k.channels[i].active_fault_cause

\* A step that leaves channels and mode alone.
LEMMA IdleStep ==
    ASSUME NEW k, ControllerInv(k), NEW m,
           m.channels = k.channels, m.operating_mode = k.operating_mode
    PROVE  Step(k, m) /\ SameFaults(k, m)
<1>1. \A i \in Channels : /\ Follows(k.channels[i], k.channels[i])
                          /\ StaysLit(k.channels[i], k.channels[i])
  <2> SUFFICES ASSUME NEW i \in Channels
               PROVE  /\ Follows(k.channels[i], k.channels[i])
                      /\ StaysLit(k.channels[i], k.channels[i])
    OBVIOUS
  <2>1. k.channels[i] \in VcChannel
    BY DEF ControllerInv, Good, Sound
  <2> QED BY <2>1, SameFollows DEF SameControl
<1> QED BY <1>1 DEF Step, Lights, SameFaults

\* Resetting the calibration watchdog.
LEMMA WatchdogResetStep ==
    ASSUME NEW k, ControllerInv(k)
    PROVE  Step(k, cal_watchdog_reset(k)) /\ SameFaults(k, cal_watchdog_reset(k))
<1>1. /\ cal_watchdog_reset(k).channels = k.channels
      /\ cal_watchdog_reset(k).operating_mode = k.operating_mode
  BY DEF cal_watchdog_reset, ControllerInv, VcControllerState
<1> QED BY <1>1, IdleStep

\* A step of one channel, by a command that reaches no other.
LEMMA OneChannelStep ==
    ASSUME NEW k, ControllerInv(k), NEW i \in Channels, NEW d, NEW m,
           m.channels = [k.channels EXCEPT ![i] = d],
           m.operating_mode = k.operating_mode,
           Follows(k.channels[i], d),
           k.operating_mode = "CALIBRATION" \/ StaysLit(k.channels[i], d)
    PROVE  Step(k, m)
<1>1. \A j \in Channels : /\ Follows(k.channels[j], k.channels[j])
                          /\ StaysLit(k.channels[j], k.channels[j])
  BY SameFollows DEF ControllerInv, Good, Sound, SameControl
<1>2. \A j \in Channels : m.channels[j] = IF j = i THEN d ELSE k.channels[j]
  BY DEF ControllerInv, VcControllerState
<1> QED BY <1>1, <1>2 DEF Step, Lights

\* OnChannel is such a command.
LEMMA OnChannelStep ==
    ASSUME NEW k, ControllerInv(k), NEW i \in Channels, NEW reply,
           Follows(k.channels[i], reply.ch),
           k.operating_mode = "CALIBRATION" \/ StaysLit(k.channels[i], reply.ch)
    PROVE  Step(k, OnChannel(k, i, reply).ctrl)
<1> DEFINE m == OnChannel(k, i, reply).ctrl
<1>1. /\ m.channels = [k.channels EXCEPT ![i] = reply.ch]
      /\ m.operating_mode = k.operating_mode
  BY DEF OnChannel, Answer, ControllerInv, VcControllerState
<1> HIDE DEF m
<1> QED BY <1>1, OneChannelStep DEF m

\* What a mode change does to one channel: the enable pass comes last, and outside
\* calibration there is one output action at most.
LEMMA SwitchChannelStep ==
    ASSUME NEW c, Good(c), NEW from, NEW mode
    PROVE  LET d == switch_channel(from, mode, c)
           IN  /\ Follows(c, d)
               /\ d.active_fault_cause = c.active_fault_cause
               /\ "CALIBRATION" \notin {from, mode} => StaysLit(c, d)
               /\ mode = "AUTOMATIC" /\ wants_output(d) /\ d.active_fault_cause = {} =>
                      d.output_enabled /\ d.hw.enable
<1> DEFINE a == leave_cal(from, c)
           b == retreat(from, mode, a)
           e == auto_enable(mode, b)
           d == enter_cal(mode, e)
<1>0. \A y : Good(y) => y \in VcChannel /\ Follows(y, y) /\ StaysLit(y, y)
  BY SameFollows DEF Good, Sound, SameControl
<1>1. /\ Good(a) /\ Follows(c, a) /\ a.active_fault_cause = c.active_fault_cause
      /\ from # "CALIBRATION" => a = c
  BY <1>0, ResetCalibrationGood, ResetCalibrationFollows DEF leave_cal
<1> HIDE DEF a
<1>2. /\ Good(b) /\ Follows(a, b) /\ StaysLit(a, b)
      /\ b.active_fault_cause = a.active_fault_cause
      /\ mode # "NORMAL" => b = a
  BY <1>0, <1>1, OutputActionKeeps, OutputActionFollows DEF retreat, Keeps
<1> HIDE DEF b
<1>3. /\ Good(e) /\ Follows(b, e) /\ StaysLit(b, e)
      /\ e.active_fault_cause = b.active_fault_cause
      /\ mode # "AUTOMATIC" => e = b
      /\ mode = "AUTOMATIC" /\ wants_output(e) /\ e.active_fault_cause = {} =>
             e.output_enabled /\ e.hw.enable
  <2>1. CASE mode = "AUTOMATIC" /\ wants_output(b) /\ b.active_fault_cause = {}
    <3>1. e = vc_channel_output_action(b, "ENABLE").ch
      BY <2>1 DEF auto_enable
    <3> HIDE DEF e
    <3>2. e.output_enabled /\ e.hw.enable
      BY <1>2, <2>1, <3>1, EnableObeyed
    <3>3. Good(e) /\ Follows(b, e) /\ StaysLit(b, e)
          /\ e.active_fault_cause = b.active_fault_cause
      BY <1>2, <3>1, OutputActionKeeps, OutputActionFollows DEF Keeps
    <3> QED BY <2>1, <3>2, <3>3
  <2>2. CASE ~(mode = "AUTOMATIC" /\ wants_output(b) /\ b.active_fault_cause = {})
    <3>1. e = b
      BY <2>2 DEF auto_enable
    <3> HIDE DEF e
    <3> QED BY <1>0, <1>2, <2>2, <3>1
  <2> QED BY <2>1, <2>2
<1> HIDE DEF e
<1>4. /\ Good(d) /\ Follows(e, d) /\ d.active_fault_cause = e.active_fault_cause
      /\ mode # "CALIBRATION" => d = e
  BY <1>0, <1>3, ResetCalibrationGood, ResetCalibrationFollows DEF enter_cal
<1>5. switch_channel(from, mode, c) = d
  BY DEF switch_channel, a, b, e
<1> HIDE DEF d
<1>6. Follows(c, b) /\ Follows(c, e) /\ Follows(c, d)
  <2>1. Follows(c, b)
    BY <1>0, <1>1, <1>2, FollowsTwice
  <2>2. Follows(c, e)
    BY <1>0, <1>1, <1>2, <1>3, <2>1, FollowsTwice
  <2>3. Follows(c, d)
    BY <1>0, <1>1, <1>2, <1>3, <1>4, <2>2, FollowsTwice
  <2> QED BY <2>1, <2>2, <2>3
<1>7. "CALIBRATION" \notin {from, mode} => StaysLit(c, d)
  <2>1. CASE mode = "AUTOMATIC" /\ from # "CALIBRATION"
    BY <1>1, <1>2, <1>3, <1>4, <2>1
  <2>2. CASE mode # "AUTOMATIC" /\ "CALIBRATION" \notin {from, mode}
    BY <1>1, <1>2, <1>3, <1>4, <2>2
  <2> QED BY <2>1, <2>2
<1>8. d.active_fault_cause = c.active_fault_cause
  BY <1>1, <1>2, <1>3, <1>4
<1> QED BY <1>3, <1>4, <1>5, <1>6, <1>7, <1>8

\* A mode change.
LEMMA SwitchModeStep ==
    ASSUME NEW k, ControllerInv(k), NEW mode \in Modes
    PROVE  Step(k, switch_mode(k, mode)) /\ SameFaults(k, switch_mode(k, mode))
<1> DEFINE from == k.operating_mode
           f == [i \in Channels |-> switch_channel(from, mode, k.channels[i])]
           m == switch_mode(k, mode)
<1>1. m.channels = f /\ m.operating_mode = mode
  <2> HIDE DEF f
  <2>1. CASE mode = "CALIBRATION"
    BY <2>1 DEF switch_mode, cal_watchdog_reset, ControllerInv, VcControllerState, f
  <2>2. CASE mode # "CALIBRATION"
    BY <2>2 DEF switch_mode, ControllerInv, VcControllerState, f
  <2> QED BY <2>1, <2>2
<1>2. \A i \in Channels :
          /\ Follows(k.channels[i], f[i])
          /\ f[i].active_fault_cause = k.channels[i].active_fault_cause
          /\ "CALIBRATION" \notin {from, mode} => StaysLit(k.channels[i], f[i])
          /\ mode = "AUTOMATIC" /\ wants_output(f[i]) /\ f[i].active_fault_cause = {} =>
                 f[i].output_enabled /\ f[i].hw.enable
  BY SwitchChannelStep DEF ControllerInv
<1> HIDE DEF f, m
<1> QED BY <1>1, <1>2 DEF Step, Lights, SameFaults, m

\* vc_controller_set_operating_mode.
LEMMA SetModeStep ==
    ASSUME NEW k, ControllerInv(k), NEW mode
    PROVE  LET m == vc_controller_set_operating_mode(k, mode).ctrl
           IN  Step(k, m) /\ SameFaults(k, m)
<1>1. vc_controller_set_operating_mode(k, mode).ctrl \in
          {k, cal_watchdog_reset(k)}
              \cup (IF mode \in Modes THEN {switch_mode(k, mode)} ELSE {})
  BY DEF vc_controller_set_operating_mode, Answer
<1> QED BY <1>1, IdleStep, WatchdogResetStep, SwitchModeStep

\* vc_controller_set_system_config.
LEMMA SetSystemConfigStep ==
    ASSUME NEW k, ControllerInv(k), NEW cfg \in VcSystemConfig
    PROVE  LET m == vc_controller_set_system_config(k, cfg).ctrl
           IN  Step(k, m) /\ SameFaults(k, m)
<1> DEFINE stored == [k EXCEPT !.sys_cfg = cfg]
           m == vc_controller_set_system_config(k, cfg).ctrl
<1>1. cfg.operating_mode # "CALIBRATION"
  BY DEF VcSystemConfig
<1>2. /\ ControllerInv(stored)
      /\ stored.channels = k.channels /\ stored.operating_mode = k.operating_mode
  BY DEF ControllerInv, VcControllerState
<1>3. m \in {stored, vc_controller_set_operating_mode(stored, cfg.operating_mode).ctrl}
  BY <1>1 DEF vc_controller_set_system_config, Answer
<1> HIDE DEF stored, m
<1>4. Step(stored, m) /\ SameFaults(stored, m)
  BY <1>2, <1>3, IdleStep, SetModeStep
<1> QED BY <1>2, <1>4 DEF Step, Lights, SameFaults, m

\* vc_controller_cal_exit.
LEMMA CalExitStep ==
    ASSUME NEW k, ControllerInv(k)
    PROVE  Step(k, vc_controller_cal_exit(k).ctrl)
BY SetModeStep, IdleStep DEF vc_controller_cal_exit, Answer

\* A step passes.
LEMMA StepPasses ==
    ASSUME NEW k, ControllerInv(k), NEW m, Step(k, m)
    PROVE  Passes(k, m)
BY FollowsTicks DEF Step, Passes, ControllerInv, Good, Sound

\* vc_controller_tick.
LEMMA TickStep ==
    ASSUME NEW k, ControllerInv(k), NEW dt \in Nat,
           NEW v \in [Channels -> Int \cup {NoSample}],
           NEW c \in [Channels -> Int \cup {NoSample}]
    PROVE  Passes(k, vc_controller_tick(k, dt, v, c))
<1> DEFINE f == [i \in Channels |-> vc_channel_run(k.channels[i], dt, v[i], c[i],
                                                   k.sys_cfg.operating_mode)]
           m == vc_controller_tick(k, dt, v, c)
<1>1. CASE k.operating_mode = "CALIBRATION" /\ dt >= k.cal_watchdog
  BY <1>1, CalExitStep, StepPasses DEF vc_controller_tick
<1>2. CASE k.operating_mode = "CALIBRATION" /\ ~(dt >= k.cal_watchdog)
  <2>1. m.channels = k.channels /\ m.operating_mode = k.operating_mode
    BY <1>2 DEF vc_controller_tick, ControllerInv, VcControllerState
  <2> HIDE DEF m
  <2> QED BY <2>1, IdleStep, StepPasses DEF m
<1>3. CASE k.operating_mode # "CALIBRATION"
  <2>1. \A i \in Channels : Ticks(k.channels[i], f[i]) /\ StaysLit(k.channels[i], f[i])
    BY RunFollows DEF ControllerInv
  <2> HIDE DEF f
  <2>2. m.channels = f /\ m.operating_mode = k.operating_mode
    BY <1>3 DEF vc_controller_tick, ControllerInv, VcControllerState, f
  <2> HIDE DEF m
  <2> QED BY <1>3, <2>1, <2>2 DEF Passes, Lights, m
<1> QED BY <1>1, <1>2, <1>3

\* vc_controller_channel_output_action.
LEMMA OutputActionStep ==
    ASSUME NEW k, ControllerInv(k), NEW i \in Channels, NEW action
    PROVE  Step(k, vc_controller_channel_output_action(k, i, action).ctrl)
<1>1. LET d == vc_channel_output_action(k.channels[i], action).ch
      IN  Follows(k.channels[i], d) /\ StaysLit(k.channels[i], d)
  BY OutputActionFollows DEF ControllerInv
<1> QED BY <1>1, OnChannelStep, IdleStep DEF vc_controller_channel_output_action, Answer

\* vc_controller_channel_set_field: a write, then an enable in AUTOMATIC.
LEMMA SetFieldStep ==
    ASSUME NEW k, ControllerInv(k), NEW i \in Channels, NEW w \in HostWrites
    PROVE  Step(k, vc_controller_channel_set_field(k, i, w.field, w.value).ctrl)
<1> DEFINE c   == k.channels[i]
           set == vc_channel_set_field(c, w.field, w.value)
           on  == vc_channel_output_action(set.ch, "ENABLE")
<1>1. /\ w.field \in DOMAIN DefaultConfig
      /\ field_valid(w.field, w.value) =>
             [DefaultConfig EXCEPT ![w.field] = w.value] \in VcChannelConfig
  BY ControllerAssumption DEF ConfigFields
<1>2. Good(c) /\ c \in VcChannel
  BY DEF ControllerInv, Good, Sound
<1>3. /\ Good(set.ch) /\ Follows(c, set.ch) /\ StaysLit(c, set.ch)
      /\ set.ch.active_fault_cause = c.active_fault_cause
  <2> HIDE DEF c
  <2> QED BY <1>1, <1>2, SetFieldKeeps, SetFieldFollows DEF Keeps
<1>4. set.ch.active_fault_cause = {} => Follows(c, on.ch) /\ StaysLit(c, on.ch)
  <2> SUFFICES ASSUME set.ch.active_fault_cause = {}
               PROVE  Follows(c, on.ch) /\ StaysLit(c, on.ch)
    OBVIOUS
  <2> HIDE DEF set, c
  <2>1. Good(on.ch) /\ Follows(set.ch, on.ch) /\ on.ch.output_enabled
    BY <1>3, OutputActionKeeps, OutputActionFollows, EnableObeyed DEF Keeps
  <2> HIDE DEF on
  <2>2. Follows(c, on.ch)
    BY <1>2, <1>3, <2>1, FollowsTwice DEF Good, Sound
  <2> QED BY <2>1, <2>2 DEF StaysLit
<1>5. \/ vc_controller_channel_set_field(k, i, w.field, w.value) = OnChannel(k, i, set)
      \/ /\ set.ch.active_fault_cause = {}
         /\ vc_controller_channel_set_field(k, i, w.field, w.value) = OnChannel(k, i, on)
  BY DEF vc_controller_channel_set_field
<1> HIDE DEF set, on
<1> QED BY <1>3, <1>4, <1>5, OnChannelStep

\* A calibration command.
LEMMA CalCommandStep ==
    ASSUME NEW k, ControllerInv(k), NEW i \in Channels, NEW reply,
           Follows(k.channels[i], reply.ch)
    PROVE  Step(k, cal_command(k, i, reply).ctrl)
<1> DEFINE r == cal_watchdog_reset(k)
           m == cal_command(k, i, reply).ctrl
<1>1. CASE k.operating_mode # "CALIBRATION"
  BY <1>1, IdleStep DEF cal_command, Answer
<1>2. CASE k.operating_mode = "CALIBRATION"
  <2>1. /\ m.channels = [k.channels EXCEPT ![i] = reply.ch]
        /\ m.operating_mode = k.operating_mode
    BY <1>2 DEF cal_command, OnChannel, Answer, cal_watchdog_reset, ControllerInv,
                VcControllerState
  <2> HIDE DEF m
  <2> QED BY <1>2, <2>1, OneChannelStep DEF m
<1> QED BY <1>1, <1>2

\* Loading the calibration of a channel, after its configuration or not.
LEMMA LoadCalStep ==
    ASSUME NEW k, ControllerInv(k), NEW i \in Channels, NEW set, Good(set.ch),
           Follows(k.channels[i], set.ch), StaysLit(k.channels[i], set.ch),
           set.ch.active_fault_cause = k.channels[i].active_fault_cause,
           NEW cal \in VcChannelCalConfig \cup {NoRecord}
    PROVE  LET m == load_cal(OnChannel(k, i, set).ctrl, i, cal)
           IN  Step(k, m) /\ SameFaults(k, m) /\ m.operating_mode = k.operating_mode
<1> DEFINE d == IF cal = NoRecord THEN set.ch ELSE vc_channel_load_cal(set.ch, cal)
           m == load_cal(OnChannel(k, i, set).ctrl, i, cal)
<1>1. k.channels[i] \in VcChannel /\ set.ch \in VcChannel
  BY DEF ControllerInv, Good, Sound
<1>2. /\ Good(d) /\ Follows(set.ch, d) /\ StaysLit(set.ch, d)
      /\ d.active_fault_cause = set.ch.active_fault_cause
  <2>1. CASE cal = NoRecord
    BY <1>1, <2>1, SameFollows DEF SameControl
  <2>2. CASE cal # NoRecord
    <3>1. cal \in VcChannelCalConfig
      BY <2>2
    <3>2. d = vc_channel_load_cal(set.ch, cal)
      BY <2>2
    <3> HIDE DEF d
    <3> QED BY <3>1, <3>2, LoadCalKeeps, CalWriteFollows DEF Keeps, vc_channel_load_cal
  <2> QED BY <2>1, <2>2
<1>3. m.channels = [k.channels EXCEPT ![i] = d] /\ m.operating_mode = k.operating_mode
  <2>1. CASE cal = NoRecord
    BY <2>1 DEF load_cal, OnChannel, Answer, ControllerInv, VcControllerState
  <2>2. CASE cal # NoRecord
    BY <2>2 DEF load_cal, OnChannel, Answer, ControllerInv, VcControllerState
  <2> QED BY <2>1, <2>2
<1> HIDE DEF d, m
<1>4. Follows(k.channels[i], d)
  BY <1>1, <1>2, FollowsTwice DEF Good, Sound
<1>5. StaysLit(k.channels[i], d)
  BY <1>2 DEF StaysLit, Follows
<1>6. Step(k, m)
  BY <1>3, <1>4, <1>5, OneChannelStep
<1>7. SameFaults(k, m)
  BY <1>2, <1>3 DEF SameFaults, ControllerInv, VcControllerState
<1> QED BY <1>3, <1>6, <1>7 DEF m

\* Loading or resetting a channel.
LEMMA LoadChannelStep ==
    ASSUME NEW k, ControllerInv(k), NEW i \in Channels,
           NEW cfg \in VcChannelConfig \cup {NoRecord},
           NEW cal \in VcChannelCalConfig \cup {NoRecord}
    PROVE  /\ LET m == load_channel(k, i, cfg, cal).ctrl
              IN  Step(k, m) /\ SameFaults(k, m)
           /\ LET m == reset_channel(k, i, cal).ctrl
              IN  Step(k, m) /\ SameFaults(k, m)
<1>1. k \in VcControllerState /\ Good(k.channels[i]) /\ k.channels[i] \in VcChannel
  BY DEF ControllerInv, Good, Sound
<1>2. Step(k, k) /\ SameFaults(k, k)
  BY IdleStep
<1>3. ASSUME NEW new \in VcChannelConfig
      PROVE  LET m == load_cal(OnChannel(k, i, vc_channel_set_config(k.channels[i], new)).ctrl,
                               i, cal)
             IN  Step(k, m) /\ SameFaults(k, m)
  <2> DEFINE set == vc_channel_set_config(k.channels[i], new)
  <2>1. /\ Good(set.ch) /\ Follows(k.channels[i], set.ch) /\ StaysLit(k.channels[i], set.ch)
        /\ set.ch.active_fault_cause = k.channels[i].active_fault_cause
    BY <1>1, SetConfigKeeps, SetConfigFollows DEF Keeps
  <2> HIDE DEF set
  <2> QED BY <2>1, LoadCalStep DEF set
<1>4. Step(k, load_cal(k, i, cal)) /\ SameFaults(k, load_cal(k, i, cal))
  <2> DEFINE same == Reply("OK", k.channels[i])
  <2>1. OnChannel(k, i, same).ctrl = k /\ same.ch = k.channels[i]
    BY <1>1 DEF OnChannel, Answer, Reply, VcControllerState
  <2>2. Follows(k.channels[i], k.channels[i]) /\ StaysLit(k.channels[i], k.channels[i])
    BY <1>1, SameFollows DEF SameControl
  <2> HIDE DEF same
  <2> QED BY <1>1, <2>1, <2>2, LoadCalStep
<1>5. DefaultConfig \in VcChannelConfig
  BY ChannelAssumption
<1>6. LET m == reset_channel(k, i, cal).ctrl
      IN  Step(k, m) /\ SameFaults(k, m)
  BY <1>2, <1>3, <1>5 DEF reset_channel, Answer
<1>7. CASE cfg = NoRecord
  BY <1>4, <1>6, <1>7 DEF load_channel, Answer
<1>8. CASE cfg # NoRecord
  <2>1. cfg \in VcChannelConfig
    BY <1>8
  <2> QED BY <1>2, <1>3, <1>6, <1>8, <2>1 DEF load_channel, Answer
<1> QED BY <1>7, <1>8

\* The boot sequence leads every channel there from its defaults, without a fault,
\* and obeys the stored mode.
LEMMA AutoLoadStep ==
    ASSUME NEW s \in Settings
    PROVE  LET m == auto_load(s)
           IN  /\ \A i \in Channels : /\ Follows(boot_channel(i), m.channels[i])
                                      /\ m.channels[i].active_fault_cause = {}
                                      /\ m.channels[i].operational_target_voltage = 0
               /\ m.operating_mode = "AUTOMATIC" => \A i \in Channels :
                      wants_output(m.channels[i]) =>
                          m.channels[i].output_enabled /\ m.channels[i].hw.enable
<1> DEFINE k == vc_controller_init
           l == Loaded(s)
           m == auto_load(s)
<1>1. ControllerInv(k) /\ ControllerInv(l) /\ LoadedSystem(s) \in VcSystemConfig
  BY InitInv, LoadedInv
<1>2. \A i \in Channels : /\ k.channels[i] = boot_channel(i)
                          /\ boot_channel(i).active_fault_cause = {}
                          /\ boot_channel(i).operational_target_voltage = 0
  BY DEF vc_controller_init, boot_channel, vc_channel_init
<1>3. l.operating_mode = "NORMAL"
  BY DEF Loaded, vc_controller_init
<1>4. \A i \in Channels :
          l.channels[i] \in {load_channel(k, i, s.cfg[i], s.cal[i]).ctrl.channels[i],
                             reset_channel(k, i, s.cal[i]).ctrl.channels[i]}
  BY DEF Loaded, vc_controller_init
<1> HIDE DEF k, l
<1>5. ASSUME NEW i \in Channels
      PROVE  /\ Follows(boot_channel(i), l.channels[i])
             /\ l.channels[i].active_fault_cause = {}
  <2>1. s.cfg[i] \in VcChannelConfig \cup {NoRecord} /\ s.cal[i] \in VcChannelCalConfig \cup {NoRecord}
    BY DEF Settings
  <2>2. ASSUME NEW n, Step(k, n), SameFaults(k, n)
        PROVE  /\ Follows(boot_channel(i), n.channels[i])
               /\ n.channels[i].active_fault_cause = {}
    BY <1>2, <2>2 DEF Step, SameFaults
  <2>3. \A n \in {load_channel(k, i, s.cfg[i], s.cal[i]).ctrl,
                  reset_channel(k, i, s.cal[i]).ctrl} : Step(k, n) /\ SameFaults(k, n)
    BY <1>1, <2>1, LoadChannelStep
  <2> QED BY <1>4, <2>2, <2>3
<1>6. Step(l, m) /\ SameFaults(l, m) /\ ControllerInv(m)
  BY <1>1, AutoLoadPhases, AutoLoadInv, SetSystemConfigStep DEF l
<1> HIDE DEF m
<1>7. \A i \in Channels : boot_channel(i) \in VcChannel /\ l.channels[i] \in VcChannel
                       /\ m.channels[i] \in VcChannel
  BY <1>1, <1>2, <1>6 DEF ControllerInv, Good, Sound
<1>8. \A i \in Channels : /\ Follows(boot_channel(i), m.channels[i])
                          /\ m.channels[i].active_fault_cause = {}
  <2> SUFFICES ASSUME NEW i \in Channels
               PROVE  /\ Follows(boot_channel(i), m.channels[i])
                      /\ m.channels[i].active_fault_cause = {}
    OBVIOUS
  <2>1. Follows(l.channels[i], m.channels[i]) /\ m.channels[i].active_fault_cause = {}
    BY <1>5, <1>6 DEF Step, SameFaults
  <2> QED BY <1>2, <1>5, <1>7, <2>1, FollowsTwice
<1>9. m.operating_mode = "AUTOMATIC" => \A i \in Channels :
          wants_output(m.channels[i]) =>
              m.channels[i].output_enabled /\ m.channels[i].hw.enable
  BY <1>3, <1>6, <1>8 DEF Step, Lights
<1> QED BY <1>2, <1>8, <1>9 DEF m, Follows, Holds

\* Every command of the worker takes a step.
LEMMA CommandSteps ==
    ASSUME Inv, OutputCommand \/ OtherCommand
    PROVE  Step(ctrl, ctrl')
<1>0. ControllerInv(ctrl) /\ nvs \in Settings /\ Step(ctrl, ctrl)
  BY IdleStep DEF Inv
<1>1. ASSUME NEW i \in Channels, NEW action \in HostOutputActions, OutputAction(i, action)
      PROVE  Step(ctrl, ctrl')
  BY <1>0, <1>1, OutputActionStep DEF OutputAction
<1>2. ASSUME NEW mode \in HostModes, SetOperatingMode(mode)
      PROVE  Step(ctrl, ctrl')
  BY <1>0, <1>2, SetModeStep DEF SetOperatingMode
<1>3. ASSUME NEW policy \in HostPolicies, SetStartupPolicy(policy)
      PROVE  Step(ctrl, ctrl')
  <2>1. [ctrl.sys_cfg EXCEPT !.startup_channel_policy = policy] \in VcSystemConfig
    BY <1>0, ControllerAssumption DEF ControllerInv, VcControllerState, VcSystemConfig
  <2> QED BY <1>0, <1>3, <2>1, SetSystemConfigStep DEF SetStartupPolicy
<1>4. ASSUME NEW value \in {"CAL_UNLOCK_STEP1", "CAL_UNLOCK_STEP2", "OTHER"},
             CalibrationUnlock(value)
      PROVE  Step(ctrl, ctrl')
  <2>1. /\ ctrl'.channels = ctrl.channels /\ ctrl'.operating_mode = ctrl.operating_mode
    BY <1>0, <1>4 DEF CalibrationUnlock, vc_controller_calibration_unlock, Answer,
                      ControllerInv, VcControllerState
  <2> QED BY <1>0, <2>1, IdleStep
<1>5. CASE CalExit
  BY <1>0, <1>5, CalExitStep DEF CalExit
<1>6. CASE SystemSave
  BY <1>0, <1>6 DEF SystemSave
<1>7. CASE SystemLoad
  <2>1. PICK r \in ReadKey(nvs.sys) :
            ctrl' = IF r = NoRecord THEN ctrl
                    ELSE vc_controller_set_system_config(ctrl, r).ctrl
    BY <1>7 DEF SystemLoad
  <2>2. r \in VcSystemConfig \cup {NoRecord}
    BY <1>0 DEF ReadKey, Settings
  <2> QED BY <1>0, <2>1, <2>2, SetSystemConfigStep
<1>8. CASE SystemFactoryReset
  <2>1. ctrl'.channels = ctrl.channels /\ ctrl'.operating_mode = "NORMAL"
    BY <1>0, <1>8 DEF SystemFactoryReset, reset_system, ControllerInv, VcControllerState
  <2>2. \A i \in Channels : /\ Follows(ctrl.channels[i], ctrl'.channels[i])
                            /\ StaysLit(ctrl.channels[i], ctrl'.channels[i])
    BY <1>0, <2>1, SameFollows DEF ControllerInv, Good, Sound, SameControl
  <2> QED BY <2>1, <2>2 DEF Step, Lights
<1>9. ASSUME NEW i \in Channels, NEW cmd \in HostFaultCommands, FaultCommand(i, cmd)
      PROVE  Step(ctrl, ctrl')
  <2>1. LET d == vc_channel_fault_command(ctrl.channels[i], cmd).ch
        IN  Follows(ctrl.channels[i], d) /\ StaysLit(ctrl.channels[i], d)
    BY <1>0, FaultCommandFollows DEF ControllerInv
  <2> QED BY <1>0, <1>9, <2>1, OnChannelStep DEF FaultCommand
<1>10. ASSUME NEW i \in Channels, NEW w \in HostWrites, SetChannelField(i, w)
       PROVE  Step(ctrl, ctrl')
  BY <1>0, <1>10, SetFieldStep DEF SetChannelField
<1>11. ASSUME NEW i \in Channels, NEW w \in HostCalWrites, SetCalField(i, w)
       PROVE  Step(ctrl, ctrl')
  <2>1. /\ w.field \in DOMAIN DefaultCal
        /\ \/ w.field \in CalExpFields /\ w.value \notin CalExp
           \/ [DefaultCal EXCEPT ![w.field] = w.value] \in VcChannelCalConfig
    BY ControllerAssumption DEF CalFields
  <2>2. Follows(ctrl.channels[i],
                vc_channel_set_cal_field(ctrl.channels[i], w.field, w.value).ch)
    BY <1>0, <2>1, SetCalFieldFollows DEF ControllerInv
  <2> QED BY <1>0, <1>11, <2>2, CalCommandStep DEF SetCalField
<1>12. ASSUME NEW i \in Channels, NEW enable \in BOOLEAN, CalOutputEnable(i, enable)
       PROVE  Step(ctrl, ctrl')
  <2>1. Follows(ctrl.channels[i],
                vc_channel_cal_set_output_enable(ctrl.channels[i], enable).ch)
    <3>1. 0 \in Nat
      OBVIOUS
    <3> QED BY <1>0, <3>1, CalOutputFollows DEF ControllerInv
  <2>2. Step(ctrl, cal_command(ctrl, i,
                 vc_channel_cal_set_output_enable(ctrl.channels[i], enable)).ctrl)
    BY <1>0, <2>1, CalCommandStep
  <2> QED BY <1>0, <1>12, <2>2 DEF CalOutputEnable, vc_controller_channel_cal_output_enable,
                                   Answer
<1>13. ASSUME NEW i \in Channels, NEW code \in HostRawDacs, CalRawDac(i, code)
       PROVE  Step(ctrl, ctrl')
  <2>1. code \in Nat /\ TRUE \in BOOLEAN
    BY ControllerAssumption
  <2>2. Follows(ctrl.channels[i], vc_channel_cal_set_raw_dac(ctrl.channels[i], code).ch)
    BY <1>0, <2>1, CalOutputFollows DEF ControllerInv
  <2> QED BY <1>0, <1>13, <2>2, CalCommandStep DEF CalRawDac
<1>14. ASSUME NEW i \in Channels, CalSample(i) \/ CalCommit(i)
       PROVE  Step(ctrl, ctrl')
  <2>1. Follows(ctrl.channels[i], ctrl.channels[i])
    BY <1>0 DEF Step
  <2>2. /\ vc_channel_cal_sample(ctrl.channels[i]).ch = ctrl.channels[i]
        /\ vc_channel_cal_commit(ctrl.channels[i]).ch = ctrl.channels[i]
    BY DEF vc_channel_cal_sample, vc_channel_cal_commit, Reply
  <2>3. /\ Step(ctrl, cal_command(ctrl, i, vc_channel_cal_sample(ctrl.channels[i])).ctrl)
        /\ Step(ctrl, cal_command(ctrl, i, vc_channel_cal_commit(ctrl.channels[i])).ctrl)
    BY <1>0, <2>1, <2>2, CalCommandStep
  <2> QED BY <1>14, <2>3 DEF CalSample, CalCommit
<1>15. ASSUME NEW i \in Channels, ChannelSave(i)
       PROVE  Step(ctrl, ctrl')
  BY <1>0, <1>15 DEF ChannelSave
<1>16. ASSUME NEW i \in Channels, ChannelLoad(i) \/ ChannelFactoryReset(i)
       PROVE  Step(ctrl, ctrl')
  <2>1. /\ nvs.cfg[i] \in VcChannelConfig \cup {NoRecord}
        /\ \A cal \in ReadKey(nvs.cal[i]) : cal \in VcChannelCalConfig \cup {NoRecord}
    BY <1>0 DEF Settings, ReadKey
  <2>2. \A cal \in ReadKey(nvs.cal[i]) :
            /\ Step(ctrl, load_channel(ctrl, i, nvs.cfg[i], cal).ctrl)
            /\ Step(ctrl, reset_channel(ctrl, i, cal).ctrl)
    BY <1>0, <2>1, LoadChannelStep
  <2> QED BY <1>0, <1>16, <2>2 DEF ChannelLoad, ChannelFactoryReset
<1> QED BY <1>1, <1>2, <1>3, <1>4, <1>5, <1>6, <1>7, <1>8, <1>9, <1>10, <1>11, <1>12,
           <1>13, <1>14, <1>15, <1>16 DEF OutputCommand, OtherCommand

\* Every action takes a step, or resets the board.
LEMMA NextSteps ==
    ASSUME Inv, [Next]_vars
    PROVE  Passes(ctrl, ctrl') \/ (Reboot /\ \E s \in Settings : ctrl' = auto_load(s))
<1>0. ControllerInv(ctrl)
  BY DEF Inv
<1>1. CASE OutputCommand \/ OtherCommand
  BY <1>0, <1>1, CommandSteps, StepPasses
<1>2. ASSUME NEW dt \in TickLengths, Tick(dt) PROVE Passes(ctrl, ctrl')
  <2>1. PICK v \in [Channels -> RawVoltages \cup {NoSample}],
             c \in [Channels -> RawCurrents \cup {NoSample}] :
            ctrl' = vc_controller_tick(ctrl, dt, v, c)
    BY <1>2 DEF Tick
  <2>2. /\ dt \in Nat
        /\ v \in [Channels -> Int \cup {NoSample}]
        /\ c \in [Channels -> Int \cup {NoSample}]
    BY ControllerAssumption
  <2> QED BY <1>0, <2>1, <2>2, TickStep
<1>3. CASE DriverFault
  <2>1. PICK i \in Channels, cause \in DriverFaults : ConsumeFault(i, cause)
    BY <1>3 DEF DriverFault
  <2>2. cause \in FaultCauses
    BY ControllerAssumption
  <2> DEFINE d == vc_channel_consume_fault(ctrl.channels[i], cause)
  <2>3. Follows(ctrl.channels[i], d) /\ StaysLit(ctrl.channels[i], d)
    BY <1>0, <2>2, ConsumeFaultFollows DEF ControllerInv
  <2>4. /\ ctrl'.channels = [ctrl.channels EXCEPT ![i] = d]
        /\ ctrl'.operating_mode = ctrl.operating_mode
    BY <1>0, <2>1 DEF ConsumeFault, ControllerInv, VcControllerState
  <2> HIDE DEF d
  <2> QED BY <1>0, <2>3, <2>4, OneChannelStep, StepPasses
<1>4. CASE Reboot
  <2>1. PICK s \in ReadAll(nvs) : ctrl' = auto_load(s)
    BY <1>4 DEF Reboot
  <2> QED BY <1>4, <2>1, ReadAllType DEF Inv
<1>5. CASE UNCHANGED vars
  BY <1>0, <1>5, IdleStep, StepPasses DEF vars
<1> QED BY <1>1, <1>2, <1>3, <1>4, <1>5 DEF Next

(***************************************************************************)
(* What follows from the steps                                             *)
(***************************************************************************)
\* Channel i is what the devicetree made it: its capabilities, a configuration
\* that it would accept at boot, and, without a switch, nothing that can turn
\* it off.
Built(c, i) ==
    /\ c.capabilities = CapabilitiesOf[i]
    /\ vc_channel_set_config(boot_channel(i), c.config).st = "OK"
    /\ {"OUTPUT_ENABLE", "RAW_OUTPUT_DRIVE"} \cap CapabilitiesOf[i] = {} => AlwaysOn(c)

BuiltInv == \A i \in Channels : Built(ctrl.channels[i], i)

\* The defaults of a channel are among its configurations.
LEMMA BootBuilt ==
    ASSUME NEW i \in Channels
    PROVE  /\ Built(boot_channel(i), i)
           /\ boot_channel(i).capabilities = CapabilitiesOf[i]
<1> DEFINE b == boot_channel(i)
<1>1. /\ b.capabilities = CapabilitiesOf[i] /\ b.config = boot_config(i)
      /\ Accepted(CapabilitiesOf[i], boot_config(i), boot_config(i))
      /\ {"OUTPUT_ENABLE", "RAW_OUTPUT_DRIVE"} \cap CapabilitiesOf[i] = {} => AlwaysOn(b)
  <2>1. CapabilitiesOf[i] \in SUBSET Capabilities
    BY ControllerAssumption
  <2> QED BY <2>1, BootConfigType, InitControl DEF boot_channel
<1>2. vc_channel_set_config(b, b.config).st = "OK"
  <2> HIDE DEF b
  <2> QED BY <1>1, SetConfigAccepts
<1> HIDE DEF b
<1> QED BY <1>1, <1>2 DEF Built, b

\* A step keeps a channel what it was built.
LEMMA FollowsBuilt ==
    ASSUME NEW i \in Channels, NEW c, Built(c, i), NEW d,
           Follows(c, d) \/ Ticks(c, d)
    PROVE  Built(d, i)
BY BootBuilt DEF Built, Follows, Ticks, Configured

\* The boot sequence leaves every channel as it was built.
LEMMA AutoLoadBuilt ==
    ASSUME NEW s \in Settings, NEW i \in Channels
    PROVE  Built(auto_load(s).channels[i], i)
BY AutoLoadStep, BootBuilt, FollowsBuilt

\* Every behaviour keeps the channels what they were built.
THEOREM BuiltInvariance == Spec => []BuiltInv
<1>1. Init => BuiltInv
  <2>1. Init => nvs \in Settings /\ ctrl = auto_load(nvs)
    BY ControllerAssumption DEF Init
  <2> QED BY <2>1, AutoLoadBuilt DEF BuiltInv
<1>2. BuiltInv /\ Inv /\ [Next]_vars => BuiltInv'
  <2> SUFFICES ASSUME BuiltInv, Inv, [Next]_vars, NEW i \in Channels
               PROVE  Built(ctrl'.channels[i], i)
    BY DEF BuiltInv
  <2>1. CASE Passes(ctrl, ctrl')
    BY <2>1, FollowsBuilt DEF Passes, BuiltInv
  <2>2. CASE \E s \in Settings : ctrl' = auto_load(s)
    BY <2>2, AutoLoadBuilt
  <2> QED BY <2>1, <2>2, NextSteps
<1> QED BY <1>1, <1>2, Invariance, PTL DEF Spec

\* The storage holds a configuration only if the channel had it.
LEMMA StoredConfig ==
    ASSUME Inv, [Next]_vars, NEW i \in Channels
    PROVE  nvs'.cfg[i] \in {nvs.cfg[i], ctrl.channels[i].config, NoRecord}
<1>1. nvs \in Settings /\ nvs.cfg \in [Channels -> VcChannelConfig \cup {NoRecord}]
  BY DEF Inv, Settings
<1>2. CASE UNCHANGED nvs
  BY <1>2
<1>3. CASE SystemSave
  BY <1>1, <1>3 DEF SystemSave, Settings
<1>4. CASE SystemFactoryReset
  BY <1>1, <1>4 DEF SystemFactoryReset
<1>5. ASSUME NEW j \in Channels, ChannelSave(j)
      PROVE  nvs'.cfg[i] \in {nvs.cfg[i], ctrl.channels[i].config, NoRecord}
  BY <1>1, <1>5 DEF ChannelSave, Settings
<1>6. ASSUME NEW j \in Channels, CalCommit(j)
      PROVE  nvs'.cfg[i] \in {nvs.cfg[i], ctrl.channels[i].config, NoRecord}
  BY <1>1, <1>6 DEF CalCommit, Settings
<1> QED BY <1>2, <1>3, <1>4, <1>5, <1>6
      DEF Next, OutputCommand, OtherCommand, DriverFault, vars, OutputAction,
          SetOperatingMode, SetStartupPolicy, CalibrationUnlock, CalExit, SystemLoad,
          FaultCommand, SetChannelField, SetCalField, CalOutputEnable, CalRawDac,
          CalSample, ChannelLoad, ChannelFactoryReset, Tick, ConsumeFault, Reboot

\* The storage holds, at the first boot, configurations that this board accepts.
CommissionedHere ==
    \A s \in Commissioned, i \in Channels :
        s.cfg[i] # NoRecord => vc_channel_set_config(boot_channel(i), s.cfg[i]).st = "OK"

\* What a channel saves it can load: no sequence of vc_channel_set_field, loads and
\* resets leads to a configuration that vc_channel_set_config refuses at boot.
THEOREM SavedConfigsLoad == CommissionedHere => (Spec => []SavedConfigLoads)
<1> SUFFICES ASSUME CommissionedHere PROVE Spec => []SavedConfigLoads
  OBVIOUS
<1>1. Init => SavedConfigLoads
  BY DEF Init, CommissionedHere, SavedConfigLoads
<1>2. SavedConfigLoads /\ Inv /\ BuiltInv /\ [Next]_vars => SavedConfigLoads'
  <2> SUFFICES ASSUME SavedConfigLoads, Inv, BuiltInv, [Next]_vars, NEW i \in Channels,
                      nvs'.cfg[i] # NoRecord
               PROVE  vc_channel_set_config(boot_channel(i), nvs'.cfg[i]).st = "OK"
    BY DEF SavedConfigLoads
  <2>1. nvs'.cfg[i] \in {nvs.cfg[i], ctrl.channels[i].config, NoRecord}
    BY StoredConfig
  <2> QED BY <2>1 DEF SavedConfigLoads, BuiltInv, Built
<1> QED BY <1>1, <1>2, Invariance, BuiltInvariance, PTL DEF Spec

\* The target the hardware is driven with leaves the variant's range, or moves
\* farther out of it, only by the 16-bit arithmetic of a ramp: for every step and
\* interval a host may write, and whatever is written while the ramp goes on.
THEOREM TargetsKeepRange == Spec => TargetKeepsRange
<1>1. Inv /\ Inv' /\ [Next]_vars =>
          [\A i \in Channels :
              LET c == ctrl.channels[i]
                  d == ctrl'.channels[i]
                  from == c.operational_target_voltage
                  to   == d.operational_target_voltage
              IN  /\ d.recovery_target \in 0 .. MaxTarget
                  /\ to > MaxTarget /\ to > from => c.config.ramp_down_step > IntMax
                  /\ to < 0 /\ to < from =>
                         c.config.ramp_up_step > IntMax - MaxTarget]_vars
  <2> SUFFICES ASSUME Inv, Inv', [Next]_vars, NEW i \in Channels
               PROVE  /\ ctrl'.channels[i].recovery_target \in 0 .. MaxTarget
                      /\ KeepsRange(ctrl.channels[i],
                                    ctrl'.channels[i].operational_target_voltage)
    BY DEF KeepsRange
  <2>1. ctrl'.channels[i].recovery_target \in 0 .. MaxTarget
    BY DEF Inv, ControllerInv, Good, Sound
  <2>2. CASE Passes(ctrl, ctrl')
    BY <2>1, <2>2 DEF Passes, Ticks, Moves
  <2>3. CASE \E s \in Settings : ctrl' = auto_load(s)
    <3>1. ctrl'.channels[i].operational_target_voltage = 0 /\ MaxTarget \in Nat
      BY <2>3, AutoLoadStep, Int16Facts
    <3> QED BY <2>1, <3>1 DEF KeepsRange
  <2> QED BY <2>2, <2>3, NextSteps
<1> QED BY <1>1, Invariance, PTL DEF Spec, TargetKeepsRange

\* A fault that stays active keeps the target from rising, whatever commands, ticks
\* and mode changes come: only the ramp of a graceful disable goes on, and that one
\* raises the target to zero at most, unless its step is negative as an int16_t.
THEOREM FaultsHoldTarget == Spec => NoRiseWhileFaulted
<1>1. Inv /\ [Next]_vars =>
          [\A i \in Channels :
              LET c == ctrl.channels[i]
                  d == ctrl'.channels[i]
                  from == c.operational_target_voltage
                  to   == d.operational_target_voltage
              IN  c.active_fault_cause # {} /\ d.active_fault_cause # {} /\ to > from =>
                      \/ to <= 0
                      \/ from > 0 /\ c.config.ramp_down_step > IntMax]_vars
  <2> SUFFICES ASSUME Inv, [Next]_vars, NEW i \in Channels,
                      ctrl.channels[i].active_fault_cause # {},
                      ctrl'.channels[i].active_fault_cause # {}
               PROVE  Falls(ctrl.channels[i], ctrl'.channels[i].operational_target_voltage)
    BY DEF Falls
  <2>1. CASE Passes(ctrl, ctrl')
    BY <2>1 DEF Passes, Ticks, Moves
  <2>2. CASE \E s \in Settings : ctrl' = auto_load(s)
    BY <2>2, AutoLoadStep
  <2> QED BY <2>1, <2>2, NextSteps
<1> QED BY <1>1, Invariance, PTL DEF Spec, NoRiseWhileFaulted

\* Every switch into AUTOMATIC, by a command, by the end of a calibration session, by
\* its watchdog or at boot, leaves each fault-free channel that wants output with it.
THEOREM AutomaticEnables == Spec => EnterAutomaticEnables
<1>1. Inv /\ [Next]_vars =>
          [ctrl.operating_mode # "AUTOMATIC" /\ ctrl'.operating_mode = "AUTOMATIC" =>
              \A i \in Channels :
                  LET c == ctrl'.channels[i]
                  IN  wants_output(c) /\ c.active_fault_cause = {} =>
                          c.output_enabled /\ c.hw.enable]_vars
  <2> SUFFICES ASSUME Inv, [Next]_vars, NEW i \in Channels,
                      ctrl.operating_mode # "AUTOMATIC", ctrl'.operating_mode = "AUTOMATIC",
                      wants_output(ctrl'.channels[i]),
                      ctrl'.channels[i].active_fault_cause = {}
               PROVE  ctrl'.channels[i].output_enabled /\ ctrl'.channels[i].hw.enable
    OBVIOUS
  <2>1. CASE Passes(ctrl, ctrl')
    BY <2>1 DEF Passes, Lights
  <2>2. CASE \E s \in Settings : ctrl' = auto_load(s)
    BY <2>2, AutoLoadStep
  <2> QED BY <2>1, <2>2, NextSteps
<1> QED BY <1>1, Invariance, PTL DEF Spec, EnterAutomaticEnables

\* A channel that cannot be switched has a fixed voltage.
LockedAreFixed ==
    \A i \in Channels :
        "OUTPUT_ENABLE" \notin CapabilitiesOf[i] => "RAW_OUTPUT_DRIVE" \notin CapabilitiesOf[i]

\* A channel that is built always on goes dark only for a fault, for a calibration
\* session or at a reset.
THEOREM LockedChannelsStayOn == LockedAreFixed => (Spec => LockedStaysOn)
<1> SUFFICES ASSUME LockedAreFixed PROVE Spec => LockedStaysOn
  OBVIOUS
<1>1. Inv /\ Inv' /\ BuiltInv /\ [Next]_vars =>
          [\A i \in Channels :
              /\ "OUTPUT_ENABLE" \notin CapabilitiesOf[i]
              /\ ctrl.channels[i].hw.enable
              /\ ~ctrl'.channels[i].hw.enable
              => \/ ctrl'.channels[i].active_fault_cause # {}
                 \/ "CALIBRATION" \in {ctrl.operating_mode, ctrl'.operating_mode}
                 \/ Reboot]_vars
  <2> SUFFICES ASSUME Inv, Inv', BuiltInv, [Next]_vars, NEW i \in Channels,
                      "OUTPUT_ENABLE" \notin CapabilitiesOf[i],
                      ctrl.channels[i].hw.enable,
                      ctrl'.channels[i].active_fault_cause = {},
                      "CALIBRATION" \notin {ctrl.operating_mode, ctrl'.operating_mode},
                      ~Reboot
               PROVE  ctrl'.channels[i].hw.enable
    OBVIOUS
  <2>1. Passes(ctrl, ctrl')
    BY NextSteps
  <2>2. AlwaysOn(ctrl.channels[i])
    BY DEF BuiltInv, Built, LockedAreFixed
  <2>3. ctrl'.channels[i].output_enabled
    BY <2>1, <2>2 DEF Passes, Lights, StaysLit, AlwaysOn
  <2>4. Fresh(ctrl'.channels[i])
    BY DEF Inv, ControllerInv, Good
  <2> QED BY <2>3, <2>4 DEF Fresh, hw_command
<1> QED BY <1>1, Invariance, BuiltInvariance, PTL DEF Spec, LockedStaysOn

(***************************************************************************)
(* The retry budget                                                        *)
(***************************************************************************)
\* The history h of a channel witnesses the retries r that an observer saw: its
\* entries, from the youngest, seem at most as old as theirs, and it lacks one only if
\* it is full.  It may seem younger: its clock wraps, and stands still in calibration.
Witnesses(h, r) ==
    /\ r \in Seq(Nat)
    /\ \A j, k \in 1 .. Len(r) : j <= k => r[k] <= r[j]
    /\ Len(h) < Len(r) => Len(h) = MaxRetryHistory
    /\ \A j \in 1 .. Len(h), k \in 1 .. Len(r) : Len(h) - j = Len(r) - k => h[j] <= r[k]

\* A function on 1 .. n is a sequence of length n.
LEMMA IndexedSeq ==
    ASSUME NEW S, NEW n \in Nat, NEW f \in [1 .. n -> S]
    PROVE  f \in Seq(S) /\ Len(f) = n
OBVIOUS

Histories == {h \in Seq(0 .. UptimeMod - 1) : Len(h) <= MaxRetryHistory}

\* Time passes for the observer, and for the history or not.
LEMMA OlderWitnessed ==
    ASSUME NEW h \in Histories, NEW r, Witnesses(h, r), NEW dt \in Nat
    PROVE  /\ Witnesses(h, Older(r, dt))
           /\ Witnesses([k \in DOMAIN h |-> (h[k] + dt) % UptimeMod], Older(r, dt))
<1> DEFINE o == Older(r, dt)
           a == [k \in DOMAIN h |-> (h[k] + dt) % UptimeMod]
<1>1. /\ h \in Seq(Nat) /\ Len(h) \in Nat /\ DOMAIN h = 1 .. Len(h)
      /\ r \in Seq(Nat) /\ Len(r) \in Nat /\ DOMAIN r = 1 .. Len(r)
      /\ \A k \in 1 .. Len(h) : h[k] \in Nat
      /\ \A k \in 1 .. Len(r) : r[k] \in Nat
      /\ UptimeMod \in Nat \ {0}
  BY Int16Facts DEF Histories, Witnesses
<1>2. o \in Seq(Nat) /\ Len(o) = Len(r) /\ \A k \in 1 .. Len(r) : o[k] = r[k] + dt
  <2>1. o \in [1 .. Len(r) -> Nat] /\ \A k \in 1 .. Len(r) : o[k] = r[k] + dt
    BY <1>1 DEF Older
  <2> HIDE DEF o
  <2> QED BY <1>1, <2>1, IndexedSeq
<1>3. Len(a) = Len(h) /\ \A k \in 1 .. Len(h) : a[k] \in Nat /\ a[k] <= h[k] + dt
  <2>1. ASSUME NEW n \in Nat PROVE n % UptimeMod \in Nat /\ n % UptimeMod <= n
    <3>1. n % UptimeMod \in 0 .. UptimeMod - 1
      BY <1>1
    <3>2. n < UptimeMod => n % UptimeMod = n
      BY <1>1, SmallMod
    <3> QED BY <1>1, <3>1, <3>2
  <2>2. a \in [1 .. Len(h) -> Nat] /\ \A k \in 1 .. Len(h) : a[k] = (h[k] + dt) % UptimeMod
    BY <1>1, <2>1
  <2> HIDE DEF a
  <2>3. Len(a) = Len(h)
    BY <1>1, <2>2, IndexedSeq
  <2>4. ASSUME NEW k \in 1 .. Len(h) PROVE a[k] \in Nat /\ a[k] <= h[k] + dt
    <3>1. h[k] + dt \in Nat
      BY <1>1
    <3>2. a[k] = (h[k] + dt) % UptimeMod
      BY <2>2, Zenon
    <3> QED BY <2>1, <3>1, <3>2
  <2> QED BY <2>3, <2>4
<1> HIDE DEF o, a
<1>4. \A j, k \in 1 .. Len(o) : j <= k => o[k] <= o[j]
  BY <1>1, <1>2 DEF Witnesses
<1>5. ASSUME NEW j \in 1 .. Len(h), NEW k \in 1 .. Len(r), Len(h) - j = Len(r) - k
      PROVE  h[j] <= o[k] /\ a[j] <= o[k]
  <2>1. h[j] <= r[k]
    BY <1>5 DEF Witnesses
  <2>2. /\ h[j] \in Nat /\ r[k] \in Nat /\ o[k] = r[k] + dt
        /\ a[j] \in Nat /\ a[j] <= h[j] + dt
    BY <1>1, <1>2, <1>3
  <2> QED BY <2>1, <2>2
<1> QED BY <1>1, <1>2, <1>3, <1>4, <1>5 DEF Witnesses, o, a

\* The observer forgets its oldest retry.
LEMMA RememberedWitnessed ==
    ASSUME NEW h \in Histories, NEW r, Witnesses(h, r)
    PROVE  Witnesses(h, Remembered(r))
<1>1. /\ r \in Seq(Nat) /\ Len(r) \in Nat /\ Len(h) \in Nat
      /\ \A j, k \in 1 .. Len(r) : j <= k => r[k] <= r[j]
      /\ Len(h) < Len(r) => Len(h) = MaxRetryHistory
      /\ \A j \in 1 .. Len(h), k \in 1 .. Len(r) : Len(h) - j = Len(r) - k => h[j] <= r[k]
  BY DEF Witnesses, Histories
<1>2. CASE r = << >>
  BY <1>2 DEF Remembered
<1>3. CASE r # << >>
  <2> DEFINE t == Tail(r)
  <2>1. /\ t \in Seq(Nat) /\ Len(t) = Len(r) - 1
        /\ \A k \in 1 .. Len(t) : t[k] = r[k + 1]
    BY <1>1, <1>3, HeadTailProperties
  <2> HIDE DEF t
  <2>2. \A k \in 1 .. Len(t) : t[k] = r[k + 1] /\ k + 1 \in 1 .. Len(r)
    BY <1>1, <2>1
  <2>3. ASSUME NEW j \in 1 .. Len(t), NEW k \in 1 .. Len(t), j <= k
        PROVE  t[k] <= t[j]
    <3>1. /\ t[k] = r[k + 1] /\ k + 1 \in 1 .. Len(r)
          /\ t[j] = r[j + 1] /\ j + 1 \in 1 .. Len(r)
      BY <2>2
    <3>2. j + 1 <= k + 1
      BY <1>1, <2>1, <2>3
    <3> QED BY <1>1, <3>1, <3>2
  <2>4. ASSUME NEW j \in 1 .. Len(h), NEW k \in 1 .. Len(t), Len(h) - j = Len(t) - k
        PROVE  h[j] <= t[k]
    <3>1. Len(h) - j = Len(r) - (k + 1)
      BY <1>1, <2>1, <2>4
    <3> QED BY <1>1, <2>2, <3>1
  <2>5. Witnesses(h, t)
    BY <1>1, <2>1, <2>3, <2>4 DEF Witnesses
  <2> QED BY <2>5 DEF Remembered, t
<1> QED BY <1>2, <1>3

\* A retry is recorded, in place of the oldest one if the history is full.
LEMMA RecordWitnessed ==
    ASSUME NEW h \in Histories, NEW r, Witnesses(h, r)
    PROVE  Witnesses(Append(IF Len(h) < MaxRetryHistory THEN h ELSE Tail(h), 0), Append(r, 0))
<1> DEFINE t == IF Len(h) < MaxRetryHistory THEN h ELSE Tail(h)
           g == Append(t, 0)
           s == Append(r, 0)
<1>1. /\ h \in Seq(Nat) /\ Len(h) \in Nat /\ Len(h) <= MaxRetryHistory
      /\ r \in Seq(Nat) /\ Len(r) \in Nat /\ MaxRetryHistory \in Nat \ {0}
      /\ \A k \in 1 .. Len(r) : r[k] \in Nat
  BY Int16Facts, ChannelAssumption DEF Histories, Witnesses
<1>2. /\ s \in Seq(Nat) /\ Len(s) = Len(r) + 1 /\ s[Len(r) + 1] = 0
      /\ \A k \in 1 .. Len(r) : s[k] = r[k]
  BY <1>1, AppendProperties
<1>3. /\ t \in Seq(Nat) /\ Len(t) \in Nat
      /\ Len(t) = IF Len(h) < MaxRetryHistory THEN Len(h) ELSE MaxRetryHistory - 1
      /\ \A k \in 1 .. Len(t), j \in 1 .. Len(h) : Len(t) - k = Len(h) - j => t[k] = h[j]
  <2>1. CASE Len(h) < MaxRetryHistory
    BY <1>1, <2>1
  <2>2. CASE ~(Len(h) < MaxRetryHistory)
    <3>1. t = Tail(h) /\ Len(h) = MaxRetryHistory /\ h # << >>
      BY <1>1, <2>2
    <3>2. /\ Tail(h) \in Seq(Nat) /\ Len(Tail(h)) = Len(h) - 1
          /\ \A k \in 1 .. Len(Tail(h)) : Tail(h)[k] = h[k + 1]
      BY <1>1, <3>1, HeadTailProperties
    <3> HIDE DEF t
    <3>3. ASSUME NEW k \in 1 .. Len(t), NEW j \in 1 .. Len(h), Len(t) - k = Len(h) - j
          PROVE  t[k] = h[j]
      <4>1. j = k + 1
        BY <1>1, <3>1, <3>2, <3>3
      <4> QED BY <3>1, <3>2, <4>1
    <3> QED BY <1>1, <2>2, <3>1, <3>2, <3>3
  <2> QED BY <2>1, <2>2
<1> HIDE DEF t
<1>4. /\ g \in Seq(Nat) /\ Len(g) = Len(t) + 1 /\ g[Len(t) + 1] = 0
      /\ \A k \in 1 .. Len(t) : g[k] = t[k]
  BY <1>3, AppendProperties
<1> HIDE DEF g, s
<1>5. ASSUME NEW j \in 1 .. Len(s), NEW k \in 1 .. Len(s), j <= k
      PROVE  s[k] <= s[j]
  <2>1. CASE k = Len(r) + 1
    <3>1. s[j] \in Nat
      BY <1>1, <1>2
    <3> QED BY <1>2, <2>1, <3>1
  <2>2. CASE k # Len(r) + 1
    <3>1. j \in 1 .. Len(r) /\ k \in 1 .. Len(r)
      BY <1>1, <1>2, <1>5, <2>2
    <3> QED BY <1>2, <1>5, <3>1 DEF Witnesses
  <2> QED BY <2>1, <2>2
<1>6. Len(g) < Len(s) => Len(g) = MaxRetryHistory
  BY <1>1, <1>2, <1>3, <1>4 DEF Witnesses
<1>7. ASSUME NEW j \in 1 .. Len(g), NEW k \in 1 .. Len(s), Len(g) - j = Len(s) - k
      PROVE  g[j] <= s[k]
  <2>1. CASE j = Len(t) + 1
    BY <1>1, <1>2, <1>3, <1>4, <1>7, <2>1
  <2>2. CASE j # Len(t) + 1
    <3> DEFINE i == j + (Len(h) - Len(t))
    <3>1. /\ j \in 1 .. Len(t) /\ k \in 1 .. Len(r) /\ i \in 1 .. Len(h)
          /\ Len(t) - j = Len(h) - i /\ Len(h) - i = Len(r) - k
      <4>1. j \in 1 .. Len(t) /\ Len(t) <= Len(h) /\ Len(t) \in Nat /\ Len(h) \in Nat
        BY <1>1, <1>3, <1>4, <2>2
      <4>2. Len(t) - j = Len(r) - k /\ k \in 1 .. Len(r)
        <5> DEFINE m == Len(t)
                   n == Len(r)
        <5>1. m \in Nat /\ n \in Nat /\ j \in 1 .. m
          BY <1>1, <4>1
        <5>2. k \in 1 .. n + 1 /\ m + 1 - j = n + 1 - k
          BY <1>2, <1>4, <1>7
        <5> HIDE DEF m, n
        <5>3. m - j = n - k /\ k \in 1 .. n
          BY <5>1, <5>2
        <5> QED BY <5>3 DEF m, n
      <4> QED BY <4>1, <4>2
    <3> HIDE DEF i
    <3>2. g[j] = h[i] /\ s[k] = r[k] /\ h[i] <= r[k]
      BY <1>2, <1>3, <1>4, <3>1 DEF Witnesses
    <3> QED BY <3>2
  <2> QED BY <2>1, <2>2
<1> QED BY <1>2, <1>5, <1>6, <1>7 DEF Witnesses, g, s, t

\* So a history that counts fewer retries than it can hold counts them all.
LEMMA CountsAll ==
    ASSUME NEW h \in Histories, NEW r, Witnesses(h, r), NEW w \in Nat,
           Cardinality({k \in 1 .. Len(h) : h[k] <= w}) < MaxRetryHistory
    PROVE  /\ IsFiniteSet({k \in 1 .. Len(r) : r[k] <= w})
           /\ Cardinality({k \in 1 .. Len(r) : r[k] <= w})
                <= Cardinality({k \in 1 .. Len(h) : h[k] <= w})
<1> DEFINE A == {k \in 1 .. Len(r) : r[k] <= w}
           B == {k \in 1 .. Len(h) : h[k] <= w}
<1>1. /\ Len(h) \in Nat /\ Len(r) \in Nat /\ MaxRetryHistory \in Nat
      /\ \A k \in 1 .. Len(h) : h[k] \in Nat
      /\ \A k \in 1 .. Len(r) : r[k] \in Nat
  BY ChannelAssumption DEF Histories, Witnesses
<1>2. IsFiniteSet(1 .. Len(h)) /\ Cardinality(1 .. Len(h)) = Len(h)
  <2>1. ASSUME NEW n \in Nat PROVE IsFiniteSet(1 .. n) /\ Cardinality(1 .. n) = n
    <3>1. 1 \in Int /\ n \in Int /\ (1 > n => n = 0)
      OBVIOUS
    <3>2. IsFiniteSet(1 .. n) /\ Cardinality(1 .. n) = IF 1 > n THEN 0 ELSE n - 1 + 1
      BY <3>1, FS_Interval
    <3> QED BY <3>1, <3>2
  <2> QED BY <1>1, <2>1
<1>3. IsFiniteSet(B)
  BY <1>2, FS_Subset
<1>4. ASSUME NEW k \in A PROVE Len(r) - k < Len(h)
  <2> SUFFICES ASSUME Len(r) - k >= Len(h) PROVE FALSE
    BY <1>1
  <2>1. Len(h) = MaxRetryHistory
    BY <1>1, <1>4 DEF Witnesses
  <2>2. ASSUME NEW j \in 1 .. Len(h) PROVE h[j] <= w
    <3> DEFINE m == Len(r) - (Len(h) - j)
    <3>1. m \in 1 .. Len(r) /\ k \in 1 .. Len(r) /\ k <= m /\ Len(h) - j = Len(r) - m
      BY <1>1, <1>4, <2>2
    <3> HIDE DEF m
    <3>2. h[j] <= r[m] /\ r[m] <= r[k] /\ r[k] <= w
      BY <1>4, <2>2, <3>1 DEF Witnesses
    <3> QED BY <1>1, <2>2, <3>1, <3>2
  <2>3. B = 1 .. Len(h)
    BY <2>2
  <2>4. Cardinality(B) < MaxRetryHistory
    OBVIOUS
  <2> HIDE DEF A, B
  <2> QED BY <1>1, <1>2, <2>1, <2>3, <2>4
<1> DEFINE f == [k \in A |-> Len(h) - (Len(r) - k)]
<1>5. ASSUME NEW k \in A PROVE f[k] \in B
  <2> DEFINE j == Len(h) - (Len(r) - k)
  <2>1. j \in 1 .. Len(h) /\ k \in 1 .. Len(r) /\ Len(h) - j = Len(r) - k /\ r[k] <= w
    BY <1>1, <1>4, <1>5
  <2> HIDE DEF j
  <2>2. h[j] <= r[k] /\ h[j] \in Nat /\ r[k] \in Nat
    BY <1>1, <2>1 DEF Witnesses
  <2> QED BY <2>1, <2>2 DEF j
<1>6. f \in Injection(A, B)
  <2>1. f \in [A -> B]
    BY <1>5
  <2>2. \A j, k \in A : f[j] = f[k] => j = k
    BY <1>1
  <2> HIDE DEF f, A, B
  <2> QED BY <2>1, <2>2 DEF Injection, IsInjective
<1> HIDE DEF f, A, B
<1> QED BY <1>3, <1>6, FS_Injection DEF A, B

\* The retry budget of a configuration fits the history.
CountFits(config) == config.auto_retry_max_count <= MaxRetryHistory

\* d has the fields of c, with its retry history and its configuration.
SameBudget(c, d) ==
    /\ DOMAIN d = DOMAIN c
    /\ d.retry_ages = c.retry_ages
    /\ d.config = c.config

\* A command keeps the history, and a budget that fits.
Calm(c, d) ==
    /\ d.retry_ages = c.retry_ages
    /\ CountFits(c.config) => CountFits(d.config)

\* c has a history and a configuration.
Budgeted(c) == {"retry_ages", "config"} \subseteq DOMAIN c

\* apply_hw and update_status_bits write neither the history nor the configuration.
LEMMA RefreshBudget ==
    ASSUME NEW c, Budgeted(c)
    PROVE  /\ SameBudget(c, apply_hw(c))
           /\ SameBudget(c, update_status_bits(c))
           /\ SameBudget(c, refresh(c))
BY DEF SameBudget, Budgeted, apply_hw, update_status_bits, refresh

\* Nor do the output actions.
LEMMA CutBudget ==
    ASSUME NEW c, Budgeted(c), NEW state
    PROVE  SameBudget(c, start_graceful(c)) /\ SameBudget(c, cut_output(c, state))
BY DEF SameBudget, Budgeted, start_graceful, cut_output

\* Nor does vc_channel_output_action.
LEMMA OutputActionBudget ==
    ASSUME NEW c, Budgeted(c), NEW action
    PROVE  SameBudget(c, vc_channel_output_action(c, action).ch)
<1> DEFINE on == [c EXCEPT !.output_enabled = TRUE, !.ramping = TRUE,
                           !.ramp_to_disable = FALSE, !.smf = "RAMPING"]
           warm == [c EXCEPT !.cooldown_remaining = 0]
           d == vc_channel_output_action(c, action).ch
<1>1. SameBudget(c, on) /\ SameBudget(c, warm)
  BY DEF SameBudget, Budgeted
<1>2. d \in {c, refresh(on), refresh(start_graceful(warm)),
             refresh(cut_output(c, "DISABLED_HV_ON")), refresh(cut_output(c, "DISABLED_SAFE"))}
  BY DEF vc_channel_output_action, Reply, OutputActions, ProtectionActions
<1> HIDE DEF d, on, warm
<1>3. \A x, y \in {c, on, warm, start_graceful(warm), cut_output(c, "DISABLED_HV_ON"),
                   cut_output(c, "DISABLED_SAFE")} : SameBudget(c, x) /\ SameBudget(x, refresh(x))
  <2>1. \A x : SameBudget(c, x) => Budgeted(x)
    BY DEF SameBudget, Budgeted
  <2>2. \A x : SameBudget(warm, x) => SameBudget(c, x)
    BY <1>1 DEF SameBudget
  <2>3. SameBudget(c, c)
    BY DEF SameBudget
  <2> QED BY <1>1, <2>1, <2>2, <2>3, RefreshBudget, CutBudget
<1>4. SameBudget(c, d)
  BY <1>2, <1>3 DEF SameBudget
<1> QED BY <1>4 DEF d

\* Nor do the fault command and the fault report.
LEMMA FaultCommandBudget ==
    ASSUME NEW c, Budgeted(c), NEW cmd, NEW cause
    PROVE  /\ SameBudget(c, vc_channel_fault_command(c, cmd).ch)
           /\ SameBudget(c, vc_channel_consume_fault(c, cause))
<1>1. SameBudget(c, vc_channel_fault_command(c, cmd).ch)
  BY DEF vc_channel_fault_command, Reply, update_status_bits, SameBudget, Budgeted
<1>2. SameBudget(c, vc_channel_consume_fault(c, cause))
  BY DEF vc_channel_consume_fault, force_safe_state, apply_hw, update_status_bits,
         SameBudget, Budgeted
<1> QED BY <1>1, <1>2

\* Nor do the calibration session's commands.
LEMMA CalibrationBudget ==
    ASSUME NEW c, Budgeted(c), NEW enable, NEW code, NEW f, NEW x
    PROVE  /\ SameBudget(c, vc_channel_reset_calibration(c, enable))
           /\ SameBudget(c, vc_channel_cal_set_output_enable(c, enable).ch)
           /\ SameBudget(c, vc_channel_cal_set_raw_dac(c, code).ch)
           /\ SameBudget(c, vc_channel_set_cal_field(c, f, x).ch)
           /\ SameBudget(c, vc_channel_load_cal(c, x))
<1>1. SameBudget(c, vc_channel_reset_calibration(c, enable))
  BY DEF vc_channel_reset_calibration, refresh, apply_hw, update_status_bits, SameBudget, Budgeted
<1>2. SameBudget(c, vc_channel_cal_set_output_enable(c, enable).ch)
  BY DEF vc_channel_cal_set_output_enable, Reply, apply_hw, SameBudget, Budgeted
<1>3. SameBudget(c, vc_channel_cal_set_raw_dac(c, code).ch)
  BY DEF vc_channel_cal_set_raw_dac, Reply, apply_hw, SameBudget, Budgeted
<1>4. SameBudget(c, vc_channel_set_cal_field(c, f, x).ch)
  BY DEF vc_channel_set_cal_field, Reply, apply_hw, SameBudget, Budgeted
<1>5. SameBudget(c, vc_channel_load_cal(c, x))
  BY DEF vc_channel_load_cal, apply_hw, SameBudget, Budgeted
<1> QED BY <1>1, <1>2, <1>3, <1>4, <1>5

\* A write of a configuration keeps a budget that fits.
LEMMA ConfigBudget ==
    ASSUME NEW c, Good(c), NEW f \in DOMAIN DefaultConfig, NEW x,
           NEW new \in VcChannelConfig, CountFits(new)
    PROVE  /\ Calm(c, vc_channel_set_field(c, f, x).ch)
           /\ Calm(c, vc_channel_set_config(c, new).ch)
<1>1. c \in VcChannel /\ Budgeted(c) /\ "auto_retry_max_count" \in DOMAIN c.config
  BY DEF Good, Sound, VcChannel, VcChannelConfig, Budgeted
<1>2. \A w : /\ refresh([c EXCEPT !.config = w]).retry_ages = c.retry_ages
             /\ refresh([c EXCEPT !.config = w]).config = w
  BY <1>1 DEF refresh, apply_hw, update_status_bits, Budgeted
<1>3. Calm(c, vc_channel_set_config(c, new).ch)
  BY <1>2 DEF vc_channel_set_config, Reply, Calm
<1>4. CASE field_valid(f, x)
  <2> DEFINE w == [c.config EXCEPT ![f] = x]
  <2>1. [c EXCEPT !.config[f] = x] = [c EXCEPT !.config = w]
    BY <1>1 DEF Budgeted
  <2>2. CountFits(c.config) => CountFits(w)
    <3>1. CASE f = "auto_retry_max_count"
      BY <1>1, <1>4, <3>1 DEF field_valid, CountFits
    <3>2. CASE f # "auto_retry_max_count"
      BY <1>1, <3>2 DEF CountFits
    <3> QED BY <3>1, <3>2
  <2>3. vc_channel_set_field(c, f, x).ch \in {c, refresh([c EXCEPT !.config = w])}
    BY <2>1 DEF vc_channel_set_field, Reply
  <2> HIDE DEF w
  <2> QED BY <1>2, <1>3, <2>2, <2>3 DEF Calm
<1>5. CASE ~field_valid(f, x)
  BY <1>3, <1>5 DEF vc_channel_set_field, Reply, Calm
<1> QED BY <1>3, <1>4, <1>5

\* Nor does a change of mode.
LEMMA SwitchBudget ==
    ASSUME NEW c, Budgeted(c), NEW from, NEW mode
    PROVE  SameBudget(c, switch_channel(from, mode, c))
<1> DEFINE a == leave_cal(from, c)
           b == retreat(from, mode, a)
           e == auto_enable(mode, b)
           d == enter_cal(mode, e)
<1>0. \A x, y : SameBudget(x, x) /\ (Budgeted(x) /\ SameBudget(x, y) => Budgeted(y))
  BY DEF SameBudget, Budgeted
<1>1. SameBudget(c, a) /\ Budgeted(a)
  BY <1>0, CalibrationBudget DEF leave_cal
<1> HIDE DEF a
<1>2. SameBudget(a, b) /\ Budgeted(b)
  BY <1>0, <1>1, OutputActionBudget DEF retreat
<1> HIDE DEF b
<1>3. SameBudget(b, e) /\ Budgeted(e)
  BY <1>0, <1>2, OutputActionBudget DEF auto_enable
<1> HIDE DEF e
<1>4. SameBudget(e, d)
  BY <1>0, <1>3, CalibrationBudget DEF enter_cal
<1>5. switch_channel(from, mode, c) = d
  BY DEF switch_channel, a, b, e
<1> HIDE DEF d
<1> QED BY <1>1, <1>2, <1>3, <1>4, <1>5 DEF SameBudget

\* What a tick does before the recovery: nothing clears a fault.
SameFault(c, d) == SameBudget(c, d) /\ d.active_fault_cause = c.active_fault_cause

\* The ramp keeps the fault as well.
LEMMA RampBudget ==
    ASSUME NEW c, c \in VcChannel, NEW dt
    PROVE  SameFault(c, vc_channel_tick_ramp(c, dt))
<1> DEFINE d == vc_channel_tick_ramp(c, dt)
<1>0. Budgeted(c) /\ "active_fault_cause" \in DOMAIN c /\ "smf" \in DOMAIN c
  BY DEF VcChannel, Budgeted
<1>1. ASSUME NEW x, SameFault(c, x)
      PROVE  SameFault(c, ramp_done(x)) /\ SameFault(c, refresh(x))
  <2>1. SameFault(c, ramp_done(x))
    BY <1>0, <1>1 DEF ramp_done, SameFault, SameBudget, Budgeted
  <2>2. SameFault(c, refresh(x))
    BY <1>0, <1>1 DEF refresh, apply_hw, update_status_bits, SameFault, SameBudget, Budgeted
  <2> QED BY <2>1, <2>2
<1>2. \A t, a, u : /\ SameFault(c, c)
                   /\ SameFault(c, [c EXCEPT !.operational_target_voltage = t])
                   /\ SameFault(c, [c EXCEPT !.ramping = TRUE, !.ramp_accum = a,
                                             !.operational_target_voltage = u])
  BY <1>0 DEF SameFault, SameBudget, Budgeted
<1>3. \E t, a, u :
          LET jumped == [c EXCEPT !.operational_target_voltage = t]
              moved  == [c EXCEPT !.ramping = TRUE, !.ramp_accum = a,
                                  !.operational_target_voltage = u]
          IN  d \in {c, ramp_done(c), refresh(ramp_done(c)), refresh(ramp_done(jumped)),
                     refresh(ramp_done(moved)), refresh(moved)}
  BY Zenon DEF vc_channel_tick_ramp
<1> HIDE DEF d
<1>4. SameFault(c, d)
  BY <1>1, <1>2, <1>3
<1> QED BY <1>4 DEF d

\* So does a sample, unless its current trips a channel without a fault.
LEMMA SampleBudget ==
    ASSUME NEW c, c \in VcChannel, NEW raw
    PROVE  /\ SameFault(c, vc_channel_consume_voltage(c, raw))
           /\ SameBudget(c, vc_channel_consume_current(c, raw))
           /\ c.active_fault_cause # {} => SameFault(c, vc_channel_consume_current(c, raw))
<1>0. Budgeted(c) /\ "active_fault_cause" \in DOMAIN c
  BY DEF VcChannel, Budgeted
<1>1. SameFault(c, vc_channel_consume_voltage(c, raw))
  BY <1>0 DEF vc_channel_consume_voltage, update_status_bits, SameFault, SameBudget, Budgeted
<1> DEFINE m == [c EXCEPT !.measured_current =
                 clamp_int16(apply_gain(raw, c.cal_config.measured_current_calib_k,
                                        c.cal_config.measured_current_calib_k_exp)
                             + c.cal_config.measured_current_calib_b)]
<1>2. vc_channel_consume_current(c, raw) = update_status_bits(tick_current_protection(m))
  BY DEF vc_channel_consume_current
<1>3. SameFault(c, m)
  BY <1>0 DEF SameFault, SameBudget, Budgeted
<1> HIDE DEF m
<1>4. m.active_fault_cause # {} => tick_current_protection(m) = m
  BY DEF tick_current_protection
<1>5. SameBudget(m, tick_current_protection(m))
  BY <1>0, <1>3 DEF tick_current_protection, apply_protection_action, start_graceful, cut_output,
                    apply_hw, SameFault, SameBudget, Budgeted
<1>6. \A x : SameBudget(c, x) =>
              /\ SameBudget(c, update_status_bits(x))
              /\ update_status_bits(x).active_fault_cause = x.active_fault_cause
  BY <1>0 DEF update_status_bits, SameBudget, Budgeted
<1>7. SameBudget(c, tick_current_protection(m))
  BY <1>3, <1>5 DEF SameFault, SameBudget
<1> QED BY <1>1, <1>2, <1>3, <1>4, <1>6, <1>7 DEF SameFault

\* The history after a retry.
Retrying(ages) ==
    Append(IF Len(ages) < MaxRetryHistory THEN ages ELSE Tail(ages), 0)

\* Only a retry clears the current fault, and only a retry within the budget.
LEMMA RecoveryBudget ==
    ASSUME NEW c, c \in VcChannel, NEW dt, NEW sys_mode
    PROVE  LET d == tick_recovery(c, dt, sys_mode)
           IN  /\ d.config = c.config
               /\ \/ /\ d.retry_ages = c.retry_ages
                     /\ d.active_fault_cause = {} => c.active_fault_cause = {}
                  \/ /\ d.retry_ages = Retrying(c.retry_ages)
                     /\ ~(count_active_retries(c) >= c.config.auto_retry_max_count)
<1> DEFINE cooling == enter_cooldown(c)
           cooled  == [cooling EXCEPT !.cooldown_remaining = 0]
           waiting == [cooling EXCEPT !.cooldown_remaining = @ - dt]
           d == tick_recovery(c, dt, sys_mode)
<1>0. Budgeted(c) /\ "active_fault_cause" \in DOMAIN c
  BY DEF VcChannel, Budgeted
<1>1. SameFault(c, cooling)
  BY <1>0 DEF enter_cooldown, update_status_bits, SameFault, SameBudget, Budgeted
<1> HIDE DEF cooling
<1>2. SameFault(c, c) /\ SameFault(c, cooled) /\ SameFault(c, waiting)
  BY <1>0, <1>1 DEF SameFault, SameBudget, Budgeted
<1>3. \/ d \in {c, cooled, waiting, retry_exhausted(cooled)}
      \/ /\ d = start_retry(cooled)
         /\ ~(count_active_retries(cooled) >= cooled.config.auto_retry_max_count)
  BY DEF tick_recovery, cooling
<1> HIDE DEF cooled, waiting, d
<1>4. CASE d \in {c, cooled, waiting}
  BY <1>2, <1>4 DEF SameFault, SameBudget, d
<1>5. CASE d = retry_exhausted(cooled)
  <2>1. d.config = c.config /\ d.retry_ages = c.retry_ages /\ d.active_fault_cause # {}
    BY <1>0, <1>2, <1>5 DEF retry_exhausted, update_status_bits, SameFault, SameBudget, Budgeted
  <2> QED BY <2>1 DEF d
<1>6. CASE /\ d = start_retry(cooled)
           /\ ~(count_active_retries(cooled) >= cooled.config.auto_retry_max_count)
  <2>1. d.config = cooled.config /\ d.retry_ages = Retrying(cooled.retry_ages)
    BY <1>0, <1>2, <1>6 DEF start_retry, record_retry_attempt, refresh, apply_hw,
                            update_status_bits, Retrying, SameFault, SameBudget, Budgeted
  <2>2. count_active_retries(cooled) = count_active_retries(c)
    BY <1>2 DEF count_active_retries, SameFault, SameBudget
  <2> QED BY <1>2, <1>6, <2>1, <2>2 DEF SameFault, SameBudget, d
<1> QED BY <1>3, <1>4, <1>5, <1>6

\* The history a tick of length dt later, by the channel's clock.
Aged(ages, dt) == [k \in DOMAIN ages |-> (ages[k] + dt) % UptimeMod]

\* What a whole tick makes of the history: a retry, which is within the budget if it
\* follows a fault, or nothing.
Spends(c, dt, d) ==
    LET ages == Aged(c.retry_ages, dt)
    IN  /\ d.config = c.config
        /\ d.retry_ages \in {ages, Retrying(ages)}
        /\ c.active_fault_cause # {} /\ d.active_fault_cause = {} =>
               /\ d.retry_ages = Retrying(ages)
               /\ ~(Cardinality({k \in 1 .. Len(ages) :
                                    ages[k] <= c.config.auto_retry_window})
                      >= c.config.auto_retry_max_count)

\* vc_channel_run is such a tick.
LEMMA RunBudget ==
    ASSUME NEW c, Good(c), NEW dt \in Nat, NEW v \in Int \cup {NoSample},
           NEW i \in Int \cup {NoSample}, NEW sys_mode
    PROVE  Spends(c, dt, vc_channel_run(c, dt, v, i, sys_mode))
<1> DEFINE aged == [c EXCEPT !.retry_ages = [k \in DOMAIN @ |-> (@[k] + dt) % UptimeMod]]
           volt == IF v = NoSample THEN aged ELSE vc_channel_consume_voltage(aged, v)
           amps == IF i = NoSample THEN volt ELSE vc_channel_consume_current(volt, i)
           ramp == vc_channel_tick_ramp(amps, dt)
           d    == tick_recovery(ramp, dt, sys_mode)
           ages == Aged(c.retry_ages, dt)
<1>1. vc_channel_run(c, dt, v, i, sys_mode) = d
  BY DEF vc_channel_run
<1>2. Good(aged)
  BY AgeGood
<1>3. /\ aged.retry_ages = ages /\ aged.config = c.config
      /\ aged.active_fault_cause = c.active_fault_cause
  BY DEF Good, Sound, VcChannel, Aged
<1> HIDE DEF aged, ages
<1>4. Good(volt) /\ SameFault(aged, volt)
  <2>1. SameFault(aged, aged) /\ aged \in VcChannel
    BY <1>2 DEF SameFault, SameBudget, Good, Sound
  <2> QED BY <1>2, <2>1, ConsumeVoltageKeeps, SampleBudget DEF Keeps
<1> HIDE DEF volt
<1>5. /\ Good(amps) /\ SameBudget(volt, amps)
      /\ volt.active_fault_cause # {} => SameFault(volt, amps)
  <2>1. SameFault(volt, volt) /\ SameBudget(volt, volt) /\ volt \in VcChannel
    BY <1>4 DEF SameFault, SameBudget, Good, Sound
  <2> QED BY <1>4, <2>1, ConsumeCurrentKeeps, SampleBudget DEF Keeps
<1> HIDE DEF amps
<1>6. Good(ramp) /\ SameFault(amps, ramp)
  BY <1>5, TickRampKeeps, RampBudget DEF Keeps, Good, Sound
<1> HIDE DEF ramp
<1>7. /\ ramp.retry_ages = ages /\ ramp.config = c.config
      /\ c.active_fault_cause # {} => ramp.active_fault_cause # {}
  BY <1>3, <1>4, <1>5, <1>6 DEF SameFault, SameBudget
<1>8. /\ d.config = ramp.config
      /\ \/ /\ d.retry_ages = ramp.retry_ages
            /\ d.active_fault_cause = {} => ramp.active_fault_cause = {}
         \/ /\ d.retry_ages = Retrying(ramp.retry_ages)
            /\ ~(count_active_retries(ramp) >= ramp.config.auto_retry_max_count)
  BY <1>6, RecoveryBudget DEF Good, Sound
<1> HIDE DEF d
<1>9. count_active_retries(ramp)
        = Cardinality({k \in 1 .. Len(ages) : ages[k] <= c.config.auto_retry_window})
  BY <1>7 DEF count_active_retries
<1> QED BY <1>1, <1>7, <1>8, <1>9 DEF ages, Spends

\* A retry that the observer does not count makes the history seem younger still.
LEMMA UncountedWitnessed ==
    ASSUME NEW h \in Histories, NEW r, Witnesses(h, r)
    PROVE  Witnesses(Retrying(h), r)
<1> DEFINE g == Retrying(h)
           s == Append(r, 0)
<1>1. Witnesses(g, s)
  BY RecordWitnessed DEF Retrying
<1>2. /\ r \in Seq(Nat) /\ Len(r) \in Nat /\ s \in Seq(Nat) /\ Len(s) = Len(r) + 1
      /\ \A k \in 1 .. Len(r) : s[k] = r[k]
      /\ \A j, k \in 1 .. Len(r) : j <= k => r[k] <= r[j]
  <2>1. r \in Seq(Nat) /\ Len(r) \in Nat
    BY DEF Witnesses
  <2> QED BY <2>1, AppendProperties DEF Witnesses
<1>3. g \in Seq(Nat) /\ Len(g) \in Nat
  <2>1. h \in Seq(Nat) /\ Len(h) \in Nat /\ (Len(h) >= MaxRetryHistory => h # << >>)
    BY Int16Facts, ChannelAssumption DEF Histories
  <2>2. h # << >> => Tail(h) \in Seq(Nat)
    BY <2>1, HeadTailProperties
  <2>3. g \in Seq(Nat)
    BY <2>1, <2>2, AppendProperties, ChannelAssumption DEF Retrying
  <2> QED BY <2>3
<1> HIDE DEF g, s
<1>4. Len(g) < Len(r) => Len(g) = MaxRetryHistory
  BY <1>1, <1>2, <1>3 DEF Witnesses
<1>5. ASSUME NEW j \in 1 .. Len(g), NEW k \in 1 .. Len(r), Len(g) - j = Len(r) - k
      PROVE  g[j] <= r[k]
  <2>1. k \in 1 .. Len(s) /\ k + 1 \in 1 .. Len(s) /\ Len(g) - j = Len(s) - (k + 1) /\ k <= k + 1
    <3> DEFINE m == Len(g)
               n == Len(r)
               p == Len(s)
    <3>1. m \in Nat /\ n \in Nat /\ p = n + 1 /\ m - j = n - k /\ k \in 1 .. n /\ j \in 1 .. m
      BY <1>2, <1>3, <1>5
    <3> HIDE DEF m, n, p
    <3>2. k \in 1 .. p /\ k + 1 \in 1 .. p /\ m - j = p - (k + 1) /\ k <= k + 1
      BY <3>1
    <3> QED BY <3>2 DEF m, n, p
  <2>2. g[j] <= s[k + 1] /\ s[k + 1] <= s[k] /\ s[k] = r[k]
    BY <1>1, <1>2, <1>5, <2>1 DEF Witnesses
  <2>3. g[j] \in Nat /\ s[k + 1] \in Nat /\ r[k] \in Nat
    <3>1. \A t \in Seq(Nat) : \A i \in 1 .. Len(t) : t[i] \in Nat
      OBVIOUS
    <3> QED BY <1>2, <1>3, <2>1, <3>1
  <2> QED BY <2>2, <2>3
<1> QED BY <1>2, <1>4, <1>5 DEF Witnesses, g

\* A step of the controller that keeps every history, and the budgets that fit.
CalmStep(k, m) == \A i \in Channels : Calm(k.channels[i], m.channels[i])

\* A step that leaves the channels alone.
LEMMA IdleCalm ==
    ASSUME NEW k, NEW m, m.channels = k.channels
    PROVE  CalmStep(k, m)
BY DEF CalmStep, Calm

\* A step of one channel, by a command that reaches no other.
LEMMA OneChannelCalm ==
    ASSUME NEW k, ControllerInv(k), NEW i \in Channels, NEW d, Calm(k.channels[i], d),
           NEW m, m.channels = [k.channels EXCEPT ![i] = d]
    PROVE  CalmStep(k, m)
<1>1. \A j \in Channels : m.channels[j] = IF j = i THEN d ELSE k.channels[j]
  BY DEF ControllerInv, VcControllerState
<1> QED BY <1>1 DEF CalmStep, Calm

\* OnChannel is such a command.
LEMMA OnChannelCalm ==
    ASSUME NEW k, ControllerInv(k), NEW i \in Channels, NEW reply,
           Calm(k.channels[i], reply.ch)
    PROVE  CalmStep(k, OnChannel(k, i, reply).ctrl)
<1> DEFINE m == OnChannel(k, i, reply).ctrl
<1>1. m.channels = [k.channels EXCEPT ![i] = reply.ch]
  BY DEF OnChannel, Answer, ControllerInv, VcControllerState
<1> HIDE DEF m
<1> QED BY <1>1, OneChannelCalm DEF m

\* A channel of the controller has a history and a budget.
LEMMA ChannelBudgeted ==
    ASSUME NEW k, ControllerInv(k), NEW i \in Channels
    PROVE  /\ Good(k.channels[i]) /\ Budgeted(k.channels[i])
           /\ \A d : SameBudget(k.channels[i], d) => Calm(k.channels[i], d)
BY DEF ControllerInv, Good, Sound, VcChannel, Budgeted, SameBudget, Calm

\* A mode change.
LEMMA SetModeCalm ==
    ASSUME NEW k, ControllerInv(k), NEW mode
    PROVE  /\ CalmStep(k, vc_controller_set_operating_mode(k, mode).ctrl)
           /\ CalmStep(k, vc_controller_cal_exit(k).ctrl)
<1>1. ASSUME NEW to PROVE CalmStep(k, switch_mode(k, to))
  <2> DEFINE f == [i \in Channels |-> switch_channel(k.operating_mode, to, k.channels[i])]
             m == switch_mode(k, to)
  <2>1. m.channels = f
    <3> HIDE DEF f
    <3>1. CASE to = "CALIBRATION"
      BY <3>1 DEF switch_mode, cal_watchdog_reset, ControllerInv, VcControllerState, f
    <3>2. CASE to # "CALIBRATION"
      BY <3>2 DEF switch_mode, ControllerInv, VcControllerState, f
    <3> QED BY <3>1, <3>2
  <2>2. \A i \in Channels : Calm(k.channels[i], f[i])
    BY ChannelBudgeted, SwitchBudget
  <2> HIDE DEF f, m
  <2> QED BY <2>1, <2>2 DEF CalmStep, m
<1>2. CalmStep(k, k) /\ CalmStep(k, cal_watchdog_reset(k))
  <2>1. cal_watchdog_reset(k).channels = k.channels
    BY DEF cal_watchdog_reset, ControllerInv, VcControllerState
  <2> QED BY <2>1, IdleCalm
<1>3. \A to : CalmStep(k, vc_controller_set_operating_mode(k, to).ctrl)
  BY <1>1, <1>2 DEF vc_controller_set_operating_mode, Answer
<1> QED BY <1>2, <1>3 DEF vc_controller_cal_exit, Answer

\* vc_controller_set_system_config.
LEMMA SetSystemConfigCalm ==
    ASSUME NEW k, ControllerInv(k), NEW cfg \in VcSystemConfig
    PROVE  CalmStep(k, vc_controller_set_system_config(k, cfg).ctrl)
<1> DEFINE stored == [k EXCEPT !.sys_cfg = cfg]
           m == vc_controller_set_system_config(k, cfg).ctrl
<1>1. cfg.operating_mode # "CALIBRATION"
  BY DEF VcSystemConfig
<1>2. ControllerInv(stored) /\ stored.channels = k.channels
  BY DEF ControllerInv, VcControllerState
<1>3. m \in {stored, vc_controller_set_operating_mode(stored, cfg.operating_mode).ctrl}
  BY <1>1 DEF vc_controller_set_system_config, Answer
<1> HIDE DEF stored, m
<1>4. CalmStep(stored, m)
  BY <1>2, <1>3, IdleCalm, SetModeCalm
<1> QED BY <1>2, <1>4 DEF CalmStep, m

\* vc_controller_channel_set_field: a write, then an enable in AUTOMATIC.
LEMMA SetFieldCalm ==
    ASSUME NEW k, ControllerInv(k), NEW i \in Channels, NEW w \in HostWrites
    PROVE  CalmStep(k, vc_controller_channel_set_field(k, i, w.field, w.value).ctrl)
<1> DEFINE c   == k.channels[i]
           set == vc_channel_set_field(c, w.field, w.value)
           on  == vc_channel_output_action(set.ch, "ENABLE")
<1>1. /\ w.field \in DOMAIN DefaultConfig
      /\ field_valid(w.field, w.value) =>
             [DefaultConfig EXCEPT ![w.field] = w.value] \in VcChannelConfig
  BY ControllerAssumption DEF ConfigFields
<1>2. Good(c) /\ Budgeted(c)
  BY ChannelBudgeted
<1>3. Good(set.ch) /\ Budgeted(set.ch) /\ Calm(c, set.ch)
  <2> HIDE DEF c
  <2>1. Good(set.ch)
    BY <1>1, <1>2, SetFieldKeeps DEF Keeps
  <2>2. Calm(c, set.ch)
    <3>1. [DefaultConfig EXCEPT !.auto_retry_max_count = 0] \in VcChannelConfig
      BY ChannelAssumption DEF VcChannelConfig
    <3>2. CountFits([DefaultConfig EXCEPT !.auto_retry_max_count = 0])
      BY ChannelAssumption DEF VcChannelConfig, CountFits
    <3> QED BY <1>1, <1>2, <3>1, <3>2, ConfigBudget
  <2> HIDE DEF set
  <2> QED BY <2>1, <2>2 DEF Good, Sound, VcChannel, Budgeted
<1>4. Calm(c, on.ch)
  <2> HIDE DEF set, c
  <2>1. SameBudget(set.ch, on.ch)
    BY <1>3, OutputActionBudget
  <2> QED BY <1>3, <2>1 DEF Calm, SameBudget
<1>5. vc_controller_channel_set_field(k, i, w.field, w.value) \in
          {OnChannel(k, i, on), OnChannel(k, i, set)}
  BY DEF vc_controller_channel_set_field
<1> HIDE DEF set, on
<1> QED BY <1>3, <1>4, <1>5, OnChannelCalm

\* A calibration command.
LEMMA CalCommandCalm ==
    ASSUME NEW k, ControllerInv(k), NEW i \in Channels, NEW reply,
           SameBudget(k.channels[i], reply.ch)
    PROVE  CalmStep(k, cal_command(k, i, reply).ctrl)
<1> DEFINE m == cal_command(k, i, reply).ctrl
<1>1. CASE k.operating_mode # "CALIBRATION"
  BY <1>1, IdleCalm DEF cal_command, Answer
<1>2. CASE k.operating_mode = "CALIBRATION"
  <2>1. m.channels = [k.channels EXCEPT ![i] = reply.ch]
    BY <1>2 DEF cal_command, OnChannel, Answer, cal_watchdog_reset, ControllerInv,
                VcControllerState
  <2> HIDE DEF m
  <2> QED BY <2>1, ChannelBudgeted, OneChannelCalm DEF m
<1> QED BY <1>1, <1>2

\* A load or a reset of a channel: the configuration, if it is not refused, and the
\* calibration.
LEMMA LoadChannelCalm ==
    ASSUME NEW k, ControllerInv(k), NEW i \in Channels, CountFits(DefaultConfig),
           NEW cfg \in VcChannelConfig \cup {NoRecord}, cfg # NoRecord => CountFits(cfg),
           NEW cal
    PROVE  /\ CalmStep(k, load_channel(k, i, cfg, cal).ctrl)
           /\ CalmStep(k, reset_channel(k, i, cal).ctrl)
<1>1. /\ k.channels \in [Channels -> VcChannel] /\ "channels" \in DOMAIN k
      /\ Good(k.channels[i]) /\ Budgeted(k.channels[i])
  BY ChannelBudgeted DEF ControllerInv, VcControllerState
<1>2. ASSUME NEW n, "channels" \in DOMAIN n, DOMAIN n.channels = Channels,
             CalmStep(k, n), Budgeted(n.channels[i])
      PROVE  CalmStep(k, load_cal(n, i, cal))
  <2> DEFINE d == vc_channel_load_cal(n.channels[i], cal)
  <2>1. SameBudget(n.channels[i], d)
    BY <1>2, CalibrationBudget
  <2> HIDE DEF d
  <2>2. ASSUME NEW j \in Channels, cal # NoRecord
        PROVE  load_cal(n, i, cal).channels[j] = IF j = i THEN d ELSE n.channels[j]
    BY <1>2, <2>2 DEF load_cal, d
  <2> QED BY <1>2, <2>1, <2>2 DEF CalmStep, Calm, SameBudget, load_cal
<1>3. ASSUME NEW new \in VcChannelConfig, CountFits(new)
      PROVE  CalmStep(k, load_cal(OnChannel(k, i,
                                    vc_channel_set_config(k.channels[i], new)).ctrl, i, cal))
  <2> DEFINE set == vc_channel_set_config(k.channels[i], new)
             n   == OnChannel(k, i, set).ctrl
  <2>1. Calm(k.channels[i], set.ch) /\ Budgeted(set.ch)
    <3>1. DefaultConfig \in VcChannelConfig /\ "auto_retry_delay" \in DOMAIN DefaultConfig
      BY ChannelAssumption DEF VcChannelConfig
    <3>2. Calm(k.channels[i], set.ch)
      BY <1>1, <1>3, <3>1, ConfigBudget
    <3>3. Good(set.ch)
      BY <1>1, <1>3, SetConfigKeeps DEF Keeps
    <3> HIDE DEF set
    <3> QED BY <3>2, <3>3 DEF Good, Sound, VcChannel, Budgeted
  <2> HIDE DEF set
  <2>2. n.channels = [k.channels EXCEPT ![i] = set.ch] /\ "channels" \in DOMAIN n
    BY <1>1 DEF OnChannel, Answer
  <2>3. CalmStep(k, n)
    BY <2>1, OnChannelCalm
  <2> HIDE DEF n
  <2>4. DOMAIN n.channels = Channels /\ Budgeted(n.channels[i])
    BY <1>1, <2>1, <2>2
  <2> QED BY <1>2, <2>2, <2>3, <2>4 DEF n, set
<1>4. CalmStep(k, load_cal(k, i, cal)) /\ CalmStep(k, k)
  BY <1>1, <1>2, IdleCalm
<1>5. DefaultConfig \in VcChannelConfig
  BY ChannelAssumption
<1>6. CalmStep(k, reset_channel(k, i, cal).ctrl)
  BY <1>3, <1>4, <1>5 DEF reset_channel, Answer
<1>7. CASE cfg = NoRecord
  BY <1>4, <1>6, <1>7 DEF load_channel, Answer
<1>8. CASE cfg # NoRecord
  <2>1. cfg \in VcChannelConfig
    BY <1>8
  <2> QED BY <1>3, <1>4, <1>6, <1>8, <2>1 DEF load_channel, Answer
<1> QED BY <1>7, <1>8

\* Every budget that a boot can find fits the history: those of the storage at the
\* first boot, and the default, which is zero.
CountsFit ==
    /\ CountFits(DefaultConfig)
    /\ \A s \in Commissioned, i \in Channels : s.cfg[i] # NoRecord => CountFits(s.cfg[i])

\* Every budget, running or stored, fits the history.
BudgetsFit ==
    \A i \in Channels : /\ CountFits(ctrl.channels[i].config)
                        /\ nvs.cfg[i] # NoRecord => CountFits(nvs.cfg[i])

\* The boot sequence leaves an empty history and a budget that fits.
LEMMA AutoLoadCalm ==
    ASSUME CountFits(DefaultConfig), NEW s \in Settings,
           \A i \in Channels : s.cfg[i] # NoRecord => CountFits(s.cfg[i])
    PROVE  \A i \in Channels : /\ auto_load(s).channels[i].retry_ages = << >>
                               /\ CountFits(auto_load(s).channels[i].config)
<1> DEFINE k == vc_controller_init
           l == Loaded(s)
           m == auto_load(s)
<1>1. ControllerInv(k) /\ ControllerInv(l) /\ LoadedSystem(s) \in VcSystemConfig
  BY InitInv, LoadedInv
<1>2. \A i \in Channels : k.channels[i].retry_ages = << >> /\ CountFits(k.channels[i].config)
  <2>1. \A i \in Channels : CountFits(boot_config(i))
    BY ChannelAssumption DEF boot_config, CountFits, VcChannelConfig
  <2> QED BY <2>1 DEF vc_controller_init, boot_channel, vc_channel_init
<1>3. \A i \in Channels :
          l.channels[i] \in {load_channel(k, i, s.cfg[i], s.cal[i]).ctrl.channels[i],
                             reset_channel(k, i, s.cal[i]).ctrl.channels[i]}
  BY DEF Loaded, vc_controller_init
<1> HIDE DEF k, l
<1>4. ASSUME NEW i \in Channels PROVE Calm(k.channels[i], l.channels[i])
  <2>1. s.cfg[i] \in VcChannelConfig \cup {NoRecord}
    BY DEF Settings
  <2>2. /\ CalmStep(k, load_channel(k, i, s.cfg[i], s.cal[i]).ctrl)
        /\ CalmStep(k, reset_channel(k, i, s.cal[i]).ctrl)
    BY <1>1, <2>1, LoadChannelCalm
  <2> QED BY <1>3, <2>2 DEF CalmStep
<1>5. CalmStep(l, m)
  BY <1>1, AutoLoadPhases, SetSystemConfigCalm DEF l
<1> HIDE DEF m
<1> QED BY <1>2, <1>4, <1>5 DEF CalmStep, Calm, m

\* Every command of the worker keeps the histories, and budgets that fit.
LEMMA CommandCalm ==
    ASSUME Inv, BudgetsFit, CountFits(DefaultConfig),
           OutputCommand \/ OtherCommand \/ DriverFault
    PROVE  CalmStep(ctrl, ctrl')
<1>0. ControllerInv(ctrl) /\ nvs \in Settings /\ CalmStep(ctrl, ctrl)
  BY IdleCalm DEF Inv
<1>1. ASSUME NEW i \in Channels, NEW action \in HostOutputActions, OutputAction(i, action)
      PROVE  CalmStep(ctrl, ctrl')
  <2>1. Calm(ctrl.channels[i], vc_channel_output_action(ctrl.channels[i], action).ch)
    BY <1>0, ChannelBudgeted, OutputActionBudget
  <2> QED BY <1>0, <1>1, <2>1, OnChannelCalm
        DEF OutputAction, vc_controller_channel_output_action, Answer
<1>2. ASSUME NEW mode \in HostModes, SetOperatingMode(mode)
      PROVE  CalmStep(ctrl, ctrl')
  BY <1>0, <1>2, SetModeCalm DEF SetOperatingMode
<1>3. ASSUME NEW policy \in HostPolicies, SetStartupPolicy(policy)
      PROVE  CalmStep(ctrl, ctrl')
  <2>1. [ctrl.sys_cfg EXCEPT !.startup_channel_policy = policy] \in VcSystemConfig
    BY <1>0, ControllerAssumption DEF ControllerInv, VcControllerState, VcSystemConfig
  <2> QED BY <1>0, <1>3, <2>1, SetSystemConfigCalm DEF SetStartupPolicy
<1>4. ASSUME NEW value \in {"CAL_UNLOCK_STEP1", "CAL_UNLOCK_STEP2", "OTHER"},
             CalibrationUnlock(value)
      PROVE  CalmStep(ctrl, ctrl')
  <2>1. ctrl'.channels = ctrl.channels
    BY <1>0, <1>4 DEF CalibrationUnlock, vc_controller_calibration_unlock, Answer,
                      ControllerInv, VcControllerState
  <2> QED BY <2>1, IdleCalm
<1>5. CASE CalExit
  BY <1>0, <1>5, SetModeCalm DEF CalExit
<1>6. CASE SystemSave
  BY <1>0, <1>6 DEF SystemSave
<1>7. CASE SystemLoad
  <2>1. PICK r \in ReadKey(nvs.sys) :
            ctrl' = IF r = NoRecord THEN ctrl
                    ELSE vc_controller_set_system_config(ctrl, r).ctrl
    BY <1>7 DEF SystemLoad
  <2>2. r \in VcSystemConfig \cup {NoRecord}
    BY <1>0 DEF ReadKey, Settings
  <2> QED BY <1>0, <2>1, <2>2, SetSystemConfigCalm
<1>8. CASE SystemFactoryReset
  <2>1. ctrl'.channels = ctrl.channels
    BY <1>0, <1>8 DEF SystemFactoryReset, reset_system, ControllerInv, VcControllerState
  <2> QED BY <2>1, IdleCalm
<1>9. ASSUME NEW i \in Channels, NEW cmd \in HostFaultCommands, FaultCommand(i, cmd)
      PROVE  CalmStep(ctrl, ctrl')
  <2>1. Calm(ctrl.channels[i], vc_channel_fault_command(ctrl.channels[i], cmd).ch)
    BY <1>0, ChannelBudgeted, FaultCommandBudget
  <2> QED BY <1>0, <1>9, <2>1, OnChannelCalm DEF FaultCommand
<1>10. ASSUME NEW i \in Channels, NEW w \in HostWrites, SetChannelField(i, w)
       PROVE  CalmStep(ctrl, ctrl')
  BY <1>0, <1>10, SetFieldCalm DEF SetChannelField
<1>11. ASSUME NEW i \in Channels, NEW w \in HostCalWrites, SetCalField(i, w)
       PROVE  CalmStep(ctrl, ctrl')
  <2>1. SameBudget(ctrl.channels[i],
                   vc_channel_set_cal_field(ctrl.channels[i], w.field, w.value).ch)
    BY <1>0, ChannelBudgeted, CalibrationBudget
  <2> QED BY <1>0, <1>11, <2>1, CalCommandCalm DEF SetCalField
<1>12. ASSUME NEW i \in Channels, NEW enable \in BOOLEAN, CalOutputEnable(i, enable)
       PROVE  CalmStep(ctrl, ctrl')
  <2>1. SameBudget(ctrl.channels[i],
                   vc_channel_cal_set_output_enable(ctrl.channels[i], enable).ch)
    BY <1>0, ChannelBudgeted, CalibrationBudget
  <2>2. CalmStep(ctrl, cal_command(ctrl, i,
                 vc_channel_cal_set_output_enable(ctrl.channels[i], enable)).ctrl)
    BY <1>0, <2>1, CalCommandCalm
  <2> QED BY <1>0, <1>12, <2>2 DEF CalOutputEnable, vc_controller_channel_cal_output_enable,
                                   Answer
<1>13. ASSUME NEW i \in Channels, NEW code \in HostRawDacs, CalRawDac(i, code)
       PROVE  CalmStep(ctrl, ctrl')
  <2>1. SameBudget(ctrl.channels[i], vc_channel_cal_set_raw_dac(ctrl.channels[i], code).ch)
    BY <1>0, ChannelBudgeted, CalibrationBudget
  <2> QED BY <1>0, <1>13, <2>1, CalCommandCalm DEF CalRawDac
<1>14. ASSUME NEW i \in Channels, CalSample(i) \/ CalCommit(i)
       PROVE  CalmStep(ctrl, ctrl')
  <2>1. /\ vc_channel_cal_sample(ctrl.channels[i]).ch = ctrl.channels[i]
        /\ vc_channel_cal_commit(ctrl.channels[i]).ch = ctrl.channels[i]
    BY DEF vc_channel_cal_sample, vc_channel_cal_commit, Reply
  <2>2. SameBudget(ctrl.channels[i], ctrl.channels[i])
    BY DEF SameBudget
  <2>3. /\ CalmStep(ctrl, cal_command(ctrl, i, vc_channel_cal_sample(ctrl.channels[i])).ctrl)
        /\ CalmStep(ctrl, cal_command(ctrl, i, vc_channel_cal_commit(ctrl.channels[i])).ctrl)
    BY <1>0, <2>1, <2>2, CalCommandCalm
  <2> QED BY <1>14, <2>3 DEF CalSample, CalCommit
<1>15. ASSUME NEW i \in Channels, ChannelSave(i)
       PROVE  CalmStep(ctrl, ctrl')
  BY <1>0, <1>15 DEF ChannelSave
<1>16. ASSUME NEW i \in Channels, ChannelLoad(i) \/ ChannelFactoryReset(i)
       PROVE  CalmStep(ctrl, ctrl')
  <2>1. /\ nvs.cfg[i] \in VcChannelConfig \cup {NoRecord}
        /\ nvs.cfg[i] # NoRecord => CountFits(nvs.cfg[i])
    BY <1>0 DEF Settings, BudgetsFit
  <2>2. \A cal : /\ CalmStep(ctrl, load_channel(ctrl, i, nvs.cfg[i], cal).ctrl)
                 /\ CalmStep(ctrl, reset_channel(ctrl, i, cal).ctrl)
    BY <1>0, <2>1, LoadChannelCalm
  <2> QED BY <1>0, <1>16, <2>2 DEF ChannelLoad, ChannelFactoryReset
<1>17. CASE DriverFault
  <2>1. PICK i \in Channels, cause \in DriverFaults : ConsumeFault(i, cause)
    BY <1>17 DEF DriverFault
  <2> DEFINE d == vc_channel_consume_fault(ctrl.channels[i], cause)
  <2>2. Calm(ctrl.channels[i], d)
    BY <1>0, ChannelBudgeted, FaultCommandBudget
  <2>3. ctrl'.channels = [ctrl.channels EXCEPT ![i] = d]
    BY <1>0, <2>1 DEF ConsumeFault, ControllerInv, VcControllerState
  <2> HIDE DEF d
  <2> QED BY <1>0, <2>2, <2>3, OneChannelCalm
<1> QED BY <1>1, <1>2, <1>3, <1>4, <1>5, <1>6, <1>7, <1>8, <1>9, <1>10, <1>11, <1>12,
           <1>13, <1>14, <1>15, <1>16, <1>17 DEF OutputCommand, OtherCommand

\* The histories witness what the observer saw.
AllWitnessed == \A i \in Channels : Witnesses(ctrl.channels[i].retry_ages, retries[i])

\* A retry within the budget that the history counts is within the budget.
LEMMA RetryWithinBudget ==
    ASSUME NEW h \in Histories, NEW r, Witnesses(h, r), NEW w \in Nat, NEW max \in Nat,
           max <= MaxRetryHistory,
           ~(Cardinality({k \in 1 .. Len(h) : h[k] <= w}) >= max)
    PROVE  Cardinality({k \in DOMAIN Append(r, 0) : Append(r, 0)[k] <= w}) <= max
<1> DEFINE B == {k \in 1 .. Len(h) : h[k] <= w}
           A == {k \in 1 .. Len(r) : r[k] <= w}
           S == {k \in DOMAIN Append(r, 0) : Append(r, 0)[k] <= w}
<1>1. Cardinality(B) \in Nat
  <2>1. Len(h) \in Nat
    BY DEF Histories
  <2>2. IsFiniteSet(1 .. Len(h))
    BY <2>1, FS_Interval
  <2>3. IsFiniteSet(B)
    BY <2>2, FS_Subset
  <2> QED BY <2>3, FS_CardinalityType
<1>2. Cardinality(B) < max /\ Cardinality(B) < MaxRetryHistory
  <2>1. ~(Cardinality(B) >= max)
    OBVIOUS
  <2> HIDE DEF B
  <2> QED BY <1>1, <2>1, ChannelAssumption
<1>3. IsFiniteSet(A) /\ Cardinality(A) <= Cardinality(B)
  BY <1>2, CountsAll
<1>4. S \subseteq A \cup {Len(r) + 1}
  <2>1. r \in Seq(Nat) /\ Len(r) \in Nat
    BY DEF Witnesses
  <2>2. /\ DOMAIN Append(r, 0) = 1 .. Len(r) + 1
        /\ \A k \in 1 .. Len(r) : Append(r, 0)[k] = r[k]
    BY <2>1, AppendProperties
  <2> QED BY <2>1, <2>2
<1> HIDE DEF A, B, S
<1>5. /\ IsFiniteSet(A \cup {Len(r) + 1})
      /\ Cardinality(A \cup {Len(r) + 1}) <= Cardinality(A) + 1
  <2>1. Cardinality(A) \in Nat
    BY <1>3, FS_CardinalityType
  <2>2. /\ IsFiniteSet(A \cup {Len(r) + 1})
        /\ Cardinality(A \cup {Len(r) + 1}) \in {Cardinality(A), Cardinality(A) + 1}
    BY <1>3, FS_AddElement
  <2> QED BY <2>1, <2>2
<1>6. Cardinality(S) <= Cardinality(A \cup {Len(r) + 1}) /\ IsFiniteSet(S)
  BY <1>4, <1>5, FS_Subset
<1>7. /\ Cardinality(A) \in Nat /\ Cardinality(S) \in Nat
      /\ Cardinality(A \cup {Len(r) + 1}) \in Nat
  BY <1>3, <1>5, <1>6, FS_CardinalityType
<1>8. Cardinality(S) <= max
  BY <1>1, <1>2, <1>3, <1>5, <1>6, <1>7
<1> QED BY <1>8 DEF S

\* A history, and the same a tick later.
LEMMA AgedHistory ==
    ASSUME NEW c, Good(c), NEW dt \in Nat
    PROVE  c.retry_ages \in Histories /\ Aged(c.retry_ages, dt) \in Histories
<1> DEFINE d == [c EXCEPT !.retry_ages = [k \in DOMAIN @ |-> (@[k] + dt) % UptimeMod]]
<1>1. Good(d)
  BY AgeGood
<1>2. d.retry_ages = Aged(c.retry_ages, dt)
  BY DEF Good, Sound, VcChannel, Aged
<1> HIDE DEF d
<1>3. /\ c.retry_ages \in Seq(0 .. UptimeMod - 1) /\ Len(c.retry_ages) <= MaxRetryHistory
      /\ d.retry_ages \in Seq(0 .. UptimeMod - 1) /\ Len(d.retry_ages) <= MaxRetryHistory
  BY <1>1 DEF Good, Sound, VcChannel
<1> QED BY <1>2, <1>3 DEF Histories

\* A tick: the history of each channel witnesses what the observer saw, and a retry is
\* within the budget.
LEMMA TickWitnessed ==
    ASSUME Inv, BudgetsFit, AllWitnessed, NEW dt \in TickLengths, LogTick(dt),
           NEW i \in Channels
    PROVE  /\ Witnesses(ctrl'.channels[i].retry_ages, retries'[i])
           /\ CountFits(ctrl'.channels[i].config)
           /\ Retried(i) =>
                  Cardinality({k \in DOMAIN retries'[i] :
                                  retries'[i][k] <= ctrl'.channels[i].config.auto_retry_window})
                      <= ctrl'.channels[i].config.auto_retry_max_count
<1> DEFINE c == ctrl.channels[i]
           d == ctrl'.channels[i]
           h == c.retry_ages
           a == Aged(h, dt)
           o == Remembered(Older(retries[i], dt))
<1>1. /\ ControllerInv(ctrl) /\ Good(c) /\ CountFits(c.config) /\ dt \in Nat
      /\ c \in VcChannel /\ Witnesses(h, retries[i])
  BY ControllerAssumption DEF Inv, ControllerInv, BudgetsFit, AllWitnessed, Good, Sound
<1>2. h \in Histories /\ a \in Histories
  BY <1>1, AgedHistory
<1>3. Witnesses(h, o) /\ Witnesses(a, o)
  BY <1>1, <1>2, OlderWitnessed, RememberedWitnessed DEF Aged
<1>4. retries'[i] = IF Retried(i) THEN Append(o, 0) ELSE o
  BY DEF LogTick
<1>5. PICK v \in [Channels -> RawVoltages \cup {NoSample}],
           s \in [Channels -> RawCurrents \cup {NoSample}] :
          ctrl' = vc_controller_tick(ctrl, dt, v, s)
  BY DEF LogTick, Tick
<1>6. v[i] \in Int \cup {NoSample} /\ s[i] \in Int \cup {NoSample}
  BY ControllerAssumption
<1>7. Retried(i) => c.active_fault_cause = {"CURRENT"} /\ d.active_fault_cause = {}
  BY DEF Retried
<1>8. CASE ctrl.operating_mode = "CALIBRATION"
  <2>1. Calm(c, d) /\ d.active_fault_cause = c.active_fault_cause
    <3>1. CASE dt >= ctrl.cal_watchdog
      <4>1. ctrl' = vc_controller_set_operating_mode(ctrl, ctrl.pre_cal_mode).ctrl
        BY <1>5, <1>8, <3>1 DEF vc_controller_tick, vc_controller_cal_exit
      <4>2. CalmStep(ctrl, ctrl') /\ SameFaults(ctrl, ctrl')
        BY <1>1, <4>1, SetModeCalm, SetModeStep
      <4> QED BY <4>2 DEF CalmStep, SameFaults
    <3>2. CASE ~(dt >= ctrl.cal_watchdog)
      <4>1. ctrl'.channels = ctrl.channels
        BY <1>1, <1>5, <1>8, <3>2 DEF vc_controller_tick, ControllerInv, VcControllerState
      <4> QED BY <4>1 DEF Calm
    <3> QED BY <3>1, <3>2
  <2>2. ~Retried(i) /\ d.retry_ages = h /\ CountFits(d.config)
    BY <1>1, <1>7, <2>1 DEF Calm
  <2> QED BY <1>3, <1>4, <2>2
<1>9. CASE ctrl.operating_mode # "CALIBRATION"
  <2>1. d = vc_channel_run(c, dt, v[i], s[i], ctrl.sys_cfg.operating_mode)
    BY <1>1, <1>5, <1>9 DEF vc_controller_tick, ControllerInv, VcControllerState
  <2>2. /\ d.config = c.config
        /\ d.retry_ages \in {a, Retrying(a)}
        /\ c.active_fault_cause # {} /\ d.active_fault_cause = {} =>
               /\ d.retry_ages = Retrying(a)
               /\ ~(Cardinality({k \in 1 .. Len(a) : a[k] <= c.config.auto_retry_window})
                      >= c.config.auto_retry_max_count)
    <3>1. Good(c) /\ dt \in Nat
      BY <1>1
    <3>2. Spends(c, dt, d)
      <4> HIDE DEF c, d
      <4> QED BY <1>6, <2>1, <3>1, RunBudget
    <3> QED BY <3>2 DEF Spends
  <2>3. Witnesses(Retrying(a), o) /\ Witnesses(Retrying(a), Append(o, 0))
    BY <1>2, <1>3, UncountedWitnessed, RecordWitnessed DEF Retrying
  <2>4. CASE Retried(i)
    <3>1. /\ c.config.auto_retry_window \in Nat /\ c.config.auto_retry_max_count \in Nat
          /\ c.config.auto_retry_max_count <= MaxRetryHistory
      BY <1>1 DEF VcChannel, VcChannelConfig, CountFits
    <3>2. /\ d.retry_ages = Retrying(a)
          /\ ~(Cardinality({k \in 1 .. Len(a) : a[k] <= c.config.auto_retry_window})
                 >= c.config.auto_retry_max_count)
      BY <1>7, <2>2, <2>4
    <3> HIDE DEF a, o, c, d
    <3>3. Cardinality({k \in DOMAIN Append(o, 0) :
                          Append(o, 0)[k] <= c.config.auto_retry_window})
            <= c.config.auto_retry_max_count
      BY <1>2, <1>3, <3>1, <3>2, RetryWithinBudget
    <3> QED BY <1>1, <1>4, <2>2, <2>3, <2>4, <3>2, <3>3 DEF d
  <2>5. CASE ~Retried(i)
    BY <1>1, <1>3, <1>4, <2>2, <2>3, <2>5
  <2> QED BY <2>4, <2>5
<1> QED BY <1>8, <1>9

\* No retry exceeds the budget that is configured when it is made, between two resets and
\* as an observer with a true clock counts: not by rewriting the window or the maximum,
\* not when the history is full, its clock wraps or it stands still in calibration.
THEOREM RetriesWithinBudget == CountsFit => (LogSpec => RetryBudget)
<1> SUFFICES ASSUME CountsFit PROVE LogSpec => RetryBudget
  OBVIOUS
<1> DEFINE LogInv == BudgetsFit /\ AllWitnessed
           Within == \A i \in Channels :
                         Retried(i) /\ (\E dt \in TickLengths : LogTick(dt)) =>
                             Cardinality(Spent(i)') <= ctrl'.channels[i].config.auto_retry_max_count
<1>1. \A r, i : r = [j \in Channels |-> << >>] /\ i \in Channels => Witnesses(<< >>, r[i])
  BY DEF Witnesses
<1>2. LogInit => Init /\ LogInv
  <2> SUFFICES ASSUME LogInit PROVE Init /\ LogInv
    OBVIOUS
  <2>1. /\ Init /\ nvs \in Settings /\ nvs \in Commissioned /\ ctrl = auto_load(nvs)
        /\ retries = [i \in Channels |-> << >>]
    BY ControllerAssumption DEF LogInit, Init
  <2>2. \A i \in Channels : /\ ctrl.channels[i].retry_ages = << >>
                            /\ CountFits(ctrl.channels[i].config)
    BY <2>1, AutoLoadCalm DEF CountsFit
  <2> QED BY <1>1, <2>1, <2>2 DEF BudgetsFit, AllWitnessed, CountsFit
<1>3. [LogNext]_logVars => [Next]_vars
  BY DEF LogNext, LogTick, LogReboot, Next, logVars, vars
<1>4. LogInv /\ Inv /\ [LogNext]_logVars => LogInv' /\ [Within]_logVars
  <2> SUFFICES ASSUME LogInv, Inv, [LogNext]_logVars PROVE LogInv' /\ Within
    OBVIOUS
  <2>1. [Next]_vars /\ BudgetsFit /\ AllWitnessed /\ nvs \in Settings
    BY <1>3 DEF Inv
  <2>2. \A i \in Channels : nvs'.cfg[i] # NoRecord => CountFits(nvs'.cfg[i])
    BY <2>1, StoredConfig DEF BudgetsFit
  <2>3. ASSUME NEW dt \in TickLengths, LogTick(dt) PROVE LogInv' /\ Within
    <3>1. \A i \in Channels :
              /\ Witnesses(ctrl'.channels[i].retry_ages, retries'[i])
              /\ CountFits(ctrl'.channels[i].config)
              /\ Retried(i) =>
                     Cardinality({k \in DOMAIN retries'[i] :
                           retries'[i][k] <= ctrl'.channels[i].config.auto_retry_window})
                         <= ctrl'.channels[i].config.auto_retry_max_count
      BY <2>1, <2>3, TickWitnessed
    <3>2. Within
      BY <3>1 DEF Spent
    <3>3. LogInv'
      BY <2>2, <3>1 DEF BudgetsFit, AllWitnessed
    <3> QED BY <3>2, <3>3
  <2>4. ASSUME CalmStep(ctrl, ctrl'), UNCHANGED retries PROVE LogInv'
    BY <2>1, <2>2, <2>4 DEF BudgetsFit, AllWitnessed, CalmStep, Calm
  <2>5. ASSUME LogReboot PROVE LogInv'
    <3>1. PICK s \in ReadAll(nvs) : ctrl' = auto_load(s)
      BY <2>5 DEF LogReboot, Reboot
    <3>2. s \in Settings
      BY <2>1, <3>1, ReadAllType
    <3>3. \A i \in Channels : s.cfg[i] # NoRecord => CountFits(s.cfg[i])
      BY <2>1 DEF ReadAll, ReadKey, BudgetsFit
    <3>4. \A i \in Channels : /\ ctrl'.channels[i].retry_ages = << >>
                              /\ CountFits(ctrl'.channels[i].config)
      BY <3>1, <3>2, <3>3, AutoLoadCalm DEF CountsFit
    <3>5. retries' = [i \in Channels |-> << >>]
      BY <2>5 DEF LogReboot
    <3> QED BY <1>1, <2>2, <3>4, <3>5 DEF BudgetsFit, AllWitnessed
  <2>6. ASSUME OutputCommand \/ OtherCommand \/ DriverFault, UNCHANGED retries PROVE LogInv'
    BY <2>1, <2>4, <2>6, CommandCalm DEF CountsFit
  <2>7. ASSUME UNCHANGED logVars PROVE LogInv'
    BY <2>4, <2>7, IdleCalm DEF logVars
  <2>8. Within \/ \E dt \in TickLengths : LogTick(dt)
    OBVIOUS
  <2> QED BY <2>3, <2>5, <2>6, <2>7, <2>8 DEF LogNext
<1>5. LogSpec => Spec
  BY <1>2, <1>3, PTL DEF LogSpec, Spec
<1> QED BY <1>2, <1>4, <1>5, Invariance, PTL DEF LogSpec, RetryBudget
=============================================================================
