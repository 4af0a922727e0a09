------------------------------- MODULE VcRamp -------------------------------
(***************************************************************************)
(* The integer arithmetic of the voltage-control channel:                  *)
(* lib/voltage_control/vc_channel.c.  Widths are parameters, so that TLC   *)
(* can enumerate a whole word: an int16_t is -(IntMax + 1) .. IntMax (the  *)
(* code has IntMax = 32767) and a uint16_t is 0 .. WordMax.                *)
(*                                                                         *)
(* There is no RECURSIVE operator here: the ramp loop is a recursive       *)
(* function, so that proof modules may use this one.                       *)
(***************************************************************************)
EXTENDS Integers

CONSTANT IntMax    \* INT16_MAX

ASSUME IntMaxAssumption == IntMax \in Nat \ {0}

Int16   == -(IntMax + 1) .. IntMax
WordMax == 2 * IntMax + 1
Word    == 0 .. WordMax

\* The sum or difference of two int16_t stored back into an int16_t: it wraps
\* at most once.
WrapInt16(x) ==
    IF x > IntMax THEN x - 2 * (IntMax + 1)
    ELSE IF x < -(IntMax + 1) THEN x + 2 * (IntMax + 1)
    ELSE x

\* The cast (int16_t)word.
CastInt16(w) == IF w > IntMax THEN w - 2 * (IntMax + 1) ELSE w

\* C division truncates toward zero; \div rounds down.
CDiv(a, b) == IF a >= 0 THEN a \div b ELSE -((-a) \div b)

vc_pow10_table ==
    <<1, 10, 100, 1000, 10000, 100000, 1000000, 10000000, 100000000, 1000000000>>

\* apply_gain: mantissa x 10^exp (exp is in -9 .. 4), the division truncating.
apply_gain(raw, mantissa, exp) ==
    IF exp > 0 THEN raw * mantissa * vc_pow10_table[exp + 1]
    ELSE IF exp < 0 THEN CDiv(raw * mantissa, vc_pow10_table[1 - exp])
    ELSE raw * mantissa

clamp_int16(x) ==
    IF x > IntMax THEN IntMax
    ELSE IF x < -(IntMax + 1) THEN -(IntMax + 1)
    ELSE x

\* One iteration of the while loop of vc_channel_tick_ramp.
ramp_step(current, target, step) ==
    IF current < target
    THEN LET next == WrapInt16(current + CastInt16(step))
         IN  IF next > target THEN target ELSE next
    ELSE LET next == WrapInt16(current - CastInt16(step))
         IN  IF next < target THEN target ELSE next

\* The whole loop: a step for every full interval in the accumulator, until
\* the target is reached.
ramp_loop(current, target, step, interval, accum) ==
    LET loop[s \in [current : Int16, accum : 0 .. accum]] ==
            IF s.accum >= interval /\ s.current # target
            THEN loop[[current |-> ramp_step(s.current, target, step),
                       accum   |-> s.accum - interval]]
            ELSE s
    IN  loop[[current |-> current, accum |-> accum]]

(***************************************************************************)
(* The loop in closed form, which is what the channel model uses: a loop   *)
(* never changes direction, since a step that passes the target stops on   *)
(* it.  VcController_proofs proves for every width that it is the loop.    *)
(***************************************************************************)
\* Where k steps lead from current, if none of them reaches the target.
ramp_at(current, target, step, k) ==
    LET s == CastInt16(step)
        x == IF current < target THEN current + k * s ELSE current - k * s
    IN  ((x + IntMax + 1) % (2 * (IntMax + 1))) - (IntMax + 1)

\* The numbers of steps, of the n that are due, that reach or pass the target.
ramp_arrivals(current, target, step, n) ==
    {k \in 1 .. n : IF current < target THEN ramp_at(current, target, step, k) >= target
                                        ELSE ramp_at(current, target, step, k) <= target}

Least(S) == CHOOSE k \in S : \A j \in S : k <= j

\* Mutant: a step that passes the target is not cut short.
ramp_walk_overshoots(current, target, step, interval, accum) ==
    LET n        == accum \div interval
        arrivals == ramp_arrivals(current, target, step, n)
    IN  IF arrivals = {}
        THEN [current |-> ramp_at(current, target, step, n), accum |-> accum - n * interval]
        ELSE [current |-> ramp_at(current, target, step, Least(arrivals)),
              accum |-> accum - Least(arrivals) * interval]

ramp_walk(current, target, step, interval, accum) ==
    LET n        == accum \div interval
        arrivals == ramp_arrivals(current, target, step, n)
    IN  IF arrivals = {}
        THEN [current |-> ramp_at(current, target, step, n), accum |-> accum - n * interval]
        ELSE [current |-> target, accum |-> accum - Least(arrivals) * interval]
=============================================================================
