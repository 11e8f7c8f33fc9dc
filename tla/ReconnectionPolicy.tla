-------------------------- MODULE ReconnectionPolicy --------------------------
(***************************************************************************)
(* The delays between attempts to connect                                  *)
(* (cdrs-tokio/src/retry/reconnection_policy.rs).  A schedule is a record  *)
(* [kind, base, max, max_attempts, attempt]; times are natural numbers.    *)
(***************************************************************************)
EXTENDS Integers

CONSTANTS
    NoDelay,        \* next_delay() returned None: give up
    Jitters,        \* random_range(85..116)
    ShiftWidth      \* of a u32, the multiplier's and the shift's type: 32 bits

ASSUME JitterAssumption == Jitters \subseteq 85..115
ASSUME ShiftAssumption == ShiftWidth \in Nat \ {0}

Smaller(a, b) == IF a < b THEN a ELSE b
Clamp(x, low, high) == IF x < low THEN low ELSE IF x > high THEN high ELSE x

ConstantPolicy(base) ==
    [kind |-> "constant", base |-> base, max |-> base, max_attempts |-> 0, attempt |-> 0]
NeverPolicy == [kind |-> "never", base |-> 0, max |-> 0, max_attempts |-> 0, attempt |-> 0]
ExponentialPolicy(base, max, attempts) ==
    [kind |-> "exponential", base |-> base, max |-> max, max_attempts |-> attempts, attempt |-> 0]

PowerOfTwo[n \in Nat] == IF n = 0 THEN 1 ELSE 2 * PowerOfTwo[n - 1]

\* self.attempt as u32
AsU32(n) == n % PowerOfTwo[ShiftWidth]

\* 1u32.checked_shl(n as u32).unwrap_or(u32::MAX)
Shifted(n) ==
    IF AsU32(n) < ShiftWidth THEN PowerOfTwo[AsU32(n)] ELSE PowerOfTwo[ShiftWidth] - 1

\* What the constructors make.  Duration::clamp panics unless base <= max.
IsPolicy(p) ==
    /\ {p.base, p.max, p.max_attempts} \subseteq Nat
    /\ \/ p = NeverPolicy \/ p = ConstantPolicy(p.base)
       \/ p = ExponentialPolicy(p.base, p.max, p.max_attempts) /\ p.base <= p.max

\* Faulty variant: the first attempt is never left.
StuckNextDelay(s) ==
    CASE s.kind = "constant" -> {[delay |-> s.base, schedule |-> s]}
      [] s.kind = "never"    -> {[delay |-> NoDelay, schedule |-> s]}
      [] s.kind = "exponential" ->
            IF s.attempt = s.max_attempts THEN {[delay |-> s.max, schedule |-> s]}
            ELSE {[delay |-> s.base, schedule |-> [s EXCEPT !.attempt = @ + 1]]}

\* The delays next_delay() can return, each with the schedule it leaves.
NextDelay(s) ==
    CASE s.kind = "constant" -> {[delay |-> s.base, schedule |-> s]}
      [] s.kind = "never"    -> {[delay |-> NoDelay, schedule |-> s]}
      [] s.kind = "exponential" ->
            IF s.attempt = s.max_attempts THEN {[delay |-> s.max, schedule |-> s]}
            ELSE LET delay == Smaller(s.base * Shifted(s.attempt + 1), s.max)
                 IN {[delay |-> Clamp((delay \div 100) * jitter, s.base, s.max),
                      schedule |-> [s EXCEPT !.attempt = @ + 1]] : jitter \in Jitters}
=============================================================================
