------------------------------- MODULE Macros -------------------------------
(***************************************************************************)
(* macros.ts: ENet's C macros that compare times, and those that pack a    *)
(* version, rewritten in JS, where numbers do not wrap at 32 bits and %    *)
(* takes the sign of its left operand.                                     *)
(*                                                                         *)
(* A program remembers times of enet.time.get and compares them later,     *)
(* while ENet's clock ticks on and wraps.  enet.time.set moves the clock;  *)
(* times from before that say nothing, and the program drops them.         *)
(***************************************************************************)
EXTENDS Integers

CONSTANTS
    UINT32_RANGE,
    Overflow,       \* ENET_TIME_OVERFLOW
    COMPONENT_RANGE,
    MaxTicks        \* bound: how long the clock runs

ASSUME MacrosAssumption ==
    /\ Overflow \in Nat \ {0}
    /\ UINT32_RANGE \in Nat /\ UINT32_RANGE >= 2 * Overflow
    /\ COMPONENT_RANGE \in Nat \ {0}
    /\ MaxTicks \in Nat

-----------------------------------------------------------------------------
\* What % is in JS: the remainder of a division that rounds towards zero.
Rem(n, d) == IF n >= 0 THEN n % d ELSE -((-n) % d)

\* Mutant of timeSubtract: the remainder is not made positive.
SignedSubtract(left, right) == Rem(left - right, UINT32_RANGE)

timeSubtract(left, right) == Rem(Rem(left - right, UINT32_RANGE) + UINT32_RANGE, UINT32_RANGE)

\* Mutant of TIME_LESS: times compare like numbers.
PlainLess(left, right) == left < right

TIME_LESS(left, right) == timeSubtract(left, right) >= Overflow

TIME_GREATER(left, right) == timeSubtract(right, left) >= Overflow

TIME_LESS_EQUAL(left, right) == ~TIME_GREATER(left, right)

TIME_GREATER_EQUAL(left, right) == ~TIME_LESS(left, right)

TIME_DIFFERENCE(left, right) ==
    IF TIME_LESS(left, right) THEN timeSubtract(right, left) ELSE timeSubtract(left, right)

VERSION_CREATE(major, minor, patch) ==
    major * (COMPONENT_RANGE * COMPONENT_RANGE) + minor * COMPONENT_RANGE + patch

VERSION_GET_MAJOR(version) == (version \div (COMPONENT_RANGE * COMPONENT_RANGE)) % COMPONENT_RANGE

VERSION_GET_MINOR(version) == (version \div COMPONENT_RANGE) % COMPONENT_RANGE

VERSION_GET_PATCH(version) == version % COMPONENT_RANGE

-----------------------------------------------------------------------------
VARIABLES
    base,       \* what enet.time.get returned when the clock was last set
    ticks,      \* the milliseconds since
    remembered  \* history: after how many of them the program asked for the time

vars == <<base, ticks, remembered>>

TypeOK ==
    /\ base \in 0..(UINT32_RANGE - 1)
    /\ ticks \in 0..MaxTicks
    /\ remembered \subseteq 0..ticks

Init ==
    /\ base \in 0..(UINT32_RANGE - 1)
    /\ ticks = 0
    /\ remembered = {}

\* What enet.time.get returns after so many milliseconds: an enet_uint32.
Stamp(t) == (base + t) % UINT32_RANGE

Tick ==
    /\ ticks < MaxTicks
    /\ ticks' = ticks + 1
    /\ UNCHANGED <<base, remembered>>

\* enet.time.get
Get ==
    /\ remembered' = remembered \cup {ticks}
    /\ UNCHANGED <<base, ticks>>

\* Mutant of Set: the program keeps its times although the clock moved.
SetKeepingTimes(time) ==
    /\ base' = time
    /\ ticks' = 0
    /\ UNCHANGED remembered

\* enet.time.set
Set(time) ==
    /\ base' = time
    /\ ticks' = 0
    /\ remembered' = {}

Next == Tick \/ Get \/ \E time \in 0..(UINT32_RANGE - 1) : Set(time)

Spec == Init /\ [][Next]_vars

-----------------------------------------------------------------------------
\* macros.ts 26-38: times less than ENET_TIME_OVERFLOW apart compare as the
\* moments they were taken at, also if the clock wrapped between them.
ComparesMoments ==
    \A s, t \in remembered :
        s - t < Overflow /\ t - s < Overflow =>
            /\ TIME_LESS(Stamp(s), Stamp(t)) <=> s < t
            /\ TIME_GREATER(Stamp(s), Stamp(t)) <=> s > t
            /\ TIME_LESS_EQUAL(Stamp(s), Stamp(t)) <=> s <= t
            /\ TIME_GREATER_EQUAL(Stamp(s), Stamp(t)) <=> s >= t

\* macros.ts 40-43: their difference is the time that passed, whichever is first.
DifferenceIsElapsed ==
    \A s, t \in remembered :
        s <= t /\ t - s < Overflow =>
            /\ TIME_DIFFERENCE(Stamp(s), Stamp(t)) = t - s
            /\ TIME_DIFFERENCE(Stamp(t), Stamp(s)) = t - s
=============================================================================
