-------------------------------- MODULE SeqArith -------------------------------
(***************************************************************************)
(* Sequence-number arithmetic: the comparators of SeqManager<T>            *)
(* (core/src/rtc/seq_manager.cpp) and the unsigned subtraction the code    *)
(* writes with uint16_t and uint32_t, for a type with mod values.          *)
(***************************************************************************)
EXTENDS Integers

\* MaxValue / 2, with MaxValue = mod - 1
HalfRange(mod) == (mod - 1) \div 2

IsSeqLowerThan(lhs, rhs, mod) ==
    \/ rhs > lhs /\ rhs - lhs <= HalfRange(mod)
    \/ lhs > rhs /\ lhs - rhs > HalfRange(mod)

IsSeqHigherThan(lhs, rhs, mod) ==
    \/ lhs > rhs /\ lhs - rhs <= HalfRange(mod)
    \/ rhs > lhs /\ rhs - lhs > HalfRange(mod)

\* lhs - rhs in an unsigned type with mod values
Minus(lhs, rhs, mod) == IF lhs >= rhs THEN lhs - rhs ELSE lhs - rhs + mod

\* lhs + rhs in an unsigned type with mod values
Plus(lhs, rhs, mod) == IF lhs + rhs < mod THEN lhs + rhs ELSE lhs + rhs - mod
================================================================================
