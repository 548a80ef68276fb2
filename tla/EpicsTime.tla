------------------------------ MODULE EpicsTime ------------------------------
(***************************************************************************)
(* Times of EPICS, seconds and nanoseconds, as the uint64 nanoseconds that *)
(* the converters f142 and TdcTime write and the fake client splits up.    *)
(***************************************************************************)
EXTENDS Integers

CONSTANTS
  Second,     \* nanoseconds in a second: 10^9 in the code, scaled down here
  Width       \* number of values of uint64: 2^64 in the code, scaled down

ASSUME TimeAssumption == Second \in Nat \ {0} /\ Width \in Nat \ {0}

\* Arithmetic in uint64 with operands that may be negative.
Nanoseconds(sec, nano) == (sec * Second + nano) % Width

\* A time of which the seconds fit.
ValidTime(sec, nano) == sec \in 0..((Width \div Second) - 1) /\ nano \in 0..(Second - 1)
=============================================================================
