---------------------------- MODULE MCEpicsMonitor ----------------------------
(* Instances of EpicsMonitor for TLC. *)
EXTENDS EpicsMonitor, TLC

\* The callback threads are interchangeable, and the properties are
\* invariants.
CallerSymmetry == Permutations(Callers)
=============================================================================
