------------------------------ MODULE MCIdleLock -------------------------------
(* Module IdleLock for TLC. *)
EXTENDS IdleLock, TLC

\* Connections are interchangeable.
ConnSymmetry == Permutations(Conns)
===============================================================================
