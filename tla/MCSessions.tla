------------------------------ MODULE MCSessions ------------------------------
(* Module Sessions for TLC. *)
EXTENDS Sessions, TLC

\* Connections are interchangeable.
ConnSymmetry == Permutations(Conns)
===============================================================================
