------------------------------- MODULE MCAcceptors -------------------------------
(* Instances of Acceptors for TLC. *)
EXTENDS Acceptors, TLC

\* Sessions of a port differ only in their names.
SessionSymmetry == Permutations(Sessions)
=============================================================================
