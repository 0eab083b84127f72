-------------------------- MODULE MCRelayDirectory --------------------------
(* Instances of RelayDirectory for TLC. *)
EXTENDS RelayDirectory, TLC

CONSTANTS bob, charlie, p, q

CallerSymmetry == Permutations(Callers)
=============================================================================
