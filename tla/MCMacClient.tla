---------------------------- MODULE MCMacClient ----------------------------
(***************************************************************************)
(* Small instances of MacClient for TLC.                                   *)
(***************************************************************************)
EXTENDS MacClient, TLC

CONSTANTS wifi, ethernet

\* Instances are interchangeable, and so are the services.
Symmetry == Permutations(Instances) \cup Permutations({wifi, ethernet})
=============================================================================
