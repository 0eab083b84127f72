--------------------------- MODULE MCOrchestrator ---------------------------
(***************************************************************************)
(* Small instances of Orchestrator for TLC.  Two tiers and two relays: one *)
(* relay offers both tiers, the other only t1, so a failover finds another *)
(* relay in t1 and none in t2.                                             *)
(***************************************************************************)
EXTENDS Orchestrator, TLC

CONSTANTS r1, r2, t1, t2

MCOffers == [r \in Relays |-> IF r = r1 THEN Tiers ELSE Tiers \ {t2}]

HandlerSymmetry == Permutations(Handlers)
=============================================================================
