----------------------------- MODULE MCPurchase -----------------------------
(***************************************************************************)
(* A small instance of Purchase for TLC.                                   *)
(***************************************************************************)
EXTENDS Purchase, TLC

\* The relay of the standard tier may be gone.
SomeOffers == {{"turbo"}, {"standard", "turbo"}}

\* Out of range on either side: one hour or a day.
SomeHours == {-1, 100}

Symmetry == Permutations(Flows)
=============================================================================
