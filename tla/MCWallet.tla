------------------------------ MODULE MCWallet ------------------------------
(***************************************************************************)
(* A small instance of Wallet for TLC: one of two wallets has a second     *)
(* account to change to.                                                   *)
(***************************************************************************)
EXTENDS Wallet, TLC

CONSTANTS metamask, phantom, a1, a2, p1

AccountsOf == metamask :> {a1, a2} @@ phantom :> {p1}
=============================================================================
