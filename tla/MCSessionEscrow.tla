-------------------------- MODULE MCSessionEscrow --------------------------
(* Instances of SessionEscrow for TLC. *)
EXTENDS SessionEscrow

CONSTANTS admin, alice, relay

\* Of the hours and values a caller may send, one is always accepted, one
\* is accepted for Turbo only, and the others are on the far side of a test.
MCHoursAsked == {0, 1, 24, 25}
MCValues == {0, 2, 20, 48, 50}
MCAmounts == {20}
=============================================================================
