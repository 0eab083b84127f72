---------------------------- MODULE SessionSpec ----------------------------
(***************************************************************************)
(* packages/session-spec: the states of a VPN session and the transition   *)
(* table every component shares.                                           *)
(***************************************************************************)

States ==
  {"BROWSING", "QUOTED", "PAID", "TOKEN_ISSUED", "TUNNEL_OPEN", "ACTIVE",
   "EXPIRED_NORMAL", "RELAY_REVOKED", "RELAY_UNREACHABLE",
   "FAILOVER_SELECT", "SESSION_COMPLETE"}

Transitions ==
  [BROWSING          |-> {"QUOTED"},
   QUOTED            |-> {"PAID"},
   PAID              |-> {"TOKEN_ISSUED"},
   TOKEN_ISSUED      |-> {"TUNNEL_OPEN"},
   TUNNEL_OPEN       |-> {"ACTIVE"},
   ACTIVE            |-> {"EXPIRED_NORMAL", "RELAY_REVOKED", "RELAY_UNREACHABLE"},
   RELAY_REVOKED     |-> {"FAILOVER_SELECT"},
   RELAY_UNREACHABLE |-> {"FAILOVER_SELECT"},
   FAILOVER_SELECT   |-> {"TUNNEL_OPEN"},
   EXPIRED_NORMAL    |-> {"SESSION_COMPLETE"},
   SESSION_COMPLETE  |-> {}]

IsValidTransition(from, to) == to \in Transitions[from]
=============================================================================
