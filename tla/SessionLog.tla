----------------------------- MODULE SessionLog -----------------------------
(***************************************************************************)
(* The session log as its readers take it: which row the routes of         *)
(* apps/orchestrator may write after which.  SessionPage, which reads the  *)
(* log, assumes it; Orchestrator, which writes it, keeps it for every      *)
(* session that no two handlers recorded at once.                          *)
(***************************************************************************)
EXTENDS SessionSpec

CONSTANTS Relays, Null

\* States some route records.
Written == States \ {"BROWSING", "QUOTED", "RELAY_REVOKED", "SESSION_COMPLETE"}

\* The first row of a session: paid, with the relay chosen for it.
First(row) == row.to = "PAID" /\ row.relay \in Relays

\* The row after last: an edge of the table.  The relay stays, until a
\* failover selects another one; the row that ends a session names none.
MayFollow(last, row) ==
  /\ row.to \in Written
  /\ IsValidTransition(last.to, row.to)
  /\ IF row.to = "EXPIRED_NORMAL" THEN row.relay = Null
     ELSE /\ row.relay \in Relays
          /\ row.relay # last.relay <=> last.to = "FAILOVER_SELECT"
=============================================================================
