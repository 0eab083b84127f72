---------------------------- MODULE TunnelServer ----------------------------
(***************************************************************************)
(* relay/handler_cre/tunnel-server: the CONNECT proxies of the relays, and *)
(* the tunnels one session's token opens through them while the session    *)
(* fails over and expires.  A relay never hears of a session's end.        *)
(*                                                                         *)
(* A tunnel is two sockets of a Node process, joined by pipes.  Destroying *)
(* a socket takes effect at once; its "error" and "close" events are       *)
(* emitted later, in any order between the two sockets, and closeBoth      *)
(* answers every one of them.  The target's socket ends itself once the    *)
(* target has (allowHalfOpen false), the client's does not (sockets of an  *)
(* http server have allowHalfOpen true).  Only the answers, from target to *)
(* client, are counted, in chunks.                                         *)
(***************************************************************************)
EXTENDS Naturals

CONSTANTS
  Relays,
  Issuer,        \* the relay the session was sold on, which its token names
  Conns,         \* CONNECT requests
  MaxChunks      \* bound of the checks: chunks a target sends

ASSUME IssuerAssumption == Issuer \in Relays
ASSUME MaxChunksAssumption == MaxChunks \in Nat

VARIABLES
  current,       \* the session's relay
  expired,       \* whether the token its payer holds has expired
  conn           \* every CONNECT: its sockets and what was transferred

vars == <<current, expired, conn>>
-----------------------------------------------------------------------------
Live == {"dialing", "open", "ended"}
Sockets == Live \cup {"none", "failing", "closing", "closed"}

\* failing, closing: destroyed, its error or close event still to come.
\* produced, piped, flushed: chunks the target sent, the pipe wrote to the
\* client's socket, and that socket sent.  fin: the target sent everything.
\* aborted: history, a socket failed.  inTime: history, the token held when
\* it was verified.
Conn == [stage : {"idle", "refused", "tunnel", "crashed"}, at : Relays,
         client : Sockets, target : Sockets, opened : BOOLEAN, closes : Nat,
         produced : Nat, piped : Nat, flushed : Nat, fin : BOOLEAN,
         aborted : BOOLEAN, inTime : BOOLEAN]

Init == /\ current = Issuer
        /\ expired = FALSE
        /\ conn = [c \in Conns |->
             [stage |-> "idle", at |-> Issuer, client |-> "none", target |-> "none",
              opened |-> FALSE, closes |-> 0, produced |-> 0, piped |-> 0, flushed |-> 0,
              fin |-> FALSE, aborted |-> FALSE, inTime |-> FALSE]]

Set(c, k) == conn' = [conn EXCEPT ![c] = k] /\ UNCHANGED <<current, expired>>
-----------------------------------------------------------------------------
(* The session: recorded by the orchestrator, unknown to the relays.  The  *)
(* payer's token stays as it was issued.                                   *)

Failover(r) == /\ r # current
               /\ current' = r
               /\ UNCHANGED <<expired, conn>>

Expire == /\ ~expired
          /\ expired' = TRUE
          /\ UNCHANGED <<current, conn>>
-----------------------------------------------------------------------------
(* CONNECT.                                                                *)

\* As Verified, but expiry is left to the payload's reader.
VerifiedUntimed(header) == header = "token"

\* verifySessionToken: signed with the shared secret, and not expired.
Verified(header) == header = "token" /\ ~expired

\* Neither 400, 407 nor 403.
Admitted(r, target, header) ==
  /\ target = "host:port"
  /\ header # "missing"
  /\ Verified(header)
  /\ Issuer = r

\* A refused client is answered, and its socket only half closed.
Connect(c, r, target, header) ==
  /\ conn[c].stage = "idle"
  /\ IF Admitted(r, target, header)
     THEN Set(c, [conn[c] EXCEPT !.stage = "tunnel", !.at = r, !.client = "open",
                                 !.target = "dialing", !.inTime = ~expired])
     ELSE Set(c, [conn[c] EXCEPT !.stage = "refused", !.at = r, !.client = "open"])

\* The callback of net.connect: 200, the open event, and the pipes.
Dialed(c) == /\ conn[c].target = "dialing"
             /\ Set(c, [conn[c] EXCEPT !.target = "open", !.opened = TRUE])
-----------------------------------------------------------------------------
(* closeBoth.                                                              *)

Destroyed(socket) == IF socket \in Live THEN "closing" ELSE socket

\* As CloseBoth, but nothing is destroyed.
CloseBothReports(k) == [k EXCEPT !.closes = @ + 1]

CloseBoth(k) == [k EXCEPT !.closes = @ + 1, !.client = Destroyed(@), !.target = Destroyed(@)]

ClientError(c) == /\ conn[c].client = "failing" /\ conn[c].stage = "tunnel"
                  /\ Set(c, CloseBoth([conn[c] EXCEPT !.client = "closing"]))

ClientClose(c) == /\ conn[c].client = "closing" /\ conn[c].stage = "tunnel"
                  /\ Set(c, CloseBoth([conn[c] EXCEPT !.client = "closed"]))

TargetError(c) == /\ conn[c].target = "failing" /\ conn[c].stage = "tunnel"
                  /\ Set(c, CloseBoth([conn[c] EXCEPT !.target = "closing"]))

TargetClose(c) == /\ conn[c].target = "closing" /\ conn[c].stage = "tunnel"
                  /\ Set(c, CloseBoth([conn[c] EXCEPT !.target = "closed"]))
-----------------------------------------------------------------------------
(* The pipes and what the two peers do.                                    *)

TargetSends(c) == /\ conn[c].target = "open" /\ ~conn[c].fin
                  /\ conn[c].produced < MaxChunks
                  /\ Set(c, [conn[c] EXCEPT !.produced = @ + 1])

TargetFins(c) == /\ conn[c].target = "open" /\ ~conn[c].fin
                 /\ Set(c, [conn[c] EXCEPT !.fin = TRUE])

Pipe(c) == /\ conn[c].target = "open" /\ conn[c].piped < conn[c].produced
           /\ Set(c, [conn[c] EXCEPT !.piped = @ + 1])

Flush(c) == /\ conn[c].client \in Live /\ conn[c].flushed < conn[c].piped
            /\ Set(c, [conn[c] EXCEPT !.flushed = @ + 1])

\* As TargetEnds, but with chunks still to be piped.
TargetEndsEarly(c) == /\ conn[c].target = "open" /\ conn[c].fin
                      /\ Set(c, [conn[c] EXCEPT !.target = "ended"])

\* Everything is piped: the client's socket is ended, to close once flushed,
\* and so is the target's own writing side.
TargetEnds(c) == /\ conn[c].target = "open" /\ conn[c].fin
                 /\ conn[c].piped = conn[c].produced
                 /\ Set(c, [conn[c] EXCEPT !.target = "ended"])

TargetFinishes(c) == /\ conn[c].target = "ended"
                     /\ Set(c, [conn[c] EXCEPT !.target = "closing"])

\* The client ends its side; the target may still answer.
ClientEnds(c) == /\ conn[c].client = "open" /\ conn[c].opened
                 /\ Set(c, [conn[c] EXCEPT !.client = "ended"])

ClientFinishes(c) == /\ conn[c].client = "ended"
                     /\ conn[c].target \in {"ended", "closing"}
                     /\ conn[c].flushed = conn[c].piped
                     /\ Set(c, [conn[c] EXCEPT !.client = "closing"])

\* The target cannot be dialed, or is reset.
TargetFails(c) == /\ conn[c].target \in Live
                  /\ Set(c, [conn[c] EXCEPT !.target = "failing", !.aborted = TRUE])

\* An error of a socket that nobody listens to ends the process, and with it
\* every connection of this relay.
CrashedAt(r) == [d \in Conns |->
                   IF conn[d].at = r /\ conn[d].stage # "idle"
                   THEN [conn[d] EXCEPT !.stage = "crashed"] ELSE conn[d]]

\* The client resets its connection.  A refused one has no listener.
ClientFails(c) ==
  /\ conn[c].client \in Live
  /\ conn' = IF conn[c].stage = "refused" THEN CrashedAt(conn[c].at)
             ELSE [conn EXCEPT ![c].client = "failing", ![c].aborted = TRUE]
  /\ UNCHANGED <<current, expired>>

\* So does a refused client that is not in Conns.
StrangerFails(r) == conn' = CrashedAt(r) /\ UNCHANGED <<current, expired>>

\* A refused client closes its side too.
RefusedCloses(c) == /\ conn[c].stage = "refused" /\ conn[c].client = "open"
                    /\ Set(c, [conn[c] EXCEPT !.client = "closed"])
-----------------------------------------------------------------------------
\* What the process does by itself with a tunnel.
Loop(c) == \/ ClientError(c) \/ ClientClose(c) \/ TargetError(c) \/ TargetClose(c)
           \/ Pipe(c) \/ Flush(c)
           \/ TargetEnds(c) \/ TargetFinishes(c) \/ ClientFinishes(c)

\* What its peers do.
Peers(c) == \/ Dialed(c) \/ TargetSends(c) \/ TargetFins(c) \/ ClientEnds(c)
            \/ TargetFails(c) \/ ClientFails(c) \/ RefusedCloses(c)

Next ==
  \/ \E r \in Relays : Failover(r)
  \/ \E r \in Relays : StrangerFails(r)
  \/ Expire
  \/ \E c \in Conns, r \in Relays, target \in {"host:port", "malformed"},
        header \in {"missing", "forged", "token"} : Connect(c, r, target, header)
  \/ \E c \in Conns : conn[c].stage # "crashed" /\ (Loop(c) \/ Peers(c))

Spec == Init /\ [][Next]_vars
-----------------------------------------------------------------------------
(* Properties.                                                             *)

TypeOK == /\ current \in Relays
          /\ expired \in BOOLEAN
          /\ conn \in [Conns -> Conn]
          /\ \A c \in Conns : /\ conn[c].flushed <= conn[c].piped
                              /\ conn[c].piped <= conn[c].produced
                              /\ conn[c].produced <= MaxChunks

\* Events still to come from a socket.
Due(socket) == CASE socket = "failing" -> 2 [] socket = "closing" -> 1 [] OTHER -> 0

(* A relay reports the tunnel open before it reports it closed, at most    *)
(* once per error and close of the two sockets; from the first close on    *)
(* nothing is transferred; and a tunnel that closed without a failure has  *)
(* read the target's whole answer, so only what the client was too slow to *)
(* take is lost.                                                           *)
OpensThenCloses ==
  \A c \in Conns : conn[c].stage = "tunnel" =>
    /\ conn[c].closes > 0 => conn[c].client \notin Live /\ conn[c].target \notin Live
    /\ conn[c].closes + Due(conn[c].client) + Due(conn[c].target) <= 4
    /\ conn[c].client = "closed" /\ conn[c].target = "closed" => conn[c].closes >= 2
    /\ ~conn[c].aborted /\ conn[c].closes > 0 =>
         conn[c].opened /\ conn[c].fin /\ conn[c].piped = conn[c].produced

(* A tunnel runs only on the relay its token names, and was let in before  *)
(* the token expired: a session that failed over has no tunnel on its new  *)
(* relay, and what it had on the old one goes on.                          *)
AdmittedByToken ==
  \A c \in Conns : conn[c].target # "none" =>
    /\ conn[c].inTime
    /\ current # Issuer => conn[c].at # current

(* Neither socket of a tunnel outlives the other: once one is destroyed,   *)
(* or the target has ended, both are closed in the end.                    *)
TunnelEnds ==
  \A c \in Conns :
    conn[c].stage = "tunnel" /\ (conn[c].fin \/ conn[c].client \notin Live \/ conn[c].target \notin Live)
      ~> conn[c].stage = "crashed" \/ (conn[c].client = "closed" /\ conn[c].target = "closed")
=============================================================================
