---------------------------- MODULE SessionTunnel ----------------------------
(***************************************************************************)
(* TunnelServer with the macOS client's LocalProxyServer in front of it.   *)
(* The browser's connection and the one to the relay are joined by two     *)
(* pumps; a pump is a receive whose callback asks for the next receive.    *)
(* All callbacks run on the main queue of the application, which may drop  *)
(* the server (disconnect) between any two: they hold it weakly.           *)
(*                                                                         *)
(* conn[c] is the relay's side.  Other clients of the relays are seen only *)
(* when one ends the process of a relay.                                   *)
(***************************************************************************)
EXTENDS TunnelServer

VARIABLES
  server,        \* the LocalProxyServer: of which relay, with which token
  bridge         \* what it knows of each connection

allvars == <<vars, server, bridge>>
-----------------------------------------------------------------------------
\* dropped: the callback found no server and returned.  down: chunks of the
\* answer received from the relay; after: history, those received by pumps
\* since the server was dropped.
Bridge == [stage : {"idle", "reading", "dialing", "waiting", "answering", "refusing",
                    "piping", "dropped", "closed"},
           browser : {"open", "ended"}, pumps : SUBSET {"up", "down"},
           down : Nat, after : Nat]

TunnelInit ==
  /\ Init
  /\ server = [state |-> "none", host |-> Issuer, token |-> "token"]
  /\ bridge = [c \in Conns |-> [stage |-> "idle", browser |-> "open", pumps |-> {},
                                  down |-> 0, after |-> 0]]

Running == server.state = "running"

SetBridge(c, b) == bridge' = [bridge EXCEPT ![c] = b] /\ UNCHANGED server

Becomes(c, stage) == SetBridge(c, [bridge[c] EXCEPT !.stage = stage]) /\ UNCHANGED vars
-----------------------------------------------------------------------------
(* The application: connect, disconnect, quit.                             *)

ServerStarts(r, token) ==
  /\ server.state = "none"
  /\ server' = [state |-> "running", host |-> r, token |-> token]
  /\ UNCHANGED <<vars, bridge>>

ServerDropped == /\ Running
                 /\ server' = [server EXCEPT !.state = "dropped"]
                 /\ UNCHANGED <<vars, bridge>>

\* The system closes whatever the process held.
AppQuits ==
  /\ server.state # "none"
  /\ server' = [server EXCEPT !.state = "dropped"]
  /\ bridge' = [c \in Conns |-> IF bridge[c].stage = "idle" THEN bridge[c]
                                  ELSE [bridge[c] EXCEPT !.stage = "closed", !.pumps = {}]]
  /\ UNCHANGED vars
-----------------------------------------------------------------------------
(* The request.                                                            *)

Accept(c) == /\ Running /\ bridge[c].stage = "idle"
             /\ Becomes(c, "reading")

BrowserEnds(c) ==
  /\ bridge[c].stage \notin {"idle", "closed"} /\ bridge[c].browser = "open"
  /\ SetBridge(c, [bridge[c] EXCEPT !.browser = "ended"])
  /\ UNCHANGED vars

ReadRequest(c, request) ==
  /\ bridge[c].stage = "reading"
  /\ request = "nothing" <=> bridge[c].browser = "ended"
  /\ Becomes(c, IF ~Running THEN "dropped"
                ELSE IF request = "CONNECT" THEN "dialing" ELSE "closed")

\* The request, with the token added, reaches the relay.
Reaches(c, target) == /\ bridge[c].stage = "dialing"
                      /\ Connect(c, server.host, target, server.token)
                      /\ SetBridge(c, [bridge[c] EXCEPT !.stage = "waiting"])

RelayUnreachable(c) == /\ bridge[c].stage = "dialing"
                       /\ Becomes(c, IF Running THEN "refusing" ELSE "dropped")
-----------------------------------------------------------------------------
(* The answer.                                                             *)

\* The relay's socket is gone, and with it perhaps what it had to send.
Cut(c) == conn[c].stage = "crashed" \/ conn[c].client \notin Live \cup {"none"}

\* Nothing will come from the relay that was not received.
Over(c) == \/ Cut(c)
           \/ conn[c].target = "ended" /\ bridge[c].down = conn[c].piped

\* 200, and maybe the first chunks in the same receive.
AnswerIs200(c, chunks) ==
  /\ bridge[c].stage = "waiting" /\ conn[c].opened /\ chunks <= conn[c].flushed
  /\ SetBridge(c, IF Running THEN [bridge[c] EXCEPT !.stage = "answering", !.down = chunks]
                  ELSE [bridge[c] EXCEPT !.stage = "dropped"])
  /\ UNCHANGED vars

\* Another status, or none: the connection to the relay is cancelled.
AnswerIsOther(c) == /\ bridge[c].stage = "waiting"
                    /\ conn[c].stage = "refused" \/ Cut(c)
                    /\ Becomes(c, IF Running THEN "refusing" ELSE "dropped")

\* The browser has its 502.
Refused(c) == /\ bridge[c].stage = "refusing"
              /\ Becomes(c, "closed")

\* The browser has its 200.  This callback holds the server strongly.
Answered(c) ==
  /\ bridge[c].stage = "answering"
  /\ SetBridge(c, [bridge[c] EXCEPT !.stage = "piping", !.pumps = {"up", "down"}])
  /\ UNCHANGED vars
-----------------------------------------------------------------------------
(* The pumps.                                                              *)

\* As Rearmed, with the server held strongly.
RearmedAlways(c, pump) == bridge[c].pumps

Rearmed(c, pump) == IF Running THEN bridge[c].pumps ELSE bridge[c].pumps \ {pump}

PumpUp(c) == /\ "up" \in bridge[c].pumps /\ bridge[c].browser = "open"
             /\ SetBridge(c, [bridge[c] EXCEPT !.pumps = Rearmed(c, "up")])
             /\ UNCHANGED vars

PumpDown(c) ==
  /\ "down" \in bridge[c].pumps /\ bridge[c].down < conn[c].flushed
  /\ SetBridge(c, [bridge[c] EXCEPT !.down = @ + 1, !.pumps = Rearmed(c, "down"),
                                    !.after = IF Running THEN @ ELSE @ + 1])
  /\ UNCHANGED vars

\* As PumpEnds, but only the pump stops.
PumpStops(c, pump) ==
  /\ pump \in bridge[c].pumps
  /\ IF pump = "up" THEN bridge[c].browser = "ended" ELSE Over(c)
  /\ SetBridge(c, [bridge[c] EXCEPT !.pumps = @ \ {pump}])
  /\ UNCHANGED vars

\* isComplete or an error: both connections are cancelled.
PumpEnds(c, pump) ==
  /\ pump \in bridge[c].pumps
  /\ IF pump = "up" THEN bridge[c].browser = "ended" ELSE Over(c)
  /\ SetBridge(c, [bridge[c] EXCEPT !.stage = "closed", !.pumps = {}])
  /\ UNCHANGED vars

\* Connections that no callback refers to may be closed by the framework.
Released(c) == /\ \/ bridge[c].stage = "dropped"
                  \/ bridge[c].stage = "piping" /\ bridge[c].pumps = {}
               /\ Becomes(c, "closed")
-----------------------------------------------------------------------------
\* What the main queue does with a connection.
Callback(c) ==
  \/ \E request \in {"CONNECT", "other", "nothing"} : ReadRequest(c, request)
  \/ \E chunks \in 0..MaxChunks : AnswerIs200(c, chunks)
  \/ AnswerIsOther(c) \/ Refused(c) \/ Answered(c)
  \/ PumpUp(c) \/ PumpDown(c)
  \/ \E pump \in {"up", "down"} : PumpEnds(c, pump)

\* A step of the relays, their peers or the session.  The application's end of
\* a connection closes only if it was cancelled.
RelayStep ==
  \/ \E r \in Relays : Failover(r) \/ StrangerFails(r)
  \/ Expire
  \/ \E c \in Conns : /\ conn[c].stage # "crashed"
                      /\ \/ Loop(c) \/ Dialed(c) \/ TargetSends(c) \/ TargetFins(c)
                         \/ TargetFails(c) \/ ClientFails(c)
                         \/ /\ bridge[c].stage \in {"refusing", "closed"}
                            /\ ClientEnds(c) \/ RefusedCloses(c)

TunnelNext ==
  \/ RelayStep /\ UNCHANGED <<server, bridge>>
  \/ \E r \in Relays, token \in {"forged", "token"} : ServerStarts(r, token)
  \/ ServerDropped \/ AppQuits
  \/ \E c \in Conns :
       \/ Accept(c) \/ BrowserEnds(c) \/ RelayUnreachable(c) \/ Released(c)
       \/ \E target \in {"host:port", "malformed"} : Reaches(c, target)
       \/ Callback(c)

TunnelSpec == TunnelInit /\ [][TunnelNext]_allvars

\* The event loops of the relays and the main queue of the client run.
FairTunnelSpec ==
  /\ TunnelSpec
  /\ \A c \in Conns : WF_allvars(conn[c].stage # "crashed" /\ Loop(c)
                                  /\ UNCHANGED <<server, bridge>>)
  /\ \A c \in Conns : WF_allvars(Callback(c))
-----------------------------------------------------------------------------
(* Properties.                                                             *)

BridgeOK == /\ server \in [state : {"none", "running", "dropped"}, host : Relays,
                           token : {"forged", "token"}]
            /\ bridge \in [Conns -> Bridge]

(* After a disconnect nothing cancels the tunnels that are open, but each  *)
(* takes at most one more chunk of its answer: the callbacks hold the      *)
(* server weakly, and no pump asks for another receive without it.         *)
DroppedIsQuiet == \A c \in Conns : bridge[c].after <= 1

HungUp(c) == \/ bridge[c].stage \in {"reading", "piping"} /\ bridge[c].browser = "ended"
             \/ bridge[c].stage \in {"waiting", "answering", "piping"} /\ Over(c)
             \/ bridge[c].stage = "waiting" /\ conn[c].stage = "refused"

(* Whichever side hangs up first, at any point of the exchange, the other  *)
(* is cancelled in the end, as long as the application stays connected.    *)
BridgeEnds == \A c \in Conns :
  HungUp(c) ~> bridge[c].stage = "closed" \/ server.state = "dropped"
=============================================================================
