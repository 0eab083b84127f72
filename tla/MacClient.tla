----------------------------- MODULE MacClient -----------------------------
(***************************************************************************)
(* The macOS client (src/apps/macos-client): instances of the application  *)
(* that come and go, each of which connects, disconnects and quits, the    *)
(* proxy settings of the network services that they change through         *)
(* networksetup, the listener of the local proxy, and the connection       *)
(* history, of which every instance keeps a copy and all share one file.   *)
(*                                                                         *)
(* Everything runs on an instance's main thread, so one handler at a time; *)
(* but it waits for each networksetup command and each write of the file,  *)
(* and an instance may die between any two of them.  One action ends with  *)
(* at most one of these.  What only the window shows (the token's payload, *)
(* the countdown, the step of the timeline) is left out.                   *)
(***************************************************************************)
EXTENDS Naturals, FiniteSets, Sequences

CONSTANTS
    Instances,      \* the processes, each of which runs once
    Services,       \* the network services of the machine
    NoService,      \* no network service at all
    MaxConnects,    \* bound on the connect links followed
    MaxFailures,    \* bound on commands and writes that fail
    MaxMoves        \* bound on changes of the network

ASSUME MacClientAssumption ==
    /\ NoService \notin Services
    /\ IsFiniteSet(Instances)
    /\ IsFiniteSet(Services)
    /\ MaxConnects \in Nat
    /\ MaxFailures \in Nat
    /\ MaxMoves \in Nat

VARIABLES
    network,    \* the service that activeServiceName would find
    moves,      \* how often it has changed
    proxy,      \* the proxy kinds switched on, of each service
    phase,      \* off, loaded (AppDelegate exists), running, quit or killed
    pc,         \* what the main thread does next; idle between handlers
    command,    \* the networksetup command it is at
    after,      \* where disconnect() returns to
    service,    \* activeNetworkService
    connected,  \* state.connected
    entry,      \* historyEntryId, 0 for none
    history,    \* historyStore.entries: the state of each entry
    file,       \* connection-history.json
    made,       \* entries ever made: the source of new ids
    listener,   \* the listener of proxyServer
    started,    \* how many proxyServers the instance has started
    releasing,  \* instances whose cancelled listener still holds the port
    links,      \* connect links followed
    failed,     \* commands and writes that have failed
    overlapped  \* instances that were started while another was alive

environment == <<network, moves>>
thread      == <<pc, command, after>>
session     == <<service, connected, entry>>
store       == <<history, file, made>>
port        == <<listener, started, releasing>>
vars == <<environment, proxy, phase, thread, session, store, port, links,
          failed, overlapped>>

Kinds  == {"web", "secure"}
Ids    == 1..MaxConnects

\* The settings that networksetup changes, in the order of the commands.
EnableOrder  == <<"web", "secure", "web", "secure">>
\* A mutant: HTTPS stays on.
DisableOrderWebOnly == <<"web">>
DisableOrder == <<"web", "secure">>

Alive(p) == phase[p] \in {"loaded", "running"}
Idle(p)  == phase[p] = "running" /\ pc[p] = "idle"
Killed   == {p \in Instances : phase[p] = "killed"}

----------------------------------------------------------------------------
(* Starting and dying.                                                     *)

\* main.swift makes the delegate, and with it the store that reads the file.
Start(p) ==
    /\ phase[p] = "off"
    /\ phase' = [phase EXCEPT ![p] = "loaded"]
    /\ history' = [history EXCEPT ![p] = file]
    /\ overlapped' = IF \E q \in Instances : Alive(q)
                     THEN overlapped \cup {p} ELSE overlapped
    /\ UNCHANGED <<environment, proxy, thread, session, file, made, port,
                   links, failed>>

\* An instance that is gone keeps nothing, and its port is free.
Forget(gone) ==
    /\ pc' = [p \in Instances |-> IF p \in gone THEN "idle" ELSE pc[p]]
    /\ service' = [p \in Instances |->
                     IF p \in gone THEN NoService ELSE service[p]]
    /\ connected' = [p \in Instances |-> connected[p] /\ p \notin gone]
    /\ entry' = [p \in Instances |-> IF p \in gone THEN 0 ELSE entry[p]]
    /\ listener' = [p \in Instances |->
                      IF p \in gone THEN "none" ELSE listener[p]]
    /\ releasing' = releasing \ gone

\* A mutant: the others live on.
LaunchBeside(p) ==
    /\ phase[p] = "loaded"
    /\ phase' = [phase EXCEPT ![p] = "running"]
    /\ Forget({})
    /\ UNCHANGED <<environment, proxy, command, after, store, started, links,
                   failed, overlapped>>

\* applicationDidFinishLaunching: terminateOtherRunningInstances, and from
\* now on links and clicks are handled.
Launch(p) ==
    LET others == {q \in Instances \ {p} : Alive(q)} IN
    /\ phase[p] = "loaded"
    /\ phase' = [q \in Instances |-> CASE q = p -> "running"
                                       [] q \in others -> "killed"
                                       [] OTHER -> phase[q]]
    /\ Forget(others)
    /\ UNCHANGED <<environment, proxy, command, after, store, started, links,
                   failed, overlapped>>

\* A crash, a logout, a force quit: nothing of quit() runs.
Die(p) ==
    /\ Alive(p)
    /\ phase' = [phase EXCEPT ![p] = "killed"]
    /\ Forget({p})
    /\ UNCHANGED <<environment, proxy, command, after, store, started, links,
                   failed, overlapped>>

----------------------------------------------------------------------------
(* What may fail without a word: run() drops the exit status of            *)
(* networksetup, save() drops the error of the write.                      *)

Outcome(ok) ==
    /\ ok \/ failed < MaxFailures
    /\ failed' = IF ok THEN failed ELSE failed + 1

\* One networksetup command of the list: on or off, for one kind of proxy.
Command(p, order, on, next) ==
    LET kind == order[command[p]]
        s    == service[p] IN
    /\ \E ok \in BOOLEAN :
          /\ Outcome(ok)
          /\ proxy' = IF ~ok THEN proxy
                      ELSE [proxy EXCEPT ![s] = IF on THEN @ \cup {kind}
                                                      ELSE @ \ {kind}]
    /\ IF command[p] = Len(order)
       THEN pc' = [pc EXCEPT ![p] = next] /\ UNCHANGED command
       ELSE command' = [command EXCEPT ![p] = @ + 1] /\ UNCHANGED pc

\* save() of the whole list, as this instance knows it.
Save(p, entries) ==
    /\ history' = [history EXCEPT ![p] = entries]
    /\ \E ok \in BOOLEAN :
          /\ Outcome(ok)
          /\ file' = IF ok THEN entries ELSE file

----------------------------------------------------------------------------
(* disconnect(), which connect() and quit() call first.                    *)

StopListener(p) ==
    /\ listener' = [listener EXCEPT ![p] = "none"]
    /\ releasing' = IF listener[p] = "ready" THEN releasing \cup {p}
                    ELSE releasing
    /\ UNCHANGED started

Disconnect(p, next) ==
    /\ Idle(p)
    /\ StopListener(p)
    /\ after' = [after EXCEPT ![p] = next]
    /\ command' = [command EXCEPT ![p] = 1]
    /\ pc' = [pc EXCEPT ![p] = IF service[p] = NoService THEN "close"
                               ELSE "disable"]
    /\ UNCHANGED <<environment, proxy, phase, session, store, failed,
                   overlapped>>

DisableCommand(p) ==
    /\ pc[p] = "disable"
    /\ Command(p, DisableOrder, FALSE, "close")
    /\ UNCHANGED <<environment, phase, after, session, store, port, links,
                   overlapped>>

\* A mutant: the closed entry is not saved.
RecordDisconnectUnsaved(p) ==
    /\ history' = IF entry[p] \notin DOMAIN history[p] THEN history
                  ELSE [history EXCEPT ![p][entry[p]] = "closed"]
    /\ UNCHANGED <<file, failed>>

\* recordDisconnect closes the entry, if the list still has it.
RecordDisconnect(p) ==
    IF entry[p] \in DOMAIN history[p]
    THEN Save(p, [history[p] EXCEPT ![entry[p]] = "closed"])
    ELSE UNCHANGED <<history, file, failed>>

\* The end of disconnect(), and of quit() when it was called from there.
Close(p) ==
    /\ pc[p] = "close"
    /\ service' = [service EXCEPT ![p] = NoService]
    /\ connected' = [connected EXCEPT ![p] = FALSE]
    /\ entry' = [entry EXCEPT ![p] = 0]
    /\ RecordDisconnect(p)
    /\ IF after[p] = "exit"
       THEN /\ phase' = [phase EXCEPT ![p] = "quit"]
            /\ pc' = [pc EXCEPT ![p] = "idle"]
            /\ releasing' = releasing \ {p}
       ELSE /\ pc' = [pc EXCEPT ![p] = after[p]]
            /\ UNCHANGED <<phase, releasing>>
    /\ UNCHANGED <<environment, proxy, command, after, made, listener,
                   started, links, overlapped>>

\* The item is in the menu only while connected.
ClickDisconnect(p) ==
    /\ connected[p]
    /\ Disconnect(p, "idle")
    /\ UNCHANGED links

Quit(p) ==
    /\ Disconnect(p, "exit")
    /\ UNCHANGED links

----------------------------------------------------------------------------
(* connect().                                                              *)

HandleGetURLEvent(p) ==
    /\ links < MaxConnects
    /\ links' = links + 1
    /\ Disconnect(p, "listen")

\* LocalProxyServer.init may throw; start() only asks for the port.
Listen(p) ==
    /\ pc[p] = "listen"
    /\ \/ /\ pc' = [pc EXCEPT ![p] = "idle"]
          /\ UNCHANGED <<listener, started>>
       \/ /\ pc' = [pc EXCEPT ![p] = "service"]
          /\ listener' = [listener EXCEPT ![p] = "starting"]
          /\ started' = [started EXCEPT ![p] = @ + 1]
    /\ UNCHANGED <<environment, proxy, phase, command, after, session, store,
                   releasing, links, failed, overlapped>>

\* Without a service connect() gives up and leaves the listener running.
FindService(p) ==
    /\ pc[p] = "service"
    /\ IF network = NoService
       THEN /\ pc' = [pc EXCEPT ![p] = "idle"]
            /\ UNCHANGED <<service, command>>
       ELSE /\ pc' = [pc EXCEPT ![p] = "enable"]
            /\ service' = [service EXCEPT ![p] = network]
            /\ command' = [command EXCEPT ![p] = 1]
    /\ UNCHANGED <<environment, proxy, phase, after, connected, entry, store,
                   port, links, failed, overlapped>>

EnableCommand(p) ==
    /\ pc[p] = "enable"
    /\ Command(p, EnableOrder, TRUE, "record")
    /\ UNCHANGED <<environment, phase, after, session, store, port, links,
                   overlapped>>

\* A mutant: the list is replaced by the new entry.
RecordConnectAlone(p, id) == Save(p, [i \in {id} |-> "open"])

\* recordConnect puts a new entry into the list.
RecordConnect(p, id) ==
    Save(p, [i \in DOMAIN history[p] \cup {id} |->
               IF i = id THEN "open" ELSE history[p][i]])

Connected(p) ==
    /\ pc[p] = "record"
    /\ pc' = [pc EXCEPT ![p] = "idle"]
    /\ connected' = [connected EXCEPT ![p] = TRUE]
    /\ made' = made + 1
    /\ entry' = [entry EXCEPT ![p] = made + 1]
    /\ RecordConnect(p, made + 1)
    /\ UNCHANGED <<environment, proxy, phase, command, after, service, port,
                   links, overlapped>>

----------------------------------------------------------------------------
(* The listener, asynchronous to the main thread and without a handler for *)
(* its state: nobody learns that the port was taken.                       *)

PortTaken == \E q \in Instances : listener[q] = "ready" \/ q \in releasing

ListenerStarts(p) ==
    /\ listener[p] = "starting"
    /\ listener' = [listener EXCEPT ![p] = IF PortTaken THEN "refused"
                                           ELSE "ready"]
    /\ UNCHANGED <<environment, proxy, phase, thread, session, store, started,
                   releasing, links, failed, overlapped>>

ListenerReleases(p) ==
    /\ p \in releasing
    /\ releasing' = releasing \ {p}
    /\ UNCHANGED <<environment, proxy, phase, thread, session, store, listener,
                   started, links, failed, overlapped>>

\* The machine changes between networks, or loses the last one.
NetworkChanges ==
    /\ moves < MaxMoves
    /\ moves' = moves + 1
    /\ \E s \in (Services \cup {NoService}) \ {network} : network' = s
    /\ UNCHANGED <<proxy, phase, thread, session, store, port, links, failed,
                   overlapped>>

----------------------------------------------------------------------------
Init ==
    /\ network \in Services \cup {NoService}
    /\ moves = 0
    /\ proxy = [s \in Services |-> {}]
    /\ phase = [p \in Instances |-> "off"]
    /\ pc = [p \in Instances |-> "idle"]
    /\ command = [p \in Instances |-> 1]
    /\ after = [p \in Instances |-> "idle"]
    /\ service = [p \in Instances |-> NoService]
    /\ connected = [p \in Instances |-> FALSE]
    /\ entry = [p \in Instances |-> 0]
    /\ history = [p \in Instances |-> <<>>]
    /\ file = <<>>
    /\ made = 0
    /\ listener = [p \in Instances |-> "none"]
    /\ started = [p \in Instances |-> 0]
    /\ releasing = {}
    /\ links = 0
    /\ failed = 0
    /\ overlapped = {}

Step(p) ==
    \/ Start(p) \/ Launch(p) \/ Die(p)
    \/ HandleGetURLEvent(p) \/ ClickDisconnect(p) \/ Quit(p)
    \/ DisableCommand(p) \/ Close(p)
    \/ Listen(p) \/ FindService(p) \/ EnableCommand(p) \/ Connected(p)
    \/ ListenerStarts(p) \/ ListenerReleases(p)

Next == NetworkChanges \/ \E p \in Instances : Step(p)

Spec == Init /\ [][Next]_vars

----------------------------------------------------------------------------
Histories == UNION {[S -> {"open", "closed"}] : S \in SUBSET Ids}

\* The type of every variable.
TypeOK ==
    /\ network \in Services \cup {NoService}
    /\ moves \in 0..MaxMoves
    /\ proxy \in [Services -> SUBSET Kinds]
    /\ phase \in [Instances -> {"off", "loaded", "running", "quit", "killed"}]
    /\ pc \in [Instances -> {"idle", "disable", "close", "listen", "service",
                             "enable", "record"}]
    /\ command \in [Instances -> 1..4]
    /\ after \in [Instances -> {"idle", "listen", "exit"}]
    /\ service \in [Instances -> Services \cup {NoService}]
    /\ connected \in [Instances -> BOOLEAN]
    /\ entry \in [Instances -> 0..MaxConnects]
    /\ history \in [Instances -> Histories]
    /\ file \in Histories
    /\ made \in 0..MaxConnects
    /\ listener \in [Instances -> {"none", "starting", "ready", "refused"}]
    /\ started \in [Instances -> 0..MaxConnects]
    /\ releasing \in SUBSET Instances
    /\ links \in 0..MaxConnects
    /\ failed \in 0..MaxFailures
    /\ overlapped \in SUBSET Instances

\* The settings follow the connection (SystemProxy.enable and disable around
\* connect() and disconnect()): between two handlers of the running instance,
\* the service it is connected through has both proxies on and every other
\* one has none, but for one service for each command that failed and each
\* instance that was killed, however the network changed meanwhile.
ProxyFollowsConnection ==
    \A p \in Instances : Idle(p) =>
        LET wanted(s) == IF connected[p] /\ s = service[p] THEN Kinds ELSE {}
        IN  Cardinality({s \in Services : proxy[s] # wanted(s)})
              <= failed + Cardinality(Killed)

\* The history follows the connection (ConnectionHistoryStore): an entry of
\* the file that is open is that of the connection of a live instance, but
\* for one for each write that failed, each instance that was killed and each
\* that read the file while another instance was still alive.
HistoryFollowsConnection ==
    LET open    == {i \in DOMAIN file : file[i] = "open"}
        current == {entry[p] : p \in Instances}
    IN  Cardinality(open \ current)
          <= failed + Cardinality(Killed) + Cardinality(overlapped)

\* What the file says of a connection that is over stays, whichever instance
\* writes next, unless that instance's copy was not what the file held.
ClosedStaysClosed ==
    [][\A i \in DOMAIN file :
          file[i] = "closed" =>
             \/ i \in DOMAIN file' /\ file'[i] = "closed"
             \/ \E p \in Instances :
                   history'[p] # history[p] /\ history[p] # file]_vars

\* An instance's first listener is not refused the port: no other instance
\* that holds it is left when links are followed (AppDelegate.swift 31-34).
\* Only a listener of the same instance may still be in the way.
FirstListenerGetsPort ==
    \A p \in Instances : listener[p] = "refused" => started[p] > 1
=============================================================================
