-------------------------- MODULE MacClientProofs --------------------------
(***************************************************************************)
(* Proofs about MacClient, for any sets of instances and services and any  *)
(* bounds: the variables keep their types, an instance's first listener is *)
(* never refused the port, and the history and the proxy settings follow   *)
(* the connection.                                                         *)
(*                                                                         *)
(* The type of the counters is not inductive: that no more entries are     *)
(* made than links followed holds because at most one instance runs, and   *)
(* its connect() makes at most one entry for the link it works on.  The    *)
(* same invariant carries the second theorem: whatever holds the port      *)
(* belongs to the one running instance, so the first listener it starts    *)
(* finds it free.                                                          *)
(*                                                                         *)
(* The history and the settings are counted.  Each step that adds an open  *)
(* entry without a connection, or a service that is not as it should be,   *)
(* adds at least one to what is counted against it: a failure, a killed    *)
(* instance, or one that started beside another.                           *)
(***************************************************************************)
EXTENDS MacClient, FiniteSetTheorems, TLAPS

\* The connect() that p is in has not started its listener yet.
BeforeListen(p) ==
    \/ pc[p] = "listen"
    \/ pc[p] \in {"disable", "close"} /\ after[p] = "listen"

\* The connect() that p is in has not made its entry yet.
BeforeRecord(p) ==
    BeforeListen(p) \/ pc[p] \in {"service", "enable", "record"}

\* Who may do something, and when a command has a service to address.
ThreadInv ==
    /\ \A p, q \in Instances :
          phase[p] = "running" /\ phase[q] = "running" => p = q
    /\ \A p \in Instances :
          /\ pc[p] # "idle" => phase[p] = "running"
          /\ pc[p] \in {"disable", "enable"} => service[p] \in Services
          /\ pc[p] = "disable" => command[p] \in 1..2

\* No more entries and listeners than links.
CountInv ==
    /\ made <= links
    /\ \A p \in Instances :
          /\ started[p] <= links
          /\ BeforeListen(p) => started[p] < links
          /\ BeforeRecord(p) => made < links

\* Whose the port is.
PortInv ==
    \A p \in Instances :
       /\ listener[p] # "none" => phase[p] = "running" /\ started[p] >= 1
       /\ pc[p] \in {"disable", "close", "listen"} => listener[p] = "none"
       /\ p \in releasing =>
             /\ phase[p] = "running"
             /\ started[p] >= 1
             /\ listener[p] # "none" => started[p] >= 2
       /\ listener[p] = "refused" => started[p] >= 2

IInv == TypeOK /\ ThreadInv /\ CountInv /\ PortInv
----------------------------------------------------------------------------
(* What the operations that may fail leave behind.                         *)

LEMMA OutcomeType ==
    ASSUME failed \in 0..MaxFailures, NEW ok \in BOOLEAN, Outcome(ok)
    PROVE  failed' \in 0..MaxFailures
BY MacClientAssumption DEF Outcome

LEMMA CommandType ==
    ASSUME TypeOK, NEW p \in Instances, service[p] \in Services,
           NEW order, NEW on \in BOOLEAN, NEW next,
           order[command[p]] \in Kinds,
           Command(p, order, on, next)
    PROVE  proxy' \in [Services -> SUBSET Kinds] /\ failed' \in 0..MaxFailures
<1>1. PICK ok \in BOOLEAN :
         /\ Outcome(ok)
         /\ proxy' = IF ~ok THEN proxy
                     ELSE [proxy EXCEPT ![service[p]] =
                             IF on THEN @ \cup {order[command[p]]}
                                   ELSE @ \ {order[command[p]]}]
  BY DEF Command
<1>2. failed' \in 0..MaxFailures
  BY <1>1, OutcomeType DEF TypeOK
<1>3. proxy' \in [Services -> SUBSET Kinds]
  BY <1>1 DEF TypeOK
<1> QED BY <1>2, <1>3

LEMMA SaveType ==
    ASSUME TypeOK, NEW p \in Instances, NEW entries \in Histories,
           Save(p, entries)
    PROVE  /\ history' \in [Instances -> Histories]
           /\ file' \in Histories
           /\ failed' \in 0..MaxFailures
<1>1. PICK ok \in BOOLEAN :
         Outcome(ok) /\ file' = IF ok THEN entries ELSE file
  BY DEF Save
<1>2. failed' \in 0..MaxFailures
  BY <1>1, OutcomeType DEF TypeOK
<1>3. file' \in Histories
  BY <1>1 DEF TypeOK
<1>4. history' \in [Instances -> Histories]
  BY DEF TypeOK, Save
<1> QED BY <1>2, <1>3, <1>4

LEMMA RecordDisconnectType ==
    ASSUME TypeOK, NEW p \in Instances, RecordDisconnect(p)
    PROVE  /\ history' \in [Instances -> Histories]
           /\ file' \in Histories
           /\ failed' \in 0..MaxFailures
<1>1. CASE entry[p] \in DOMAIN history[p]
  <2> DEFINE entries == [history[p] EXCEPT ![entry[p]] = "closed"]
  <2>1. PICK S \in SUBSET Ids : history[p] \in [S -> {"open", "closed"}]
    BY DEF TypeOK, Histories
  <2>2. entries \in [S -> {"open", "closed"}]
    BY <2>1
  <2>3. entries \in Histories
    BY <2>2 DEF Histories
  <2>4. Save(p, entries)
    BY <1>1 DEF RecordDisconnect
  <2> QED BY <2>3, <2>4, SaveType
<1>2. CASE entry[p] \notin DOMAIN history[p]
  BY <1>2 DEF RecordDisconnect, TypeOK
<1> QED BY <1>1, <1>2

LEMMA RecordConnectType ==
    ASSUME TypeOK, NEW p \in Instances, NEW id \in Ids, RecordConnect(p, id)
    PROVE  /\ history' \in [Instances -> Histories]
           /\ file' \in Histories
           /\ failed' \in 0..MaxFailures
<1> DEFINE entries == [i \in DOMAIN history[p] \cup {id} |->
                         IF i = id THEN "open" ELSE history[p][i]]
<1>1. PICK S \in SUBSET Ids : history[p] \in [S -> {"open", "closed"}]
  BY DEF TypeOK, Histories
<1>2. entries \in [S \cup {id} -> {"open", "closed"}]
  BY <1>1
<1>3. S \cup {id} \in SUBSET Ids
  OBVIOUS
<1>4. entries \in Histories
  BY <1>2, <1>3 DEF Histories
<1>5. Save(p, entries)
  BY DEF RecordConnect
<1> QED BY <1>4, <1>5, SaveType

----------------------------------------------------------------------------
LEMMA InitInv == Init => IInv
<1> SUFFICES ASSUME Init PROVE IInv
  OBVIOUS
<1>1. <<>> \in Histories
  <2>1. <<>> \in [{} -> {"open", "closed"}]
    OBVIOUS
  <2> QED BY <2>1 DEF Histories
<1>2. TypeOK
  BY <1>1, MacClientAssumption DEF Init, TypeOK
<1>3. ThreadInv
  BY DEF Init, ThreadInv
<1>4. CountInv
  BY DEF Init, CountInv, BeforeListen, BeforeRecord
<1>5. PortInv
  BY DEF Init, PortInv
<1> QED BY <1>2, <1>3, <1>4, <1>5 DEF IInv

LEMMA StartInv ==
    ASSUME IInv, NEW p \in Instances, Start(p)
    PROVE  IInv'
<1>2. TypeOK'
  BY MacClientAssumption
  DEF Start, Alive, IInv, TypeOK, ThreadInv, CountInv, PortInv,
      BeforeListen, BeforeRecord, Ids, environment, thread, session, store, port
<1>3. ThreadInv'
  BY DEF Start, Alive, IInv, TypeOK, ThreadInv, PortInv,
         environment, thread, session, store, port
<1>4. CountInv'
  BY MacClientAssumption
  DEF Start, Alive, IInv, TypeOK, ThreadInv, CountInv, PortInv,
      BeforeListen, BeforeRecord, environment, thread, session, store, port
<1>5. PortInv'
  BY DEF Start, Alive, IInv, TypeOK, ThreadInv, PortInv,
         environment, thread, session, store, port
<1> QED BY <1>2, <1>3, <1>4, <1>5 DEF IInv

LEMMA LaunchInv ==
    ASSUME IInv, NEW p \in Instances, Launch(p)
    PROVE  IInv'
<1>2. TypeOK'
  BY MacClientAssumption
  DEF Launch, Alive, Forget, IInv, TypeOK, ThreadInv, CountInv, PortInv,
      BeforeListen, BeforeRecord, Ids, environment, thread, session, store, port
<1>3. ThreadInv'
  BY DEF Launch, Alive, Forget, IInv, TypeOK, ThreadInv, PortInv,
         environment, thread, session, store, port
<1>4. CountInv'
  BY MacClientAssumption
  DEF Launch, Alive, Forget, IInv, TypeOK, ThreadInv, CountInv, PortInv,
      BeforeListen, BeforeRecord, environment, thread, session, store, port
<1>5. PortInv'
  BY DEF Launch, Alive, Forget, IInv, TypeOK, ThreadInv, PortInv,
         environment, thread, session, store, port
<1> QED BY <1>2, <1>3, <1>4, <1>5 DEF IInv

LEMMA DieInv ==
    ASSUME IInv, NEW p \in Instances, Die(p)
    PROVE  IInv'
<1>2. TypeOK'
  BY MacClientAssumption
  DEF Die, Alive, Forget, IInv, TypeOK, ThreadInv, CountInv, PortInv,
      BeforeListen, BeforeRecord, Ids, environment, thread, session, store, port
<1>3. ThreadInv'
  BY DEF Die, Alive, Forget, IInv, TypeOK, ThreadInv, PortInv,
         environment, thread, session, store, port
<1>4. CountInv'
  BY MacClientAssumption
  DEF Die, Alive, Forget, IInv, TypeOK, ThreadInv, CountInv, PortInv,
      BeforeListen, BeforeRecord, environment, thread, session, store, port
<1>5. PortInv'
  BY DEF Die, Alive, Forget, IInv, TypeOK, ThreadInv, PortInv,
         environment, thread, session, store, port
<1> QED BY <1>2, <1>3, <1>4, <1>5 DEF IInv

LEMMA HandleGetURLEventInv ==
    ASSUME IInv, NEW p \in Instances, HandleGetURLEvent(p)
    PROVE  IInv'
<1>2. TypeOK'
  BY MacClientAssumption
  DEF HandleGetURLEvent, Disconnect, StopListener, Idle, IInv, TypeOK, ThreadInv, CountInv, PortInv,
      BeforeListen, BeforeRecord, Ids, environment, thread, session, store, port
<1>3. ThreadInv'
  BY DEF HandleGetURLEvent, Disconnect, StopListener, Idle, IInv, TypeOK, ThreadInv, PortInv,
         environment, thread, session, store, port
<1>4. CountInv'
  BY MacClientAssumption
  DEF HandleGetURLEvent, Disconnect, StopListener, Idle, IInv, TypeOK, ThreadInv, CountInv, PortInv,
      BeforeListen, BeforeRecord, environment, thread, session, store, port
<1>5. PortInv'
  BY DEF HandleGetURLEvent, Disconnect, StopListener, Idle, IInv, TypeOK, ThreadInv, PortInv,
         environment, thread, session, store, port
<1> QED BY <1>2, <1>3, <1>4, <1>5 DEF IInv

LEMMA ClickDisconnectInv ==
    ASSUME IInv, NEW p \in Instances, ClickDisconnect(p)
    PROVE  IInv'
<1>2. TypeOK'
  BY MacClientAssumption
  DEF ClickDisconnect, Disconnect, StopListener, Idle, IInv, TypeOK, ThreadInv, CountInv, PortInv,
      BeforeListen, BeforeRecord, Ids, environment, thread, session, store, port
<1>3. ThreadInv'
  BY DEF ClickDisconnect, Disconnect, StopListener, Idle, IInv, TypeOK, ThreadInv, PortInv,
         environment, thread, session, store, port
<1>4. CountInv'
  BY MacClientAssumption
  DEF ClickDisconnect, Disconnect, StopListener, Idle, IInv, TypeOK, ThreadInv, CountInv, PortInv,
      BeforeListen, BeforeRecord, environment, thread, session, store, port
<1>5. PortInv'
  BY DEF ClickDisconnect, Disconnect, StopListener, Idle, IInv, TypeOK, ThreadInv, PortInv,
         environment, thread, session, store, port
<1> QED BY <1>2, <1>3, <1>4, <1>5 DEF IInv

LEMMA QuitInv ==
    ASSUME IInv, NEW p \in Instances, Quit(p)
    PROVE  IInv'
<1>2. TypeOK'
  BY MacClientAssumption
  DEF Quit, Disconnect, StopListener, Idle, IInv, TypeOK, ThreadInv, CountInv, PortInv,
      BeforeListen, BeforeRecord, Ids, environment, thread, session, store, port
<1>3. ThreadInv'
  BY DEF Quit, Disconnect, StopListener, Idle, IInv, TypeOK, ThreadInv, PortInv,
         environment, thread, session, store, port
<1>4. CountInv'
  BY MacClientAssumption
  DEF Quit, Disconnect, StopListener, Idle, IInv, TypeOK, ThreadInv, CountInv, PortInv,
      BeforeListen, BeforeRecord, environment, thread, session, store, port
<1>5. PortInv'
  BY DEF Quit, Disconnect, StopListener, Idle, IInv, TypeOK, ThreadInv, PortInv,
         environment, thread, session, store, port
<1> QED BY <1>2, <1>3, <1>4, <1>5 DEF IInv

LEMMA DisableCommandInv ==
    ASSUME IInv, NEW p \in Instances, DisableCommand(p)
    PROVE  IInv'
<1>0. proxy' \in [Services -> SUBSET Kinds] /\ failed' \in 0..MaxFailures
  <2>1. service[p] \in Services /\ DisableOrder[command[p]] \in Kinds
    BY DEF DisableCommand, IInv, TypeOK, ThreadInv, DisableOrder, Kinds
  <2>2. Command(p, DisableOrder, FALSE, "close")
    BY DEF DisableCommand
  <2> QED BY <2>1, <2>2, CommandType DEF IInv
<1>2. TypeOK'
  BY <1>0, MacClientAssumption
  DEF DisableCommand, Command, DisableOrder, IInv, TypeOK, ThreadInv, CountInv, PortInv,
      BeforeListen, BeforeRecord, Ids, environment, thread, session, store, port
<1>3. ThreadInv'
  BY DEF DisableCommand, Command, DisableOrder, IInv, TypeOK, ThreadInv, PortInv,
         environment, thread, session, store, port
<1>4. CountInv'
  BY MacClientAssumption
  DEF DisableCommand, Command, DisableOrder, IInv, TypeOK, ThreadInv, CountInv, PortInv,
      BeforeListen, BeforeRecord, environment, thread, session, store, port
<1>5. PortInv'
  BY DEF DisableCommand, Command, DisableOrder, IInv, TypeOK, ThreadInv, PortInv,
         environment, thread, session, store, port
<1> QED BY <1>2, <1>3, <1>4, <1>5 DEF IInv

LEMMA CloseInv ==
    ASSUME IInv, NEW p \in Instances, Close(p)
    PROVE  IInv'
<1>0. /\ history' \in [Instances -> Histories]
      /\ file' \in Histories
      /\ failed' \in 0..MaxFailures
  BY RecordDisconnectType DEF Close, IInv
<1>1. pc' \in [Instances -> {"idle", "disable", "close", "listen", "service",
                             "enable", "record"}]
  BY DEF Close, IInv, TypeOK
<1>2. TypeOK'
  <2>1. /\ phase' \in [Instances ->
                       {"off", "loaded", "running", "quit", "killed"}]
        /\ releasing' \in SUBSET Instances
    BY DEF Close, IInv, TypeOK
  <2>2. /\ service' \in [Instances -> Services \cup {NoService}]
        /\ connected' \in [Instances -> BOOLEAN]
        /\ entry' \in [Instances -> 0..MaxConnects]
    BY MacClientAssumption DEF Close, IInv, TypeOK
  <2> QED
    BY <1>0, <1>1, <2>1, <2>2 DEF Close, IInv, TypeOK, environment
<1>3. ThreadInv'
  BY DEF Close, IInv, TypeOK, ThreadInv, PortInv,
         environment, thread, session, store, port
<1>4. CountInv'
  BY MacClientAssumption
  DEF Close, IInv, TypeOK, ThreadInv, CountInv, PortInv,
      BeforeListen, BeforeRecord, environment, thread, session, store, port
<1>5. PortInv'
  BY DEF Close, IInv, TypeOK, ThreadInv, PortInv,
         environment, thread, session, store, port
<1> QED BY <1>2, <1>3, <1>4, <1>5 DEF IInv

LEMMA ListenInv ==
    ASSUME IInv, NEW p \in Instances, Listen(p)
    PROVE  IInv'
<1>2. TypeOK'
  BY MacClientAssumption
  DEF Listen, IInv, TypeOK, ThreadInv, CountInv, PortInv,
      BeforeListen, BeforeRecord, Ids, environment, thread, session, store, port
<1>3. ThreadInv'
  BY DEF Listen, IInv, TypeOK, ThreadInv, PortInv,
         environment, thread, session, store, port
<1>4. CountInv'
  BY MacClientAssumption
  DEF Listen, IInv, TypeOK, ThreadInv, CountInv, PortInv,
      BeforeListen, BeforeRecord, environment, thread, session, store, port
<1>5. PortInv'
  BY DEF Listen, IInv, TypeOK, ThreadInv, PortInv,
         environment, thread, session, store, port
<1> QED BY <1>2, <1>3, <1>4, <1>5 DEF IInv

LEMMA FindServiceInv ==
    ASSUME IInv, NEW p \in Instances, FindService(p)
    PROVE  IInv'
<1>2. TypeOK'
  BY MacClientAssumption
  DEF FindService, IInv, TypeOK, ThreadInv, CountInv, PortInv,
      BeforeListen, BeforeRecord, Ids, environment, thread, session, store, port
<1>3. ThreadInv'
  BY DEF FindService, IInv, TypeOK, ThreadInv, PortInv,
         environment, thread, session, store, port
<1>4. CountInv'
  BY MacClientAssumption
  DEF FindService, IInv, TypeOK, ThreadInv, CountInv, PortInv,
      BeforeListen, BeforeRecord, environment, thread, session, store, port
<1>5. PortInv'
  BY DEF FindService, IInv, TypeOK, ThreadInv, PortInv,
         environment, thread, session, store, port
<1> QED BY <1>2, <1>3, <1>4, <1>5 DEF IInv

LEMMA EnableCommandInv ==
    ASSUME IInv, NEW p \in Instances, EnableCommand(p)
    PROVE  IInv'
<1>0. proxy' \in [Services -> SUBSET Kinds] /\ failed' \in 0..MaxFailures
  <2>1. service[p] \in Services /\ EnableOrder[command[p]] \in Kinds
    BY DEF EnableCommand, IInv, TypeOK, ThreadInv, EnableOrder, Kinds
  <2>2. Command(p, EnableOrder, TRUE, "record")
    BY DEF EnableCommand
  <2> QED BY <2>1, <2>2, CommandType DEF IInv
<1>2. TypeOK'
  BY <1>0, MacClientAssumption
  DEF EnableCommand, Command, EnableOrder, IInv, TypeOK, ThreadInv, CountInv, PortInv,
      BeforeListen, BeforeRecord, Ids, environment, thread, session, store, port
<1>3. ThreadInv'
  BY DEF EnableCommand, Command, EnableOrder, IInv, TypeOK, ThreadInv, PortInv,
         environment, thread, session, store, port
<1>4. CountInv'
  BY MacClientAssumption
  DEF EnableCommand, Command, EnableOrder, IInv, TypeOK, ThreadInv, CountInv, PortInv,
      BeforeListen, BeforeRecord, environment, thread, session, store, port
<1>5. PortInv'
  BY DEF EnableCommand, Command, EnableOrder, IInv, TypeOK, ThreadInv, PortInv,
         environment, thread, session, store, port
<1> QED BY <1>2, <1>3, <1>4, <1>5 DEF IInv

LEMMA ConnectedInv ==
    ASSUME IInv, NEW p \in Instances, Connected(p)
    PROVE  IInv'
<1>0. made + 1 \in Ids
  BY MacClientAssumption
  DEF Connected, IInv, TypeOK, CountInv, BeforeRecord, Ids
<1>1. /\ history' \in [Instances -> Histories]
      /\ file' \in Histories
      /\ failed' \in 0..MaxFailures
  BY <1>0, RecordConnectType DEF Connected, IInv
<1>2. TypeOK'
  <2>1. /\ pc' \in [Instances -> {"idle", "disable", "close", "listen",
                                 "service", "enable", "record"}]
        /\ connected' \in [Instances -> BOOLEAN]
    BY DEF Connected, IInv, TypeOK
  <2>2. /\ made' \in 0..MaxConnects
        /\ entry' \in [Instances -> 0..MaxConnects]
    BY <1>0, MacClientAssumption DEF Connected, IInv, TypeOK, Ids
  <2> QED
    BY <1>1, <2>1, <2>2 DEF Connected, IInv, TypeOK, environment, port
<1>3. ThreadInv'
  BY DEF Connected, IInv, TypeOK, ThreadInv, PortInv,
         environment, thread, session, store, port
<1>4. CountInv'
  BY MacClientAssumption
  DEF Connected, IInv, TypeOK, ThreadInv, CountInv, PortInv,
      BeforeListen, BeforeRecord, environment, thread, session, store, port
<1>5. PortInv'
  BY DEF Connected, IInv, TypeOK, ThreadInv, PortInv,
         environment, thread, session, store, port
<1> QED BY <1>2, <1>3, <1>4, <1>5 DEF IInv

LEMMA ListenerStartsInv ==
    ASSUME IInv, NEW p \in Instances, ListenerStarts(p)
    PROVE  IInv'
<1>2. TypeOK'
  BY MacClientAssumption
  DEF ListenerStarts, PortTaken, IInv, TypeOK, ThreadInv, CountInv, PortInv,
      BeforeListen, BeforeRecord, Ids, environment, thread, session, store, port
<1>3. ThreadInv'
  BY DEF ListenerStarts, PortTaken, IInv, TypeOK, ThreadInv, PortInv,
         environment, thread, session, store, port
<1>4. CountInv'
  BY MacClientAssumption
  DEF ListenerStarts, PortTaken, IInv, TypeOK, ThreadInv, CountInv, PortInv,
      BeforeListen, BeforeRecord, environment, thread, session, store, port
<1>5. PortInv'
  BY DEF ListenerStarts, PortTaken, IInv, TypeOK, ThreadInv, PortInv,
         environment, thread, session, store, port
<1> QED BY <1>2, <1>3, <1>4, <1>5 DEF IInv

LEMMA ListenerReleasesInv ==
    ASSUME IInv, NEW p \in Instances, ListenerReleases(p)
    PROVE  IInv'
<1>2. TypeOK'
  BY MacClientAssumption
  DEF ListenerReleases, IInv, TypeOK, ThreadInv, CountInv, PortInv,
      BeforeListen, BeforeRecord, Ids, environment, thread, session, store, port
<1>3. ThreadInv'
  BY DEF ListenerReleases, IInv, TypeOK, ThreadInv, PortInv,
         environment, thread, session, store, port
<1>4. CountInv'
  BY MacClientAssumption
  DEF ListenerReleases, IInv, TypeOK, ThreadInv, CountInv, PortInv,
      BeforeListen, BeforeRecord, environment, thread, session, store, port
<1>5. PortInv'
  BY DEF ListenerReleases, IInv, TypeOK, ThreadInv, PortInv,
         environment, thread, session, store, port
<1> QED BY <1>2, <1>3, <1>4, <1>5 DEF IInv

LEMMA NetworkChangesInv == IInv /\ NetworkChanges => IInv'
<1> SUFFICES ASSUME IInv, NetworkChanges PROVE IInv'
  OBVIOUS
<1> USE DEF NetworkChanges, thread, session, store, port
<1>1. TypeOK'
  BY MacClientAssumption DEF IInv, TypeOK
<1>2. ThreadInv'
  BY DEF IInv, ThreadInv
<1>3. CountInv'
  BY DEF IInv, CountInv, BeforeListen, BeforeRecord
<1>4. PortInv'
  BY DEF IInv, PortInv
<1> QED BY <1>1, <1>2, <1>3, <1>4 DEF IInv

LEMMA StutterInv == IInv /\ UNCHANGED vars => IInv'
<1> SUFFICES ASSUME IInv, UNCHANGED vars PROVE IInv'
  OBVIOUS
<1> USE DEF vars, environment, thread, session, store, port
<1>1. TypeOK'
  BY DEF IInv, TypeOK
<1>2. ThreadInv'
  BY DEF IInv, ThreadInv
<1>3. CountInv'
  BY DEF IInv, CountInv, BeforeListen, BeforeRecord
<1>4. PortInv'
  BY DEF IInv, PortInv
<1> QED BY <1>1, <1>2, <1>3, <1>4 DEF IInv

LEMMA NextInv == IInv /\ [Next]_vars => IInv'
<1> SUFFICES ASSUME IInv, [Next]_vars PROVE IInv'
  OBVIOUS
<1>1. CASE NetworkChanges
  BY <1>1, NetworkChangesInv
<1>2. CASE UNCHANGED vars
  BY <1>2, StutterInv
<1>3. ASSUME NEW p \in Instances, Step(p) PROVE IInv'
  BY <1>3, StartInv, LaunchInv, DieInv, HandleGetURLEventInv,
     ClickDisconnectInv, QuitInv, DisableCommandInv, CloseInv, ListenInv,
     FindServiceInv, EnableCommandInv, ConnectedInv, ListenerStartsInv,
     ListenerReleasesInv
  DEF Step
<1> QED BY <1>1, <1>2, <1>3 DEF Next

\* The invariant holds in every reachable state.
THEOREM Invariance == Spec => []IInv
<1>1. Init => IInv
  BY InitInv
<1>2. IInv /\ [Next]_vars => IInv'
  BY NextInv
<1> QED BY <1>1, <1>2, PTL DEF Spec

\* Every variable keeps its type, whatever fails and whoever dies.
THEOREM TypeCorrect == Spec => []TypeOK
<1>1. IInv => TypeOK
  BY DEF IInv
<1> QED BY <1>1, Invariance, PTL

\* terminateOtherRunningInstances leaves nobody who holds the port: the first
\* listener of an instance is never refused it.
THEOREM FirstListener == Spec => []FirstListenerGetsPort
<1>1. IInv => FirstListenerGetsPort
  BY DEF IInv, TypeOK, PortInv, FirstListenerGetsPort
<1> QED BY <1>1, Invariance, PTL
----------------------------------------------------------------------------
(* The history: the entry of a connection, and what each copy of the list  *)
(* says of it.                                                             *)

Open(h) == {i \in DOMAIN h : h[i] = "open"}

\* The connect() that p is in has closed the connection there was.
Between(p) == pc[p] \in {"listen", "service", "enable", "record"}

\* Lists hold entries that were made, and a connection's own entry is open
\* in the list of its instance.
EntryInv ==
    /\ DOMAIN file \subseteq 1..made
    /\ \A p \in Instances :
          /\ DOMAIN history[p] \subseteq 1..made
          /\ entry[p] # 0 => phase[p] = "running" /\ entry[p] \in Open(history[p])
          /\ Between(p) => entry[p] = 0

\* A list is a function on entries, each open or closed.
LEMMA ListType ==
    ASSUME NEW h \in Histories
    PROVE  /\ h = [i \in DOMAIN h |-> h[i]]
           /\ DOMAIN h \subseteq Ids
           /\ \A i \in DOMAIN h : h[i] \in {"open", "closed"}
<1>1. PICK S \in SUBSET Ids : h \in [S -> {"open", "closed"}]
  BY DEF Histories
<1> QED BY <1>1

\* What Close does to the lists.
LEMMA CloseLists ==
    ASSUME IInv, EntryInv, NEW p \in Instances, Close(p)
    PROVE  /\ history' = IF entry[p] = 0 THEN history
                         ELSE [history EXCEPT ![p] = [@ EXCEPT ![entry[p]] = "closed"]]
           /\ IF entry[p] = 0 THEN file' = file /\ failed' = failed
              ELSE \/ file' = history'[p] /\ failed' = failed
                   \/ file' = file /\ failed' = failed + 1
           /\ made' = made
<1>1. CASE entry[p] = 0
  <2>1. entry[p] \notin DOMAIN history[p]
    BY <1>1, MacClientAssumption DEF IInv, TypeOK, EntryInv
  <2> QED BY <1>1, <2>1 DEF Close, RecordDisconnect
<1>2. CASE entry[p] # 0
  <2>1. entry[p] \in DOMAIN history[p]
    BY <1>2 DEF EntryInv, Open
  <2>2. Save(p, [history[p] EXCEPT ![entry[p]] = "closed"])
    BY <2>1 DEF Close, RecordDisconnect
  <2>3. history' = [history EXCEPT ![p] = [history[p] EXCEPT ![entry[p]] = "closed"]]
    BY <2>2 DEF Save
  <2>4. history'[p] = [history[p] EXCEPT ![entry[p]] = "closed"]
    BY <2>3 DEF IInv, TypeOK
  <2> QED BY <1>2, <2>2, <2>3, <2>4 DEF Close, Save, Outcome
<1> QED BY <1>1, <1>2

\* What Connected does to the lists.
LEMMA ConnectedLists ==
    ASSUME IInv, EntryInv, NEW p \in Instances, Connected(p)
    PROVE  /\ history'[p] = [i \in DOMAIN history[p] \cup {made + 1} |->
                               IF i = made + 1 THEN "open" ELSE history[p][i]]
           /\ \A q \in Instances \ {p} : history'[q] = history[q]
           /\ \/ file' = history'[p] /\ failed' = failed
              \/ file' = file /\ failed' = failed + 1
           /\ made' = made + 1 /\ made + 1 \in Nat
           /\ made + 1 \notin DOMAIN history[p]
           /\ entry[p] = 0
<1>1. Save(p, [i \in DOMAIN history[p] \cup {made + 1} |->
                 IF i = made + 1 THEN "open" ELSE history[p][i]])
  BY DEF Connected, RecordConnect
<1>2. history' = [history EXCEPT ![p] =
                    [i \in DOMAIN history[p] \cup {made + 1} |->
                       IF i = made + 1 THEN "open" ELSE history[p][i]]]
  BY <1>1 DEF Save
<1>3. history'[p] = [i \in DOMAIN history[p] \cup {made + 1} |->
                       IF i = made + 1 THEN "open" ELSE history[p][i]]
  BY <1>2 DEF IInv, TypeOK
<1>4. \/ file' = history'[p] /\ failed' = failed
      \/ file' = file /\ failed' = failed + 1
  BY <1>1, <1>3 DEF Save, Outcome
<1>5. made' = made + 1 /\ made + 1 \in Nat /\ made + 1 \notin DOMAIN history[p]
  BY MacClientAssumption DEF Connected, IInv, TypeOK, EntryInv
<1>6. entry[p] = 0
  BY DEF Connected, EntryInv, Between
<1>7. \A q \in Instances \ {p} : history'[q] = history[q]
  BY <1>2 DEF IInv, TypeOK
<1> QED BY <1>3, <1>4, <1>5, <1>6, <1>7

\* The steps that leave the lists and the connections' entries alone.
Listless == UNCHANGED <<history, file, made, entry, phase, overlapped>>

LEMMA OtherSteps ==
    ASSUME NEW p \in Instances, Step(p)
    PROVE  Start(p) \/ Launch(p) \/ Die(p) \/ Close(p) \/ Connected(p) \/ Listless
BY DEF Step, HandleGetURLEvent, ClickDisconnect, Quit, Disconnect, StopListener,
       DisableCommand, EnableCommand, Listen, FindService, ListenerStarts,
       ListenerReleases, Listless, session, store

LEMMA EntryStep ==
    ASSUME IInv, EntryInv, NEW p \in Instances, Step(p)
    PROVE  EntryInv'
<1> USE DEF EntryInv, Between
<1>1. CASE Start(p)
  <2>1. entry[p] = 0 /\ pc[p] = "idle"
    BY <1>1 DEF Start, IInv, ThreadInv
  <2> QED BY <1>1, <2>1 DEF Start, IInv, TypeOK, thread, session, Open
<1>2. CASE Launch(p)
  BY <1>2 DEF Launch, Forget, Alive, IInv, TypeOK, ThreadInv, store, Open
<1>3. CASE Die(p)
  BY <1>3 DEF Die, Forget, Alive, IInv, TypeOK, ThreadInv, store, Open
<1>4. CASE Close(p)
  <2>1. /\ made' = made
        /\ DOMAIN file' \subseteq 1..made
        /\ \A q \in Instances :
              /\ DOMAIN history'[q] = DOMAIN history[q]
              /\ q # p => history'[q] = history[q]
    BY <1>4, CloseLists DEF IInv, TypeOK
  <2>2. \A q \in Instances : entry'[q] = IF q = p THEN 0 ELSE entry[q]
    BY <1>4 DEF Close, IInv, TypeOK
  <2>3. \A q \in Instances \ {p} : phase'[q] = phase[q] /\ pc'[q] = pc[q]
    BY <1>4 DEF Close, IInv, TypeOK
  <2> QED BY <2>1, <2>2, <2>3 DEF Open
<1>5. CASE Connected(p)
  <2>1. /\ made' = made + 1
        /\ DOMAIN file' \subseteq 1..made'
        /\ \A q \in Instances :
              /\ DOMAIN history'[q] \subseteq 1..made'
              /\ q # p => history'[q] = history[q]
        /\ made + 1 \in Open(history'[p])
    <3>1. made \in Nat
      BY MacClientAssumption DEF IInv, TypeOK
    <3>2. 1..made \subseteq 1..(made + 1) /\ made + 1 \in 1..(made + 1)
      BY <3>1
    <3>3. /\ made' = made + 1
          /\ DOMAIN history'[p] = DOMAIN history[p] \cup {made + 1}
          /\ history'[p][made + 1] = "open"
          /\ \A q \in Instances \ {p} : history'[q] = history[q]
          /\ file' = file \/ file' = history'[p]
      BY <1>5, ConnectedLists
    <3> QED BY <3>2, <3>3 DEF Open
  <2>2. \A q \in Instances : entry'[q] = IF q = p THEN made + 1 ELSE entry[q]
    BY <1>5 DEF Connected, IInv, TypeOK
  <2>3. \A q \in Instances : phase'[q] = phase[q]
                             /\ pc'[q] = IF q = p THEN "idle" ELSE pc[q]
    BY <1>5 DEF Connected, IInv, TypeOK
  <2>4. phase[p] = "running"
    BY <1>5 DEF Connected, IInv, ThreadInv
  <2> QED BY <2>1, <2>2, <2>3, <2>4 DEF Open
<1>6. CASE Listless
  <2>1. \A q \in Instances : Between(q)' => entry[q] = 0
    <3>1. ASSUME NEW q \in Instances PROVE Between(q)' => entry[q] = 0
      <4>1. CASE Close(p) \/ Connected(p)
        BY <1>6, <4>1, <1>4, <1>5 DEF Listless
      <4>2. CASE Start(p) \/ Launch(p) \/ Die(p)
        BY <1>6, <4>2, <1>1, <1>2, <1>3 DEF Listless
      <4> QED
        BY <4>1, <4>2
        DEF Step, HandleGetURLEvent, ClickDisconnect, Quit, Disconnect,
            DisableCommand, EnableCommand, Command, Listen, FindService,
            ListenerStarts, ListenerReleases, thread, IInv, TypeOK
    <3> QED BY <3>1
  <2> QED BY <1>6, <2>1 DEF Listless, Open
<1> QED BY <1>1, <1>2, <1>3, <1>4, <1>5, <1>6, OtherSteps

LEMMA EntryNext == IInv /\ EntryInv /\ [Next]_vars => EntryInv'
<1>1. ASSUME IInv, EntryInv, NEW p \in Instances, Step(p) PROVE EntryInv'
  BY <1>1, EntryStep
<1>2. ASSUME EntryInv, NetworkChanges \/ UNCHANGED vars PROVE EntryInv'
  BY <1>2 DEF NetworkChanges, vars, thread, session, store, EntryInv, Between, Open
<1> QED BY <1>1, <1>2 DEF Next

THEOREM EntriesHold == Spec => []EntryInv
<1>1. Init => EntryInv
  BY DEF Init, EntryInv, Between, Open
<1>2. IInv /\ EntryInv /\ [Next]_vars => EntryInv'
  BY EntryNext
<1> QED BY <1>1, <1>2, Invariance, PTL DEF Spec

\* What one step may do to a closed entry of the file.
LEMMA ClosedStep ==
    ASSUME IInv, EntryInv, [Next]_vars,
           NEW i \in DOMAIN file, file[i] = "closed"
    PROVE  \/ i \in DOMAIN file' /\ file'[i] = "closed"
           \/ \E p \in Instances : history'[p] # history[p] /\ history[p] # file
<1>1. ASSUME NEW p \in Instances, Close(p), history[p] = file
      PROVE  i \in DOMAIN file' /\ file'[i] = "closed"
  BY <1>1, CloseLists DEF IInv, TypeOK
<1>2. ASSUME NEW p \in Instances, Close(p), file' # file
      PROVE  history'[p] # history[p]
  <2>1. entry[p] \in Open(history[p]) /\ history'[p] = [history[p] EXCEPT ![entry[p]] = "closed"]
    BY <1>2, CloseLists DEF IInv, TypeOK, EntryInv
  <2>2. history'[p][entry[p]] # history[p][entry[p]]
    BY <2>1 DEF Open
  <2> QED BY <2>2
<1>3. ASSUME NEW p \in Instances, Connected(p), history[p] = file
      PROVE  i \in DOMAIN file' /\ file'[i] = "closed"
  <2>1. i \in DOMAIN history[p] /\ i # made + 1
    BY <1>3, ConnectedLists
  <2>2. i \in DOMAIN history'[p] /\ history'[p][i] = "closed"
    BY <1>3, <2>1, ConnectedLists
  <2> QED BY <1>3, <2>2, ConnectedLists
<1>4. ASSUME NEW p \in Instances, Connected(p)
      PROVE  history'[p] # history[p]
  <2>1. made + 1 \in DOMAIN history'[p] /\ made + 1 \notin DOMAIN history[p]
    BY <1>4, ConnectedLists
  <2> QED BY <2>1
<1>5. CASE file' = file
  BY <1>5
<1>6. CASE file' # file
  <2>1. PICK p \in Instances : Close(p) \/ Connected(p)
    BY <1>6, OtherSteps
    DEF Next, Start, Launch, Die, Listless, NetworkChanges, vars, store
  <2> QED BY <1>1, <1>2, <1>3, <1>4, <1>6, <2>1
<1> QED BY <1>5, <1>6

\* What the file says of a connection that is over is undone only by an
\* instance whose copy of the list was not what the file held.
THEOREM ClosedStays == Spec => ClosedStaysClosed
<1>1. IInv /\ EntryInv /\ [Next]_vars =>
        [\A i \in DOMAIN file :
            file[i] = "closed" =>
               \/ i \in DOMAIN file' /\ file'[i] = "closed"
               \/ \E p \in Instances :
                     history'[p] # history[p] /\ history[p] # file]_vars
  BY ClosedStep
<1> QED BY <1>1, Invariance, EntriesHold, PTL DEF Spec, ClosedStaysClosed
----------------------------------------------------------------------------
(* How many entries are open without a connection.                         *)

LEMMA OneMore ==
    ASSUME NEW S, NEW T, NEW x, IsFiniteSet(T), S \subseteq T \cup {x}
    PROVE  /\ IsFiniteSet(S)
           /\ Cardinality(S) \in Nat /\ Cardinality(T) \in Nat
           /\ Cardinality(S) <= Cardinality(T) + 1
<1>1. /\ IsFiniteSet(T \cup {x})
      /\ \/ Cardinality(T \cup {x}) = Cardinality(T)
         \/ Cardinality(T \cup {x}) = Cardinality(T) + 1
  BY FS_AddElement
<1>2. IsFiniteSet(S) /\ Cardinality(S) <= Cardinality(T \cup {x})
  BY <1>1, FS_Subset
<1> QED BY <1>1, <1>2, FS_CardinalityType

LEMMA NoMore ==
    ASSUME NEW S, NEW T, IsFiniteSet(T), S \subseteq T
    PROVE  /\ IsFiniteSet(S)
           /\ Cardinality(S) \in Nat /\ Cardinality(T) \in Nat
           /\ Cardinality(S) <= Cardinality(T)
BY FS_Subset, FS_CardinalityType

LEMMA Added ==
    ASSUME NEW S, NEW T, NEW x, IsFiniteSet(T), S \subseteq T, x \in T, x \notin S
    PROVE  /\ IsFiniteSet(S)
           /\ Cardinality(S) \in Nat /\ Cardinality(T) \in Nat
           /\ Cardinality(S) + 1 <= Cardinality(T)
<1>1. IsFiniteSet(S)
  BY FS_Subset
<1>2. IsFiniteSet(S \cup {x}) /\ Cardinality(S \cup {x}) = Cardinality(S) + 1
  BY <1>1, FS_AddElement
<1>3. Cardinality(S \cup {x}) <= Cardinality(T)
  BY FS_Subset
<1> QED BY <1>1, <1>2, <1>3, FS_CardinalityType

\* What HistoryFollowsConnection allows.
Blame == failed + Cardinality(Killed) + Cardinality(overlapped)

Current == {entry[p] : p \in Instances}

OpenInv ==
    /\ Cardinality(Open(file) \ Current) <= Blame
    /\ \A p \in Instances : Cardinality(Open(history[p]) \ {entry[p]}) <= Blame
    /\ \A p \in overlapped : phase[p] # "off"

LEMMA Few == \A S \in SUBSET Instances : IsFiniteSet(S) /\ Cardinality(S) \in Nat
BY MacClientAssumption, FS_Subset, FS_CardinalityType

\* The sets that are counted are finite.
LEMMA Counts ==
    ASSUME TypeOK
    PROVE  /\ failed \in Nat
           /\ IsFiniteSet(Killed) /\ Cardinality(Killed) \in Nat
           /\ IsFiniteSet(overlapped) /\ Cardinality(overlapped) \in Nat
           /\ IsFiniteSet(Open(file))
           /\ \A p \in Instances : IsFiniteSet(Open(history[p]))
<1>1. failed \in Nat
  BY MacClientAssumption DEF TypeOK
<1>2. /\ IsFiniteSet(Killed) /\ Cardinality(Killed) \in Nat
      /\ IsFiniteSet(overlapped) /\ Cardinality(overlapped) \in Nat
  BY Few DEF Killed, TypeOK
<1>3. IsFiniteSet(Ids)
  BY MacClientAssumption, FS_Interval DEF Ids
<1>4. \A h \in Histories : IsFiniteSet(Open(h))
  <2>1. ASSUME NEW h \in Histories PROVE Open(h) \subseteq Ids
    BY <2>1, ListType DEF Open
  <2> QED BY <1>3, <2>1, FS_Subset
<1> QED BY <1>1, <1>2, <1>4 DEF TypeOK

LEMMA CountsNext ==
    ASSUME TypeOK'
    PROVE  /\ failed' \in Nat
           /\ IsFiniteSet(Killed') /\ Cardinality(Killed') \in Nat
           /\ IsFiniteSet(overlapped') /\ Cardinality(overlapped') \in Nat
<1>1. failed' \in Nat
  BY MacClientAssumption DEF TypeOK
<1>2. /\ IsFiniteSet(Killed') /\ Cardinality(Killed') \in Nat
      /\ IsFiniteSet(overlapped') /\ Cardinality(overlapped') \in Nat
  BY Few DEF Killed, TypeOK
<1> QED BY <1>1, <1>2

\* A step that takes nothing from those to blame keeps the bound of a list
\* that has no more open entries.
LEMMA BlameGrows ==
    ASSUME TypeOK, TypeOK', failed' >= failed, Killed \subseteq Killed',
           overlapped \subseteq overlapped'
    PROVE  Blame \in Nat /\ Blame' \in Nat /\ Blame <= Blame'
<1>1. Cardinality(Killed) <= Cardinality(Killed')
  BY CountsNext, NoMore
<1>2. Cardinality(overlapped) <= Cardinality(overlapped')
  BY CountsNext, NoMore
<1>3. /\ failed \in Nat /\ Cardinality(Killed) \in Nat
      /\ Cardinality(overlapped) \in Nat
  BY Counts
<1>4. /\ failed' \in Nat /\ Cardinality(Killed') \in Nat
      /\ Cardinality(overlapped') \in Nat
  BY CountsNext
<1> QED BY <1>1, <1>2, <1>3, <1>4 DEF Blame

LEMMA OpenStart ==
    ASSUME IInv, IInv', EntryInv, OpenInv, NEW p \in Instances, Start(p)
    PROVE  OpenInv'
<1> USE DEF OpenInv
<1>1. /\ phase[p] = "off" /\ entry[p] = 0
      /\ entry' = entry /\ file' = file /\ failed' = failed
      /\ phase' = [phase EXCEPT ![p] = "loaded"]
      /\ history'[p] = file
      /\ \A q \in Instances \ {p} : history'[q] = history[q]
  BY DEF Start, IInv, TypeOK, EntryInv, session
<1>2. /\ overlapped \subseteq overlapped'
      /\ overlapped' \subseteq overlapped \cup {p}
      /\ (\E q \in Instances : Alive(q)) => p \in overlapped'
  BY DEF Start
<1>3. Killed' = Killed
  BY <1>1 DEF Killed, IInv, TypeOK
<1>4. Blame \in Nat /\ Blame' \in Nat /\ Blame <= Blame'
  BY <1>1, <1>2, <1>3, BlameGrows, MacClientAssumption DEF IInv, TypeOK
<1>5. Cardinality(Open(file) \ Current)' <= Blame'
  <2>1. Current' = Current /\ Open(file)' = Open(file)
    BY <1>1 DEF Current, Open
  <2>2. Cardinality(Open(file) \ Current) \in Nat
    BY Counts, NoMore, FS_Subset, FS_CardinalityType DEF IInv
  <2> QED BY <1>4, <2>1, <2>2
<1>6. ASSUME NEW q \in Instances
      PROVE  (Cardinality(Open(history[q]) \ {entry[q]}) <= Blame)'
  <2>1. CASE q # p
    <3>1. (Open(history[q]) \ {entry[q]})' = Open(history[q]) \ {entry[q]}
      BY <1>1, <2>1 DEF Open
    <3>2. Cardinality(Open(history[q]) \ {entry[q]}) \in Nat
      BY Counts, NoMore DEF IInv
    <3> QED BY <1>4, <3>1, <3>2
  <2>2. CASE q = p /\ \E r \in Instances : entry[r] # 0
    <3>1. PICK r \in Instances : entry[r] # 0
      BY <2>2
    <3>2. phase[r] = "running" /\ \A t \in Instances : t # r => entry[t] = 0
      BY <3>1 DEF EntryInv, IInv, ThreadInv
    <3>3. p \in overlapped' /\ p \notin overlapped
      BY <1>1, <1>2, <3>2 DEF Alive
    <3>4. Cardinality(overlapped) + 1 <= Cardinality(overlapped')
      BY <1>2, <3>3, Added, CountsNext DEF IInv
    <3>5. Blame + 1 <= Blame'
      <4>1. /\ failed \in Nat /\ Cardinality(Killed) \in Nat
            /\ Cardinality(overlapped) \in Nat
        BY Counts DEF IInv
      <4>2. Cardinality(overlapped') \in Nat
        BY CountsNext DEF IInv
      <4> QED BY <1>1, <1>3, <3>4, <4>1, <4>2 DEF Blame
    <3>6. 0 \notin Open(file)
      <4>1. 0 \notin DOMAIN file
        BY MacClientAssumption DEF EntryInv, IInv, TypeOK
      <4> QED BY <4>1 DEF Open
    <3>7. Open(file) \ {0} \subseteq (Open(file) \ Current) \cup {entry[r]}
      BY <3>2, <3>6 DEF Current
    <3>8. /\ Cardinality(Open(file) \ {0}) \in Nat
          /\ Cardinality(Open(file) \ Current) \in Nat
          /\ Cardinality(Open(file) \ {0}) <= Cardinality(Open(file) \ Current) + 1
      <4>1. IsFiniteSet(Open(file) \ Current)
        BY Counts, NoMore DEF IInv
      <4> QED BY <3>7, <4>1, OneMore
    <3>9. (Open(history[q]) \ {entry[q]})' = Open(file) \ {0}
      BY <1>1, <2>2 DEF Open
    <3> QED BY <1>4, <3>5, <3>8, <3>9
  <2>3. CASE q = p /\ \A r \in Instances : entry[r] = 0
    <3>1. (Open(history[q]) \ {entry[q]})' = Open(file) \ Current
      BY <1>1, <2>3 DEF Open, Current
    <3>2. Cardinality(Open(file) \ Current) \in Nat
      BY Counts, NoMore DEF IInv
    <3> QED BY <1>4, <3>1, <3>2
  <2> QED BY <2>1, <2>2, <2>3
<1>7. (\A q \in overlapped : phase[q] # "off")'
  BY <1>1, <1>2 DEF IInv, TypeOK
<1> QED BY <1>5, <1>6, <1>7

\* Launch and Die: at most one of those they kill had a connection.
LEMMA OpenKill ==
    ASSUME IInv, IInv', EntryInv, OpenInv, NEW p \in Instances,
           Launch(p) \/ Die(p)
    PROVE  OpenInv'
<1> USE DEF OpenInv
<1>1. /\ history' = history /\ file' = file /\ failed' = failed
      /\ overlapped' = overlapped
  BY DEF Launch, Die, store
<1>2. PICK gone \in SUBSET Instances :
         /\ Killed' = Killed \cup gone
         /\ gone \cap Killed = {}
         /\ \A q \in Instances : entry'[q] = IF q \in gone THEN 0 ELSE entry[q]
         /\ \A q \in Instances : phase[q] # "off" => phase'[q] # "off"
  <2>1. CASE Launch(p)
    <3> DEFINE others == {q \in Instances \ {p} : Alive(q)}
    <3>1. /\ Killed' = Killed \cup others
          /\ others \cap Killed = {}
          /\ \A q \in Instances : phase[q] # "off" => phase'[q] # "off"
      BY <2>1 DEF Launch, Alive, Killed, IInv, TypeOK
    <3>2. \A q \in Instances : entry'[q] = IF q \in others THEN 0 ELSE entry[q]
      BY <2>1 DEF Launch, Forget
    <3> HIDE DEF others
    <3>3. others \in SUBSET Instances
      BY DEF others
    <3> QED BY <3>1, <3>2, <3>3
  <2>2. CASE Die(p)
    <3>1. /\ Killed' = Killed \cup {p}
          /\ {p} \cap Killed = {}
          /\ \A q \in Instances : phase[q] # "off" => phase'[q] # "off"
      BY <2>2 DEF Die, Alive, Killed, IInv, TypeOK
    <3>2. \A q \in Instances : entry'[q] = IF q \in {p} THEN 0 ELSE entry[q]
      BY <2>2 DEF Die, Forget
    <3> QED BY <3>1, <3>2
  <2> QED BY <2>1, <2>2
<1>3. Blame \in Nat /\ Blame' \in Nat /\ Blame <= Blame'
  BY <1>1, <1>2, BlameGrows, MacClientAssumption DEF IInv, TypeOK
<1>4. ASSUME NEW q \in gone PROVE Blame + 1 <= Blame'
  <2>1. Cardinality(Killed) + 1 <= Cardinality(Killed')
    <3>1. q \in Killed' /\ q \notin Killed /\ Killed \subseteq Killed'
      BY <1>2
    <3> QED BY <3>1, Added, CountsNext DEF IInv
  <2>2. /\ failed \in Nat /\ Cardinality(Killed) \in Nat
        /\ Cardinality(overlapped) \in Nat
    BY Counts DEF IInv
  <2>3. Cardinality(Killed') \in Nat
    BY CountsNext DEF IInv
  <2> QED BY <1>1, <2>1, <2>2, <2>3 DEF Blame
<1>5. ASSUME NEW q \in Instances
      PROVE  (Cardinality(Open(history[q]) \ {entry[q]}) <= Blame)'
  <2>1. Open(history[q])' = Open(history[q])
    BY <1>1 DEF Open
  <2>2. IsFiniteSet(Open(history[q]) \ {entry[q]})
    BY Counts, NoMore DEF IInv
  <2>3. CASE q \in gone
    <3>1. (Open(history[q]) \ {entry[q]})'
             \subseteq (Open(history[q]) \ {entry[q]}) \cup {entry[q]}
      BY <2>1
    <3>2. /\ Cardinality((Open(history[q]) \ {entry[q]})') \in Nat
          /\ Cardinality(Open(history[q]) \ {entry[q]}) \in Nat
          /\ Cardinality((Open(history[q]) \ {entry[q]})')
               <= Cardinality(Open(history[q]) \ {entry[q]}) + 1
      BY <2>2, <3>1, OneMore
    <3> QED BY <1>3, <1>4, <2>3, <3>2
  <2>4. CASE q \notin gone
    <3>1. (Open(history[q]) \ {entry[q]})' = Open(history[q]) \ {entry[q]}
      BY <1>2, <2>1, <2>4
    <3>2. Cardinality(Open(history[q]) \ {entry[q]}) \in Nat
      BY <2>2, FS_CardinalityType
    <3> QED BY <1>3, <3>1, <3>2
  <2> QED BY <2>3, <2>4
<1>6. Cardinality(Open(file) \ Current)' <= Blame'
  <2>1. Open(file)' = Open(file)
    BY <1>1 DEF Open
  <2>2. IsFiniteSet(Open(file) \ Current)
    BY Counts, NoMore DEF IInv
  <2>3. 0 \notin Open(file)
    <3>1. 0 \notin DOMAIN file
      BY MacClientAssumption DEF EntryInv, IInv, TypeOK
    <3> QED BY <3>1 DEF Open
  <2>4. CASE \E q \in gone : entry[q] # 0
    <3>1. PICK q \in gone : entry[q] # 0
      BY <2>4
    <3>2. \A t \in Instances : t # q => entry[t] = 0
      BY <3>1 DEF EntryInv, IInv, ThreadInv
    <3>3. (Open(file) \ Current)' \subseteq (Open(file) \ Current) \cup {entry[q]}
      BY <2>1, <2>3, <3>2 DEF Current
    <3>4. /\ Cardinality((Open(file) \ Current)') \in Nat
          /\ Cardinality(Open(file) \ Current) \in Nat
          /\ Cardinality((Open(file) \ Current)')
               <= Cardinality(Open(file) \ Current) + 1
      BY <2>2, <3>3, OneMore
    <3> QED BY <1>3, <1>4, <3>1, <3>4
  <2>5. CASE \A q \in gone : entry[q] = 0
    <3>1. \A q \in Instances : entry'[q] = entry[q]
      BY <1>2, <2>5
    <3>2. Open(file)' = Open(file) /\ Current' = Current
      BY <2>1, <3>1 DEF Current
    <3>3. Cardinality(Open(file) \ Current) \in Nat
      BY <2>2, FS_CardinalityType
    <3> QED BY <1>3, <3>2, <3>3
  <2> QED BY <2>4, <2>5
<1>7. (\A q \in overlapped : phase[q] # "off")'
  BY <1>1, <1>2 DEF IInv, TypeOK
<1> QED BY <1>5, <1>6, <1>7

\* Close and Connected: what is written is the list of the instance itself,
\* and a write that fails is counted.
LEMMA OpenSave ==
    ASSUME IInv, IInv', EntryInv, OpenInv, NEW p \in Instances,
           Close(p) \/ Connected(p)
    PROVE  OpenInv'
<1> USE DEF OpenInv
<1>1. /\ overlapped' = overlapped
      /\ \A q \in Instances : phase'[q] # phase[q] => q = p /\ phase'[q] = "quit"
      /\ \A q \in Instances \ {p} : entry'[q] = entry[q]
  BY DEF Close, Connected, IInv, TypeOK
<1>2. pc[p] # "idle" /\ phase[p] = "running"
  BY DEF Close, Connected, IInv, ThreadInv
<1>3. Killed' = Killed
  BY <1>1, <1>2 DEF Killed
<1>4. failed \in Nat
  BY Counts DEF IInv
<1>5. /\ \A q \in Instances \ {p} : history'[q] = history[q]
      /\ (Open(history[p]) \ {entry[p]})' = Open(history[p]) \ {entry[p]}
      /\ \/ file' = history'[p] /\ failed' = failed
         \/ file' = file /\ failed' = failed + 1
         \/ file' = file /\ failed' = failed /\ entry' = entry
  <2>1. CASE Close(p)
    <3>1. entry'[p] = 0
      BY <2>1 DEF Close, IInv, TypeOK
    <3>2. CASE entry[p] = 0
      <4>1. history' = history /\ file' = file /\ failed' = failed
        BY <2>1, <3>2, CloseLists
      <4>2. entry' = entry
        BY <2>1, <3>2 DEF Close, IInv, TypeOK
      <4> QED BY <4>1, <4>2 DEF Open
    <3>3. CASE entry[p] # 0
      <4>1. /\ history'[p] = [history[p] EXCEPT ![entry[p]] = "closed"]
            /\ \A q \in Instances \ {p} : history'[q] = history[q]
        BY <2>1, <3>3, CloseLists DEF IInv, TypeOK
      <4>2. \/ file' = history'[p] /\ failed' = failed
            \/ file' = file /\ failed' = failed + 1
        BY <2>1, <3>3, CloseLists
      <4>3. 0 \notin DOMAIN history[p]
        BY MacClientAssumption DEF EntryInv, IInv, TypeOK
      <4>4. Open(history'[p]) = Open(history[p]) \ {entry[p]}
        BY <4>1 DEF Open
      <4>5. 0 \notin Open(history[p])
        BY <4>3 DEF Open
      <4>6. (Open(history[p]) \ {entry[p]})' = Open(history'[p]) \ {entry'[p]}
        BY DEF Open
      <4> QED BY <3>1, <4>1, <4>2, <4>4, <4>5, <4>6
    <3> QED BY <3>2, <3>3
  <2>2. CASE Connected(p)
    <3>1. entry'[p] = made + 1
      BY <2>2 DEF Connected, IInv, TypeOK
    <3>2. /\ Open(history'[p]) = Open(history[p]) \cup {made + 1}
          /\ made + 1 \notin Open(history[p])
      BY <2>2, ConnectedLists DEF Open
    <3>3. 0 \notin Open(history[p]) /\ entry[p] = 0
      <4>1. 0 \notin DOMAIN history[p]
        BY MacClientAssumption DEF EntryInv, IInv, TypeOK
      <4> QED BY <2>2, <4>1, ConnectedLists DEF Open
    <3>4. (Open(history[p]) \ {entry[p]})' = Open(history'[p]) \ {entry'[p]}
      BY DEF Open
    <3>5. (Open(history[p]) \ {entry[p]})' = Open(history[p]) \ {entry[p]}
      BY <3>1, <3>2, <3>3, <3>4
    <3> QED BY <2>2, <3>5, ConnectedLists
  <2> QED BY <2>1, <2>2
<1>6. Blame \in Nat /\ Blame' \in Nat /\ Blame <= Blame'
  BY <1>1, <1>3, <1>4, <1>5, BlameGrows DEF IInv
<1>7. ASSUME NEW q \in Instances
      PROVE  /\ (Cardinality(Open(history[q]) \ {entry[q]}) <= Blame)'
             /\ Cardinality((Open(history[q]) \ {entry[q]})') \in Nat
             /\ IsFiniteSet((Open(history[q]) \ {entry[q]})')
  <2>1. (Open(history[q]) \ {entry[q]})' = Open(history[q]) \ {entry[q]}
    BY <1>1, <1>5 DEF Open
  <2>2. /\ IsFiniteSet(Open(history[q]) \ {entry[q]})
        /\ Cardinality(Open(history[q]) \ {entry[q]}) \in Nat
    BY Counts, NoMore DEF IInv
  <2>3. /\ IsFiniteSet((Open(history[q]) \ {entry[q]})')
        /\ Cardinality((Open(history[q]) \ {entry[q]})') =
             Cardinality(Open(history[q]) \ {entry[q]})
    BY <2>1, <2>2, Zenon
  <2> QED BY <1>6, <2>2, <2>3
<1>8. Cardinality(Open(file) \ Current)' <= Blame'
  <2>1. IsFiniteSet(Open(file) \ Current)
    BY Counts, NoMore DEF IInv
  <2>2. CASE file' = history'[p]
    <3>1. (Open(file) \ Current)' \subseteq (Open(history[p]) \ {entry[p]})'
      BY <2>2 DEF Open, Current
    <3>2. /\ Cardinality((Open(file) \ Current)')
               <= Cardinality((Open(history[p]) \ {entry[p]})')
          /\ Cardinality((Open(file) \ Current)') \in Nat
      BY <1>7, <3>1, NoMore
    <3> QED BY <1>6, <1>7, <3>2
  <2>3. CASE file' = file /\ failed' = failed + 1
    <3>1. (Open(file) \ Current)' \subseteq (Open(file) \ Current) \cup {entry[p]}
      BY <1>1, <2>3 DEF Open, Current
    <3>2. /\ Cardinality((Open(file) \ Current)') \in Nat
          /\ Cardinality(Open(file) \ Current) \in Nat
          /\ Cardinality((Open(file) \ Current)')
               <= Cardinality(Open(file) \ Current) + 1
      BY <2>1, <3>1, OneMore
    <3>3. Blame' = Blame + 1
      <4>1. Cardinality(Killed) \in Nat /\ Cardinality(overlapped) \in Nat
        BY Counts DEF IInv
      <4> QED BY <1>1, <1>3, <1>4, <2>3, <4>1 DEF Blame
    <3> QED BY <1>6, <3>2, <3>3
  <2>4. CASE file' = file /\ entry' = entry
    <3>1. (Open(file) \ Current)' = Open(file) \ Current
      BY <2>4 DEF Open, Current
    <3>2. Cardinality(Open(file) \ Current) \in Nat
      BY <2>1, FS_CardinalityType
    <3> QED BY <1>6, <3>1, <3>2
  <2> QED BY <1>5, <2>2, <2>3, <2>4
<1>9. (\A q \in overlapped : phase[q] # "off")'
  BY <1>1 DEF IInv, TypeOK
<1> QED BY <1>7, <1>8, <1>9

LEMMA FailedGrows ==
    ASSUME TypeOK, [Next]_vars
    PROVE  failed' \in Nat /\ failed \in Nat /\ failed' >= failed
<1>1. failed \in Nat
  BY MacClientAssumption DEF TypeOK
<1>2. ASSUME NEW ok \in BOOLEAN, Outcome(ok)
      PROVE  failed' = failed \/ failed' = failed + 1
  BY <1>2 DEF Outcome
<1>3. failed' = failed \/ failed' = failed + 1
  BY <1>2
  DEF Next, Step, Start, Launch, Die, HandleGetURLEvent, ClickDisconnect, Quit,
      Disconnect, DisableCommand, EnableCommand, Command, Close,
      RecordDisconnect, Save, Listen, FindService, Connected, RecordConnect,
      ListenerStarts, ListenerReleases, NetworkChanges, vars
<1> QED BY <1>1, <1>3

LEMMA OpenRest ==
    ASSUME IInv, IInv', OpenInv, [Next]_vars, Listless
    PROVE  OpenInv'
<1>1. Killed' = Killed /\ Current' = Current /\ Open(file)' = Open(file)
  BY DEF Listless, Killed, Current, Open
<1>2. Blame \in Nat /\ Blame' \in Nat /\ Blame <= Blame'
  BY <1>1, BlameGrows, FailedGrows DEF Listless, IInv
<1>3. Cardinality(Open(file) \ Current) \in Nat
  BY Counts, NoMore DEF IInv
<1>4. ASSUME NEW q \in Instances
      PROVE  (Cardinality(Open(history[q]) \ {entry[q]}) <= Blame)'
  <2>1. Cardinality(Open(history[q]) \ {entry[q]}) \in Nat
    BY Counts, NoMore DEF IInv
  <2>2. Open(history[q])' = Open(history[q]) /\ entry'[q] = entry[q]
    BY DEF Listless, Open
  <2> QED BY <1>2, <2>1, <2>2 DEF OpenInv
<1>5. Cardinality(Open(file) \ Current)' <= Blame'
  BY <1>1, <1>2, <1>3 DEF OpenInv
<1>6. (\A q \in overlapped : phase[q] # "off")'
  BY DEF Listless, OpenInv
<1> QED BY <1>4, <1>5, <1>6 DEF OpenInv

LEMMA OpenNext == IInv /\ IInv' /\ EntryInv /\ OpenInv /\ [Next]_vars => OpenInv'
<1> SUFFICES ASSUME IInv, IInv', EntryInv, OpenInv, [Next]_vars PROVE OpenInv'
  OBVIOUS
<1>1. CASE Listless
  BY <1>1, OpenRest
<1>2. ASSUME NEW p \in Instances, Step(p), ~Listless PROVE OpenInv'
  BY <1>2, OtherSteps, OpenStart, OpenKill, OpenSave
<1>3. CASE NetworkChanges \/ UNCHANGED vars
  BY <1>3, <1>1 DEF NetworkChanges, vars, session, store, Listless
<1> QED BY <1>1, <1>2, <1>3 DEF Next

LEMMA OpenInit == Init => OpenInv
<1> SUFFICES ASSUME Init PROVE OpenInv
  OBVIOUS
<1>1. IInv
  BY InitInv
<1>2. Blame \in Nat
  BY <1>1, Counts DEF IInv, Blame
<1>3. /\ Open(file) \ Current = {}
      /\ \A p \in Instances : Open(history[p]) \ {entry[p]} = {}
  BY DEF Init, Open
<1>4. Cardinality(Open(file) \ Current) = 0
  BY <1>3, FS_EmptySet
<1>5. \A p \in Instances : Cardinality(Open(history[p]) \ {entry[p]}) = 0
  BY <1>3, FS_EmptySet
<1>6. \A p \in overlapped : phase[p] # "off"
  BY DEF Init
<1>7. 0 <= Blame
  BY <1>2
<1> QED BY <1>4, <1>5, <1>6, <1>7 DEF OpenInv

\* The file has no open entry without a connection, but for one for each
\* failed write, killed instance and instance that read the file too early.
THEOREM HistoryFollows == Spec => []HistoryFollowsConnection
<1>1. IInv /\ IInv' /\ EntryInv /\ OpenInv /\ [Next]_vars => OpenInv'
  BY OpenNext
<1>2. OpenInv => HistoryFollowsConnection
  BY DEF OpenInv, HistoryFollowsConnection, Open, Current, Blame
<1> QED BY <1>1, <1>2, OpenInit, Invariance, EntriesHold, PTL DEF Spec
----------------------------------------------------------------------------
(* The settings: which services are not as the main thread leaves them     *)
(* when every command succeeds.                                            *)

\* Which service is the connection's.
ServiceInv ==
    \A p \in Instances :
       /\ phase[p] # "running" => service[p] = NoService
       /\ pc[p] = "idle" => (connected[p] <=> service[p] # NoService)
       /\ pc[p] \in {"listen", "service"} => service[p] = NoService /\ ~connected[p]
       /\ pc[p] \in {"enable", "record"} => service[p] # NoService

\* What the commands run so far have switched on.
Given(p) ==
    IF pc[p] = "enable" /\ command[p] = 1 THEN {}
    ELSE IF pc[p] = "enable" /\ command[p] = 2 THEN {"web"} ELSE Kinds

InPlace(p, s) ==
    IF s # service[p] \/ pc[p] = "close" THEN proxy[s] = {}
    ELSE IF pc[p] = "disable" THEN command[p] = 2 => "web" \notin proxy[s]
    ELSE Given(p) \subseteq proxy[s]

Misplaced(p) == {s \in Services : ~InPlace(p, s)}

Changed == {s \in Services : proxy[s] # {}}

\* What ProxyFollowsConnection allows.
Allowed == failed + Cardinality(Killed)

ProxyInv ==
    /\ \A p \in Instances :
          phase[p] = "running" => Cardinality(Misplaced(p)) <= Allowed
    /\ (\A p \in Instances : phase[p] # "running") => Cardinality(Changed) <= Allowed

LEMMA ServiceStep ==
    ASSUME IInv, ServiceInv, NEW p \in Instances, Step(p)
    PROVE  ServiceInv'
<1> USE DEF ServiceInv
<1>1. CASE Start(p)
  BY <1>1 DEF Start, IInv, TypeOK, thread, session
<1>2. CASE Launch(p)
  BY <1>2 DEF Launch, Forget, Alive, IInv, TypeOK, ThreadInv
<1>3. CASE Die(p)
  <2>1. \A q \in Instances :
           /\ phase'[q] = IF q = p THEN "killed" ELSE phase[q]
           /\ service'[q] = IF q = p THEN NoService ELSE service[q]
           /\ pc'[q] = IF q = p THEN "idle" ELSE pc[q]
    BY <1>3 DEF Die, Forget, IInv, TypeOK
  <2>2. \A q \in Instances : connected'[q] <=> connected[q] /\ q # p
    BY <1>3 DEF Die, Forget
  <2> QED BY <2>1, <2>2
<1>4. CASE HandleGetURLEvent(p) \/ ClickDisconnect(p) \/ Quit(p)
  BY <1>4 DEF HandleGetURLEvent, ClickDisconnect, Quit, Disconnect, Idle, IInv,
              TypeOK, session
<1>5. CASE DisableCommand(p)
  BY <1>5 DEF DisableCommand, Command, IInv, TypeOK, session
<1>6. CASE Close(p)
  BY <1>6 DEF Close, IInv, TypeOK, ThreadInv
<1>7. CASE Listen(p)
  BY <1>7 DEF Listen, IInv, TypeOK, session
<1>8. CASE FindService(p)
  BY <1>8 DEF FindService, IInv, TypeOK, ThreadInv
<1>9. CASE EnableCommand(p)
  BY <1>9 DEF EnableCommand, Command, IInv, TypeOK, session
<1>10. CASE Connected(p)
  BY <1>10 DEF Connected, IInv, TypeOK
<1>11. CASE ListenerStarts(p) \/ ListenerReleases(p)
  BY <1>11 DEF ListenerStarts, ListenerReleases, thread, session
<1> QED
  BY <1>1, <1>2, <1>3, <1>4, <1>5, <1>6, <1>7, <1>8, <1>9, <1>10, <1>11 DEF Step

LEMMA ServiceNext == IInv /\ ServiceInv /\ [Next]_vars => ServiceInv'
<1>1. ASSUME IInv, ServiceInv, NEW p \in Instances, Step(p) PROVE ServiceInv'
  BY <1>1, ServiceStep
<1>2. ASSUME ServiceInv, NetworkChanges \/ UNCHANGED vars PROVE ServiceInv'
  BY <1>2 DEF NetworkChanges, vars, thread, session, ServiceInv
<1> QED BY <1>1, <1>2 DEF Next

LEMMA Sizes ==
    ASSUME TypeOK
    PROVE  /\ Allowed \in Nat
           /\ \A S \in SUBSET Services : IsFiniteSet(S) /\ Cardinality(S) \in Nat
           /\ \A p \in Instances : Misplaced(p) \in SUBSET Services
           /\ Changed \in SUBSET Services
<1>1. Allowed \in Nat
  BY Counts DEF Allowed
<1>2. \A S \in SUBSET Services : IsFiniteSet(S) /\ Cardinality(S) \in Nat
  BY MacClientAssumption, FS_Subset, FS_CardinalityType
<1> QED BY <1>1, <1>2 DEF Misplaced, Changed

LEMMA AllowedGrows ==
    ASSUME TypeOK, TypeOK', failed' >= failed, Killed \subseteq Killed'
    PROVE  /\ Allowed \in Nat /\ Allowed' \in Nat /\ Allowed <= Allowed'
           /\ (\E q \in Killed' : q \notin Killed) => Allowed + 1 <= Allowed'
<1>1. /\ failed \in Nat /\ Cardinality(Killed) \in Nat
      /\ failed' \in Nat /\ Cardinality(Killed') \in Nat
  BY Counts, CountsNext
<1>2. Cardinality(Killed) <= Cardinality(Killed')
  BY CountsNext, NoMore
<1>3. (\E q \in Killed' : q \notin Killed) =>
         Cardinality(Killed) + 1 <= Cardinality(Killed')
  BY CountsNext, Added
<1> QED BY <1>1, <1>2, <1>3 DEF Allowed

\* A command changes one kind of proxy of the connection's service, or fails.
LEMMA CommandSpots ==
    ASSUME IInv, IInv', NEW p \in Instances, DisableCommand(p) \/ EnableCommand(p)
    PROVE  \/ failed' = failed /\ Misplaced(p)' \subseteq Misplaced(p)
           \/ failed' = failed + 1 /\ Misplaced(p)' \subseteq Misplaced(p) \cup {service[p]}
<1>1. /\ service' = service /\ service[p] \in Services
      /\ proxy \in [Services -> SUBSET Kinds]
      /\ pc[p] \in {"disable", "enable"} /\ command[p] \in 1..4
      /\ pc[p] = "disable" => command[p] \in 1..2
  BY DEF DisableCommand, EnableCommand, IInv, TypeOK, ThreadInv, session
<1>2. \A s \in Services \ {service[p]} : proxy'[s] = proxy[s]
  BY <1>1 DEF DisableCommand, EnableCommand, Command
<1>3. \A s \in Services \ {service[p]} : InPlace(p, s) => InPlace(p, s)'
  <2>1. pc[p] # "close"
    BY <1>1
  <2> QED BY <1>1, <1>2, <2>1 DEF InPlace
<1>4. failed' = failed \/ failed' = failed + 1
  BY DEF DisableCommand, EnableCommand, Command, Outcome
<1>5. ASSUME failed' = failed PROVE InPlace(p, service[p]) => InPlace(p, service[p])'
  <2>1. failed \in Nat
    BY Counts DEF IInv
  <2>2. CASE DisableCommand(p)
    <3>1. proxy' = [proxy EXCEPT ![service[p]] = @ \ {DisableOrder[command[p]]}]
      BY <1>5, <2>1, <2>2 DEF DisableCommand, Command, Outcome
    <3>2. proxy'[service[p]] = proxy[service[p]] \ {DisableOrder[command[p]]}
      BY <1>1, <3>1
    <3>3. CASE command[p] = 1
      <4>1. command'[p] = 2 /\ pc'[p] = "disable"
        BY <2>2, <3>3 DEF DisableCommand, Command, DisableOrder, IInv, TypeOK
      <4>2. "web" \notin proxy'[service[p]]
        BY <3>2, <3>3 DEF DisableOrder
      <4> QED BY <1>1, <4>1, <4>2 DEF InPlace
    <3>4. CASE command[p] = 2
      <4>1. pc'[p] = "close"
        BY <2>2, <3>4 DEF DisableCommand, Command, DisableOrder, IInv, TypeOK
      <4>2. InPlace(p, service[p]) => "web" \notin proxy[service[p]]
        BY <2>2, <3>4 DEF DisableCommand, InPlace
      <4>3. proxy[service[p]] \subseteq {"web", "secure"}
        BY <1>1 DEF Kinds
      <4>4. InPlace(p, service[p]) => proxy'[service[p]] = {}
        BY <3>2, <3>4, <4>2, <4>3 DEF DisableOrder
      <4> QED BY <1>1, <4>1, <4>4 DEF InPlace
    <3>5. command[p] \in 1..2
      BY <1>1, <2>2 DEF DisableCommand
    <3> QED BY <3>3, <3>4, <3>5
  <2>3. CASE EnableCommand(p)
    <3>1. proxy' = [proxy EXCEPT ![service[p]] = @ \cup {EnableOrder[command[p]]}]
      BY <1>5, <2>1, <2>3 DEF EnableCommand, Command, Outcome
    <3>2. proxy'[service[p]] = proxy[service[p]] \cup {EnableOrder[command[p]]}
      BY <1>1, <3>1
    <3>3. InPlace(p, service[p]) => Given(p) \subseteq proxy[service[p]]
      BY <2>3 DEF EnableCommand, InPlace
    <3>4. Given(p)' \subseteq Given(p) \cup {EnableOrder[command[p]]}
      <4>1. CASE command[p] = 1
        <5>1. command'[p] = 2 /\ pc'[p] = "enable" /\ EnableOrder[1] = "web"
          BY <2>3, <4>1 DEF EnableCommand, Command, EnableOrder, IInv, TypeOK
        <5> QED BY <4>1, <5>1 DEF Given
      <4>2. CASE command[p] = 2
        <5>1. EnableOrder[2] = "secure" /\ Given(p) = {"web"}
          BY <2>3, <4>2 DEF EnableCommand, EnableOrder, Given
        <5> QED BY <4>2, <5>1 DEF Given, Kinds
      <4>3. CASE command[p] \in 3..4
        <5>1. Given(p) = Kinds
          BY <4>3 DEF Given
        <5> QED BY <5>1 DEF Given, Kinds
      <4> QED BY <1>1, <4>1, <4>2, <4>3
    <3>5. pc'[p] \in {"enable", "record"}
      BY <2>3 DEF EnableCommand, Command, IInv, TypeOK
    <3> QED BY <1>1, <3>2, <3>3, <3>4, <3>5 DEF InPlace
  <2> QED BY <2>2, <2>3
<1>6. Misplaced(p)' \subseteq Misplaced(p) \cup {service[p]}
  BY <1>3 DEF Misplaced
<1>7. ASSUME failed' = failed PROVE Misplaced(p)' \subseteq Misplaced(p)
  <2>1. \A s \in Services : InPlace(p, s) => InPlace(p, s)'
    <3>1. ASSUME NEW s \in Services, s = service[p], InPlace(p, s)
          PROVE  InPlace(p, s)'
      <4>1. service'[p] = service[p]
        BY <1>1
      <4> QED BY <1>5, <1>7, <3>1, <4>1 DEF InPlace
    <3> QED BY <1>3, <3>1
  <2> QED BY <2>1 DEF Misplaced
<1> QED BY <1>4, <1>6, <1>7

\* The other handlers of the running instance: what was in place stays so.
LEMMA HandlerSpots ==
    ASSUME IInv, ServiceInv, NEW p \in Instances,
           \/ HandleGetURLEvent(p) \/ ClickDisconnect(p) \/ Quit(p) \/ Close(p)
           \/ Listen(p) \/ FindService(p) \/ Connected(p)
    PROVE  /\ Misplaced(p)' \subseteq Misplaced(p)
           /\ proxy' = proxy
           /\ phase[p] = "running"
           /\ \A q \in Instances \ {p} : phase'[q] = phase[q]
           /\ phase'[p] \in {"running", "quit"}
           /\ phase'[p] = "quit" => Misplaced(p) = Changed
<1>1. CASE HandleGetURLEvent(p) \/ ClickDisconnect(p) \/ Quit(p)
  <2>1. /\ pc[p] = "idle" /\ phase[p] = "running"
        /\ service' = service /\ proxy' = proxy /\ phase' = phase
        /\ command'[p] = 1
        /\ pc'[p] = IF service[p] = NoService THEN "close" ELSE "disable"
    BY <1>1 DEF HandleGetURLEvent, ClickDisconnect, Quit, Disconnect, Idle, IInv,
                TypeOK, session
  <2>2. \A s \in Services : InPlace(p, s) => InPlace(p, s)'
    BY <2>1, MacClientAssumption DEF InPlace
  <2> QED BY <2>1, <2>2 DEF Misplaced
<1>2. CASE Close(p)
  <2>1. /\ pc[p] = "close" /\ phase[p] = "running"
        /\ service'[p] = NoService /\ proxy' = proxy
        /\ pc'[p] \in {"idle", "listen"}
    BY <1>2 DEF Close, IInv, TypeOK, ThreadInv
  <2>2. /\ \A q \in Instances \ {p} : phase'[q] = phase[q]
        /\ phase'[p] \in {"running", "quit"}
    BY <1>2, <2>1 DEF Close, IInv, TypeOK
  <2>3. \A s \in Services : InPlace(p, s) <=> proxy[s] = {}
    BY <2>1 DEF InPlace
  <2>4. \A s \in Services : proxy[s] = {} => InPlace(p, s)'
    BY <2>1, MacClientAssumption DEF InPlace
  <2> QED BY <2>1, <2>2, <2>3, <2>4 DEF Misplaced, Changed
<1>3. CASE Listen(p) \/ FindService(p) \/ Connected(p)
  <2>1. /\ pc[p] \in {"listen", "service", "record"} /\ phase[p] = "running"
        /\ proxy' = proxy /\ phase' = phase
    BY <1>3 DEF Listen, FindService, Connected, IInv, ThreadInv
  <2>2. ASSUME NEW s \in Services, InPlace(p, s) PROVE InPlace(p, s)'
    <3>1. CASE Listen(p)
      <4>1. service' = service /\ service[p] = NoService /\ pc'[p] \in {"idle", "service"}
        BY <3>1 DEF Listen, ServiceInv, session, IInv, TypeOK
      <4> QED BY <2>1, <2>2, <4>1, MacClientAssumption DEF InPlace
    <3>2. CASE FindService(p)
      <4>1. /\ service[p] = NoService
            /\ \/ service' = service
               \/ pc'[p] = "enable" /\ command'[p] = 1
        BY <3>2 DEF FindService, ServiceInv, IInv, TypeOK
      <4>2. pc'[p] \in {"idle", "enable"}
        BY <3>2 DEF FindService, IInv, TypeOK
      <4>3. proxy[s] = {}
        BY <2>2, <4>1, MacClientAssumption DEF InPlace
      <4> QED BY <2>1, <4>1, <4>2, <4>3, MacClientAssumption DEF InPlace, Given
    <3>3. CASE Connected(p)
      <4>1. service' = service /\ pc[p] = "record" /\ pc'[p] = "idle"
        BY <3>3 DEF Connected, IInv, TypeOK
      <4> QED BY <2>1, <2>2, <4>1 DEF InPlace, Given
    <3> QED BY <1>3, <3>1, <3>2, <3>3
  <2> QED BY <2>1, <2>2 DEF Misplaced
<1> QED BY <1>1, <1>2, <1>3

LEMMA ProxyRun ==
    ASSUME IInv, IInv', ServiceInv, ProxyInv, NEW p \in Instances,
           \/ HandleGetURLEvent(p) \/ ClickDisconnect(p) \/ Quit(p) \/ Close(p)
           \/ Listen(p) \/ FindService(p) \/ Connected(p),
           failed' >= failed
    PROVE  ProxyInv'
<1>1. /\ Misplaced(p)' \subseteq Misplaced(p)
      /\ proxy' = proxy
      /\ phase[p] = "running"
      /\ \A q \in Instances \ {p} : phase'[q] = phase[q]
      /\ phase'[p] \in {"running", "quit"}
      /\ phase'[p] = "quit" => Misplaced(p) = Changed
  BY HandlerSpots
<1>2. Killed' = Killed
  BY <1>1 DEF Killed
<1>3. Allowed \in Nat /\ Allowed' \in Nat /\ Allowed <= Allowed'
  BY <1>2, AllowedGrows DEF IInv
<1>4. /\ Cardinality(Misplaced(p)') \in Nat
      /\ Cardinality(Misplaced(p)) \in Nat
      /\ Cardinality(Misplaced(p)') <= Cardinality(Misplaced(p))
  BY <1>1, Sizes, NoMore DEF IInv
<1>5. Cardinality(Misplaced(p)) <= Allowed
  BY <1>1 DEF ProxyInv
<1>6. ASSUME NEW q \in Instances, phase'[q] = "running"
      PROVE  Cardinality(Misplaced(q))' <= Allowed'
  <2>1. q = p
    BY <1>1, <1>6 DEF IInv, ThreadInv
  <2> QED BY <1>3, <1>4, <1>5, <2>1
<1>7. (\A q \in Instances : phase'[q] # "running")
        => Cardinality(Changed)' <= Allowed'
  <2>1. Changed' = Changed
    BY <1>1 DEF Changed
  <2>2. phase'[p] = "quit" => Cardinality(Changed) <= Allowed
    BY <1>1, <1>5
  <2>3. Cardinality(Changed) \in Nat
    BY Sizes DEF IInv
  <2> QED BY <1>1, <1>3, <2>1, <2>2, <2>3
<1> QED BY <1>6, <1>7 DEF ProxyInv

LEMMA ProxyCommand ==
    ASSUME IInv, IInv', ProxyInv, NEW p \in Instances,
           DisableCommand(p) \/ EnableCommand(p)
    PROVE  ProxyInv'
<1>1. phase' = phase /\ phase[p] = "running"
  BY DEF DisableCommand, EnableCommand, IInv, ThreadInv
<1>2. Killed' = Killed
  BY <1>1 DEF Killed
<1>3. /\ failed \in Nat /\ Cardinality(Killed) \in Nat
      /\ Cardinality(Misplaced(p)) <= failed + Cardinality(Killed)
  BY <1>1, Counts DEF ProxyInv, Allowed, IInv
<1>4. IsFiniteSet(Misplaced(p))
  BY Sizes DEF IInv
<1>5. Cardinality(Misplaced(p)') <= failed' + Cardinality(Killed)
  <2>1. CASE failed' = failed /\ Misplaced(p)' \subseteq Misplaced(p)
    <3>1. /\ Cardinality(Misplaced(p)') <= Cardinality(Misplaced(p))
          /\ Cardinality(Misplaced(p)') \in Nat
          /\ Cardinality(Misplaced(p)) \in Nat
      BY <1>4, <2>1, NoMore
    <3> QED BY <1>3, <2>1, <3>1
  <2>2. CASE /\ failed' = failed + 1
             /\ Misplaced(p)' \subseteq Misplaced(p) \cup {service[p]}
    <3>1. /\ Cardinality(Misplaced(p)') <= Cardinality(Misplaced(p)) + 1
          /\ Cardinality(Misplaced(p)') \in Nat
          /\ Cardinality(Misplaced(p)) \in Nat
      BY <1>4, <2>2, OneMore
    <3> QED BY <1>3, <2>2, <3>1
  <2> QED BY <2>1, <2>2, CommandSpots
<1>6. ASSUME NEW q \in Instances, phase'[q] = "running"
      PROVE  Cardinality(Misplaced(q))' <= Allowed'
  <2>1. q = p
    BY <1>1, <1>6 DEF IInv, ThreadInv
  <2> QED BY <1>2, <1>5, <2>1 DEF Allowed
<1> QED BY <1>1, <1>6 DEF ProxyInv

\* The proxy set when a running instance is gone.
LEMMA ChangedSpots ==
    ASSUME IInv, NEW p \in Instances
    PROVE  /\ Changed \subseteq Misplaced(p) \cup {service[p]}
           /\ Cardinality(Changed) \in Nat /\ Cardinality(Misplaced(p)) \in Nat
           /\ Cardinality(Changed) <= Cardinality(Misplaced(p)) + 1
<1>1. Changed \subseteq Misplaced(p) \cup {service[p]}
  BY DEF Changed, Misplaced, InPlace
<1>2. IsFiniteSet(Misplaced(p))
  BY Sizes DEF IInv
<1> QED BY <1>1, <1>2, OneMore

LEMMA ProxyLaunch ==
    ASSUME IInv, IInv', ServiceInv, ProxyInv, NEW p \in Instances, Launch(p)
    PROVE  ProxyInv'
<1>1. /\ phase[p] = "loaded" /\ phase'[p] = "running"
      /\ pc'[p] = "idle" /\ service'[p] = NoService
      /\ proxy' = proxy /\ failed' = failed
  <2>1. phase[p] = "loaded" /\ pc[p] = "idle" /\ service[p] = NoService
    BY DEF Launch, IInv, ThreadInv, ServiceInv
  <2> QED BY <2>1 DEF Launch, Forget, Alive, IInv, TypeOK
<1>2. /\ Killed \subseteq Killed'
      /\ \A q \in Instances : phase[q] = "running" => q \in Killed' /\ q \notin Killed
  BY DEF Launch, Alive, Killed, IInv, TypeOK
<1>3. failed \in Nat
  BY Counts DEF IInv
<1>4. /\ Allowed \in Nat /\ Allowed' \in Nat /\ Allowed <= Allowed'
      /\ (\E q \in Instances : phase[q] = "running") => Allowed + 1 <= Allowed'
  BY <1>1, <1>2, <1>3, AllowedGrows DEF IInv
<1>5. Cardinality(Changed) <= Allowed' /\ Cardinality(Changed) \in Nat
  <2>1. CASE \E q \in Instances : phase[q] = "running"
    <3>1. PICK q \in Instances : phase[q] = "running"
      BY <2>1
    <3>2. Cardinality(Misplaced(q)) <= Allowed
      BY <3>1 DEF ProxyInv
    <3> QED BY <1>4, <2>1, <3>2, ChangedSpots
  <2>2. CASE \A q \in Instances : phase[q] # "running"
    <3>1. Cardinality(Changed) <= Allowed /\ Cardinality(Changed) \in Nat
      BY <2>2, Sizes DEF ProxyInv, IInv
    <3> QED BY <1>4, <3>1
  <2> QED BY <2>1, <2>2
<1>6. Misplaced(p)' = Changed
  BY <1>1, MacClientAssumption DEF Misplaced, InPlace, Changed
<1>7. ASSUME NEW q \in Instances, phase'[q] = "running"
      PROVE  Cardinality(Misplaced(q))' <= Allowed'
  <2>1. q = p
    BY <1>1, <1>7 DEF IInv, ThreadInv
  <2> QED BY <1>5, <1>6, <2>1
<1> QED BY <1>1, <1>7 DEF ProxyInv

LEMMA ProxyDie ==
    ASSUME IInv, IInv', ServiceInv, ProxyInv, NEW p \in Instances, Die(p)
    PROVE  ProxyInv'
<1>1. /\ proxy' = proxy /\ command' = command /\ failed' = failed
      /\ phase[p] \in {"loaded", "running"}
      /\ \A q \in Instances : phase'[q] = IF q = p THEN "killed" ELSE phase[q]
      /\ \A q \in Instances \ {p} : pc'[q] = pc[q] /\ service'[q] = service[q]
  BY DEF Die, Forget, Alive, IInv, TypeOK
<1>2. Killed \subseteq Killed' /\ p \in Killed' /\ p \notin Killed
  BY <1>1 DEF Killed
<1>3. failed \in Nat
  BY Counts DEF IInv
<1>4. Allowed \in Nat /\ Allowed' \in Nat /\ Allowed + 1 <= Allowed'
  BY <1>1, <1>2, <1>3, AllowedGrows DEF IInv
<1>5. ASSUME NEW q \in Instances, phase'[q] = "running"
      PROVE  Cardinality(Misplaced(q))' <= Allowed'
  <2>1. q # p /\ phase[q] = "running"
    BY <1>1, <1>5
  <2>2. Misplaced(q)' = Misplaced(q)
    BY <1>1, <2>1 DEF Misplaced, InPlace, Given
  <2>3. Cardinality(Misplaced(q)) <= Allowed
    BY <2>1 DEF ProxyInv
  <2>4. Cardinality(Misplaced(q)) \in Nat
    BY Sizes DEF IInv
  <2> QED BY <1>4, <2>2, <2>3, <2>4
<1>6. (\A q \in Instances : phase'[q] # "running")
        => Cardinality(Changed)' <= Allowed'
  <2>1. Changed' = Changed
    BY <1>1 DEF Changed
  <2>2. CASE phase[p] = "running"
    <3>1. Cardinality(Misplaced(p)) <= Allowed
      BY <2>2 DEF ProxyInv
    <3> QED BY <1>4, <2>1, <3>1, ChangedSpots
  <2>3. CASE phase[p] = "loaded"
    <3>1. (\A q \in Instances : phase'[q] # "running")
            => \A q \in Instances : phase[q] # "running"
      BY <1>1, <2>3
    <3>2. Cardinality(Changed) \in Nat
      BY Sizes DEF IInv
    <3> QED BY <1>4, <2>1, <3>1, <3>2 DEF ProxyInv
  <2> QED BY <1>1, <2>2, <2>3
<1> QED BY <1>5, <1>6 DEF ProxyInv

\* Steps after which the same instances run with the same settings.
LEMMA ProxyIdle ==
    ASSUME IInv, IInv', ProxyInv,
           proxy' = proxy, failed' = failed, command' = command, pc' = pc,
           service' = service, Killed' = Killed,
           \A q \in Instances : phase'[q] = "running" <=> phase[q] = "running"
    PROVE  ProxyInv'
<1>1. Changed' = Changed
  BY DEF Changed
<1>2. Allowed' = Allowed
  BY DEF Allowed
<1>3. \A q \in Instances : Misplaced(q)' = Misplaced(q)
  BY DEF Misplaced, InPlace, Given
<1>4. ASSUME NEW q \in Instances, phase'[q] = "running"
      PROVE  Cardinality(Misplaced(q))' <= Allowed'
  <2>1. Misplaced(q)' = Misplaced(q)
    BY <1>3
  <2>2. Cardinality(Misplaced(q)) <= Allowed
    BY <1>4 DEF ProxyInv
  <2> QED BY <1>2, <2>1, <2>2
<1>5. (\A q \in Instances : phase'[q] # "running")
        => Cardinality(Changed)' <= Allowed'
  BY <1>1, <1>2 DEF ProxyInv
<1> QED BY <1>4, <1>5 DEF ProxyInv

LEMMA ProxyNext ==
    IInv /\ IInv' /\ ServiceInv /\ ProxyInv /\ [Next]_vars => ProxyInv'
<1> SUFFICES ASSUME IInv, IInv', ServiceInv, ProxyInv, [Next]_vars PROVE ProxyInv'
  OBVIOUS
<1>1. failed' >= failed
  BY FailedGrows DEF IInv
<1>2. ASSUME NEW p \in Instances, Step(p) PROVE ProxyInv'
  <2>1. CASE Start(p)
    <3>1. \A q \in Instances : phase'[q] = IF q = p THEN "loaded" ELSE phase[q]
      BY <2>1 DEF Start, IInv, TypeOK
    <3>2. phase[p] = "off"
      BY <2>1 DEF Start
    <3>3. Killed' = Killed
      BY <3>1, <3>2 DEF Killed
    <3> QED BY <2>1, <3>1, <3>2, <3>3, ProxyIdle DEF Start, thread, session
  <2>2. CASE ListenerStarts(p) \/ ListenerReleases(p)
    <3>1. phase' = phase
      BY <2>2 DEF ListenerStarts, ListenerReleases
    <3>2. Killed' = Killed
      BY <3>1 DEF Killed
    <3> QED
      BY <2>2, <3>1, <3>2, ProxyIdle
      DEF ListenerStarts, ListenerReleases, thread, session
  <2> QED
    BY <1>1, <1>2, <2>1, <2>2, ProxyLaunch, ProxyDie, ProxyRun, ProxyCommand
    DEF Step
<1>3. CASE NetworkChanges \/ UNCHANGED vars
  <2>1. phase' = phase
    BY <1>3 DEF NetworkChanges, vars
  <2>2. Killed' = Killed
    BY <2>1 DEF Killed
  <2> QED
    BY <1>3, <2>1, <2>2, ProxyIdle DEF NetworkChanges, vars, thread, session
<1> QED BY <1>2, <1>3 DEF Next

LEMMA ProxyInit == Init => ServiceInv /\ ProxyInv
<1> SUFFICES ASSUME Init PROVE ServiceInv /\ ProxyInv
  OBVIOUS
<1>1. ServiceInv
  BY DEF Init, ServiceInv
<1>2. Allowed \in Nat
  BY InitInv, Sizes DEF IInv
<1>3. Changed = {}
  BY DEF Init, Changed
<1>4. Cardinality(Changed) <= Allowed
  BY <1>2, <1>3, FS_EmptySet
<1> QED BY <1>1, <1>4 DEF ProxyInv, Init

\* Between two handlers the machine's proxy settings are those of the
\* connection, but for one service for each failed command and each killed
\* instance, whatever the network did.
THEOREM ProxyFollows == Spec => []ProxyFollowsConnection
<1>1. IInv /\ ServiceInv /\ [Next]_vars => ServiceInv'
  BY ServiceNext
<1>2. IInv /\ IInv' /\ ServiceInv /\ ProxyInv /\ [Next]_vars => ProxyInv'
  BY ProxyNext
<1>3. IInv /\ ServiceInv /\ ProxyInv => ProxyFollowsConnection
  <2> SUFFICES ASSUME IInv, ServiceInv, ProxyInv, NEW p \in Instances, Idle(p)
               PROVE  LET wanted(s) == IF connected[p] /\ s = service[p]
                                       THEN Kinds ELSE {}
                      IN  Cardinality({s \in Services : proxy[s] # wanted(s)})
                            <= failed + Cardinality(Killed)
    BY DEF ProxyFollowsConnection
  <2> DEFINE wanted(s) == IF connected[p] /\ s = service[p] THEN Kinds ELSE {}
  <2>1. phase[p] = "running" /\ pc[p] = "idle"
    BY DEF Idle
  <2>2. connected[p] <=> service[p] # NoService
    BY <2>1 DEF ServiceInv
  <2>3. \A s \in Services : proxy[s] \subseteq Kinds
    BY DEF IInv, TypeOK
  <2>4. \A s \in Services : proxy[s] = wanted(s) <=> InPlace(p, s)
    BY <2>1, <2>2, <2>3, MacClientAssumption DEF InPlace, Given
  <2>5. {s \in Services : proxy[s] # wanted(s)} = Misplaced(p)
    BY <2>4 DEF Misplaced
  <2>6. Cardinality(Misplaced(p)) <= failed + Cardinality(Killed)
    BY <2>1 DEF ProxyInv, Allowed
  <2> QED BY <2>5, <2>6
<1> QED BY <1>1, <1>2, <1>3, ProxyInit, Invariance, PTL DEF Spec
=============================================================================
