---------------------------- MODULE SessionPage ----------------------------
(***************************************************************************)
(* One session page of the web client (app/session/[id]/page.tsx) and what *)
(* the orchestrator tells it: the snapshot of GET /sessions/:id, and the   *)
(* rows that WS /stream broadcasts from the moment the socket is           *)
(* registered.  Snapshot and feed travel on different connections; the     *)
(* socket is opened once and never again.                                  *)
(*                                                                         *)
(* Which rows the handlers record when they interleave is module           *)
(* Orchestrator; here they record what SessionLog allows, which it is      *)
(* shown to keep as long as no two handlers record the session at once.    *)
(* The database executes one statement at a time (a pool of one            *)
(* connection) and a handler broadcasts its row as soon as the INSERT is   *)
(* answered, so no query runs between a row's commit and its broadcast,    *)
(* but the process may die, or a socket be registered, in between.  A row  *)
(* stands for its id, which is its place in the log.                       *)
(*                                                                         *)
(* Names every module has carry Page here: WebClientProofs speaks of this  *)
(* module and of Wallet together.                                          *)
(***************************************************************************)
EXTENDS SessionLog, Naturals, Sequences

CONSTANTS
  HasToken,      \* whether this tab bought the session and keeps its token
  MaxRows        \* bound of the checks: no failover starts on a longer log

ASSUME NullAssumption == Null \notin Relays \cup States
ASSUME HasTokenAssumption == HasToken \in BOOLEAN
ASSUME MaxRowsAssumption == MaxRows \in Nat

VARIABLES
  rows,          \* session_events of the session, in id order
  announced,     \* how many of them were broadcast, or never will be
  socket,        \* the page's socket, as ws-hub.ts sees it
  joined,        \* history: announced when the socket was registered
  wire,          \* rows sent to the socket and not received
  answer,        \* GET /sessions/:id of the page
  request,       \* POST /sessions/:id/end of the page
  page           \* state of the page

log == <<rows, announced>>
feed == <<socket, joined, wire>>
pageVars == <<log, feed, answer, request, page>>
-----------------------------------------------------------------------------
Row == [to : States, relay : Relays \cup {Null}]

\* events: rows 1 to events were read, none for 0.  The answer's own state
\* and relay, which later queries read, are kept nowhere: the page would use
\* them if no row had one, but an answer without rows is a 404 and the first
\* row has both.
Answer == [stage : {"none", "events", "rest", "sent", "taken", "failed"}, events : Nat]

\* live: rows received over the socket; late: the countdown is over.
Page == [open : BOOLEAN, live : Seq(Nat), error : BOOLEAN,
         late : BOOLEAN, asking : BOOLEAN, busy : BOOLEAN]

PageInit == /\ rows = <<>>
            /\ announced = 0
            /\ socket = "none"
            /\ joined = 0
            /\ wire = <<>>
            /\ answer = [stage |-> "none", events |-> 0]
            /\ request = "none"
            /\ page = [open |-> FALSE, live |-> <<>>, error |-> FALSE,
                       late |-> FALSE, asking |-> FALSE, busy |-> FALSE]

State(s) == IF s = <<>> THEN Null ELSE s[Len(s)].to

\* The last relay that is not null in a sequence of rows.
Relay(s) == IF \A i \in DOMAIN s : s[i].relay = Null THEN Null
            ELSE s[CHOOSE i \in DOMAIN s : /\ s[i].relay # Null
                                           /\ \A j \in (i + 1)..Len(s) : s[j].relay = Null].relay
-----------------------------------------------------------------------------
(* The log and the feed.                                                   *)

\* No INSERT is being answered.
Settled == announced = Len(rows)

Insert(row) == Settled /\ rows' = Append(rows, row)

\* Another request than the page's records a transition.
Record(row) ==
  /\ IF rows = <<>> THEN First(row) ELSE MayFollow(rows[Len(rows)], row)
  /\ row.to = "RELAY_UNREACHABLE" => Len(rows) < MaxRows
  /\ Insert(row)
  /\ UNCHANGED <<announced, feed, answer, request, page>>

\* As Broadcast, but rows are broadcast before they are recorded.
BroadcastUnrecorded ==
  /\ announced' = announced + 1
  /\ wire' = IF socket = "open" THEN Append(wire, announced + 1) ELSE wire
  /\ request' = IF request = "recorded" THEN "accepted" ELSE request
  /\ UNCHANGED <<rows, socket, joined, answer, page>>

\* As Broadcast, but the route that ends a session does not broadcast.
BroadcastNoEnd ==
  /\ ~Settled
  /\ announced' = announced + 1
  /\ wire' = IF socket = "open" /\ request # "recorded" THEN Append(wire, announced + 1)
             ELSE wire
  /\ request' = IF request = "recorded" THEN "accepted" ELSE request
  /\ UNCHANGED <<rows, socket, joined, answer, page>>

\* broadcast: sent to every socket that is open.
Broadcast == /\ ~Settled
             /\ announced' = announced + 1
             /\ wire' = IF socket = "open" THEN Append(wire, announced + 1) ELSE wire
             /\ request' = IF request = "recorded" THEN "accepted" ELSE request
             /\ UNCHANGED <<rows, socket, joined, answer, page>>

Register == /\ socket = "connecting"
            /\ socket' = "open"
            /\ joined' = announced
            /\ UNCHANGED <<log, wire, answer, request, page>>

\* The socket closes, or cannot be opened; nothing opens another.
SocketCloses == /\ socket \in {"connecting", "open"}
                /\ socket' = "closed"
                /\ UNCHANGED <<log, joined, wire, answer, request, page>>

\* The process dies and starts again: rows remain, requests and sockets are
\* gone, and nobody broadcasts the row that was being inserted.
Restart ==
  /\ announced' = Len(rows)
  /\ socket' = IF socket \in {"connecting", "open"} THEN "closed" ELSE socket
  /\ answer' = IF answer.stage \in {"none", "taken"} THEN answer
               ELSE [answer EXCEPT !.stage = "failed"]
  /\ request' = IF request \in {"sent", "recorded"} THEN "refused" ELSE request
  /\ UNCHANGED <<rows, joined, wire, page>>
-----------------------------------------------------------------------------
(* GET /sessions/:id: four queries, one after the other.                   *)

Query(stage, next) == /\ answer.stage = stage
                      /\ Settled
                      /\ answer' = next
                      /\ UNCHANGED <<log, feed, request, page>>

\* 404 when there are none.
QueryEvents == Query("events", [answer EXCEPT !.events = Len(rows),
                                              !.stage = IF rows = <<>> THEN "failed" ELSE "rest"])

\* getCurrentState, getCurrentRelay and getExpiresAt.
QueryRest == Query("rest", [answer EXCEPT !.stage = "sent"])
-----------------------------------------------------------------------------
(* What the page shows.                                                    *)

Loaded == answer.stage = "taken"

\* newLiveEvents: the rows received that the snapshot, of n rows, has not.
NewLive(live, n) ==
  LET upTo[i \in 0..Len(live)] ==
        IF i = 0 THEN <<>>
        ELSE IF live[i] \in 1..n THEN upTo[i - 1] ELSE Append(upTo[i - 1], live[i])
  IN upTo[Len(live)]

\* As AllEvents, but rows of the snapshot are kept when they come again.
AllEventsTwice == [i \in 1..answer.events |-> i] \o page.live

\* As AllEvents, but the live rows come first.
AllEventsLiveFirst == NewLive(page.live, answer.events) \o [i \in 1..answer.events |-> i]

\* The snapshot's rows, then the live ones it does not have.
AllEvents == [i \in 1..answer.events |-> i] \o NewLive(page.live, answer.events)

Shown == [k \in DOMAIN AllEvents |-> rows[AllEvents[k]]]

CurrentState == State(Shown)
CurrentRelay == Relay(Shown)

\* The heading of the page.
Header == [state |-> CurrentState, relay |-> CurrentRelay]

Terminal == {"EXPIRED_NORMAL", "RELAY_REVOKED", "SESSION_COMPLETE"}
Ready == {"ACTIVE", "RELAY_UNREACHABLE", "FAILOVER_SELECT"}

Steps == <<"PAID", "TOKEN_ISSUED", "TUNNEL_OPEN", "ACTIVE">>

\* RelaySequenceTimeline: the steps that are ticked off.
StepsDone(state) ==
  IF state = "ACTIVE" \/ state \in Terminal THEN 1..4
  ELSE IF state \in {"RELAY_UNREACHABLE", "FAILOVER_SELECT"} THEN 1..3
  ELSE {i \in 1..4 : \E j \in 1..4 : i < j /\ Steps[j] = state}

Countdown == IF CurrentState \in Terminal THEN "Ended"
             ELSE IF page.late THEN "Expired" ELSE "Time remaining"

\* "Open the DVoD app"
AppLink == CurrentState \in Ready /\ HasToken
-----------------------------------------------------------------------------
(* The page.                                                               *)

\* The socket is opened and the snapshot asked for.
Open ==
  /\ ~page.open
  /\ page' = [page EXCEPT !.open = TRUE]
  /\ socket' = "connecting"
  /\ answer' = [answer EXCEPT !.stage = "events"]
  /\ UNCHANGED <<log, joined, wire, request>>

\* The countdown starts from the answer's expires_at, which may have passed.
Take == /\ answer.stage = "sent"
        /\ answer' = [answer EXCEPT !.stage = "taken"]
        /\ \E late \in BOOLEAN : page' = [page EXCEPT !.late = late]
        /\ UNCHANGED <<log, feed, request>>

\* As long as there is no snapshot the page shows the error and stays so.
TakeFails == /\ answer.stage = "failed" /\ ~page.error
             /\ page' = [page EXCEPT !.error = TRUE]
             /\ UNCHANGED <<log, feed, answer, request>>

\* A message of the feed, before or after the snapshot.
Receive == /\ wire # <<>>
           /\ wire' = Tail(wire)
           /\ page' = [page EXCEPT !.live = Append(@, Head(wire))]
           /\ UNCHANGED <<log, socket, joined, answer, request>>

\* The clock is read every second, until the session has ended.
Tick == /\ Loaded /\ CurrentState \notin Terminal
        /\ ~page.late
        /\ page' = [page EXCEPT !.late = TRUE]
        /\ UNCHANGED <<log, feed, answer, request>>

\* "End session" opens the dialog, which a click beside it closes.
AskEnd == /\ Loaded /\ CurrentState = "ACTIVE"
          /\ ~page.asking
          /\ page' = [page EXCEPT !.asking = TRUE]
          /\ UNCHANGED <<log, feed, answer, request>>

CancelEnd == /\ page.asking
             /\ page' = [page EXCEPT !.asking = FALSE]
             /\ UNCHANGED <<log, feed, answer, request>>

ConfirmEnd == /\ page.asking /\ ~page.busy
              /\ page' = [page EXCEPT !.busy = TRUE, !.error = FALSE]
              /\ request' = "sent"
              /\ UNCHANGED <<log, feed, answer>>

\* Served by the orchestrator: anything but ACTIVE is refused.
ServeEnd ==
  /\ request = "sent"
  /\ IF State(rows) = "ACTIVE"
     THEN /\ Insert([to |-> "EXPIRED_NORMAL", relay |-> Null])
          /\ request' = "recorded"
     ELSE /\ Settled
          /\ request' = "refused"
          /\ UNCHANGED rows
  /\ UNCHANGED <<announced, feed, answer, page>>

\* The answer closes the dialog or shows an error.
EndAnswered ==
  /\ request \in {"accepted", "refused"}
  /\ page' = [page EXCEPT !.busy = FALSE,
                          !.asking = @ /\ request = "refused",
                          !.error = request = "refused"]
  /\ request' = "none"
  /\ UNCHANGED <<log, feed, answer>>
-----------------------------------------------------------------------------
PageNext ==
  \/ \E row \in Row : Record(row)
  \/ Broadcast
  \/ Register
  \/ SocketCloses
  \/ Restart
  \/ QueryEvents \/ QueryRest
  \/ Open
  \/ Take
  \/ TakeFails
  \/ Receive
  \/ Tick
  \/ AskEnd
  \/ CancelEnd
  \/ ConfirmEnd
  \/ ServeEnd
  \/ EndAnswered

PageSpec == PageInit /\ [][PageNext]_pageVars

\* Queries are answered, broadcasts made and messages delivered; a socket is
\* registered or fails.
FairPageSpec == /\ PageSpec
                /\ WF_pageVars(Broadcast) /\ WF_pageVars(Register) /\ WF_pageVars(Receive)
                /\ WF_pageVars(QueryEvents \/ QueryRest)
                /\ WF_pageVars(Take) /\ WF_pageVars(TakeFails)
                /\ WF_pageVars(ServeEnd) /\ WF_pageVars(EndAnswered)
-----------------------------------------------------------------------------
(* Properties.                                                             *)

PageTypeOK == /\ rows \in Seq(Row)
              /\ announced \in 0..Len(rows)
              /\ socket \in {"none", "connecting", "open", "closed"}
              /\ joined \in 0..announced
              /\ wire \in Seq(1..announced)
              /\ answer \in Answer /\ answer.events \in 0..Len(rows)
              /\ request \in {"none", "sent", "recorded", "accepted", "refused"}
              /\ page \in Page /\ page.live \in Seq(1..announced)

\* Rows broadcast after the snapshot was read and before the socket was
\* registered are in neither.
Gap == joined > answer.events

(* Snapshot and feed together are the whole log, without a row twice: of   *)
(* an open socket a row is missing only if it was broadcast between the    *)
(* snapshot's first query and the socket's registration, in whatever order *)
(* snapshot and messages arrive.                                           *)
FeedIsComplete ==
  Loaded /\ socket = "open" =>
    /\ \A i \in 1..announced : \/ i \in (answer.events + 1)..joined
                               \/ \E k \in DOMAIN AllEvents : AllEvents[k] = i
                               \/ \E k \in DOMAIN wire : wire[k] = i
    /\ \A j, k \in DOMAIN AllEvents : j < k => AllEvents[j] < AllEvents[k]

(* Once everything sent has arrived the page shows the session's state and *)
(* relay, although rows, state and relay are read by several queries and   *)
(* the feed began at another moment; a row lost in the gap hides the state *)
(* until the next one comes.                                               *)
ShownIsCurrent ==
  Loaded /\ socket = "open" /\ Settled /\ wire = <<>> =>
    /\ ~Gap \/ joined < Len(rows) => Header.state = State(rows)
    /\ ~Gap => Header.relay = Relay(rows)

(* What is shown never goes back to an earlier row, an ended session is    *)
(* never shown running again and the payment's steps stay ticked off,      *)
(* although snapshot, feed and restarts race.                              *)
ShownNeverGoesBack ==
  [][Loaded => /\ AllEvents[Len(AllEvents)] <= AllEvents'[Len(AllEvents')]
               /\ Countdown = "Ended" => Countdown' = "Ended"
               /\ StepsDone(CurrentState) \cap {1, 2} \subseteq StepsDone(CurrentState')]_pageVars

(* A session that ended, by this page or from elsewhere, is shown as ended *)
(* unless the socket was lost, the snapshot failed, or the end itself fell *)
(* into the gap.                                                           *)
EndIsShown ==
  page.open /\ State(rows) = "EXPIRED_NORMAL" ~>
    \/ Loaded /\ Countdown = "Ended" /\ ~AppLink
    \/ socket = "closed"
    \/ answer.stage = "failed"
    \/ Gap
=============================================================================
