---------------------------- MODULE Orchestrator ----------------------------
(***************************************************************************)
(* apps/orchestrator: the three routes that write the session log,         *)
(* confirm (POST /sessions/:tier/:hours with x-session-tx), failover       *)
(* (POST /sessions/:id/force-relay-failure) and end (POST                  *)
(* /sessions/:id/end), and recordTransition, which all three call.         *)
(*                                                                         *)
(* The process is single threaded: a handler runs until its next await,    *)
(* and any other handler may run before it resumes.  One action below is   *)
(* one such stretch, from a database or RPC answer to the next question.   *)
(* The database executes one statement at a time (a pool of one            *)
(* connection), so a read and the test of its answer are one action; a     *)
(* row is visible from the INSERT on, before its handler resumes.          *)
(*                                                                         *)
(* A payment transaction to the escrow purchases exactly one session, so a *)
(* session stands for its transaction too.  A tier stands for the pair     *)
(* (tier, hours) and its price, which are compared together.  The answer   *)
(* of eligibleOperators is any set of relays of the asked tier: the cache  *)
(* and the chain behind it are module RelayDirectory.                      *)
(***************************************************************************)
EXTENDS SessionSpec, Naturals, Sequences

CONSTANTS
  Sessions,     \* escrow session ids
  Handlers,     \* requests the process can have in flight at once
  Tiers,
  Relays,       \* KNOWN_OPERATORS
  Offers,       \* Offers[r]: tiers_supported of relay r
  None,         \* null
  MayFail,      \* whether queries may fail and the process may crash
  MaxRows       \* bound of the checks: no failover starts on a longer log

ASSUME OffersAssumption == Offers \in [Relays -> SUBSET Tiers]
ASSUME NoneAssumption == None \notin Sessions \cup Tiers \cup Relays \cup States
ASSUME MayFailAssumption == MayFail \in BOOLEAN
ASSUME MaxRowsAssumption == MaxRows \in Nat

VARIABLES
  log,          \* session_events rows of each session, in id order
  usedTx,       \* usedTxHashes, in process memory
  purchase,     \* on chain: the tier each session was purchased for
  call,         \* the request each handler is serving
  tokens,       \* tokens replied to the payer of each session
  overlapped    \* history: sessions two handlers have recorded at once

vars == <<log, usedTx, purchase, call, tokens, overlapped>>
-----------------------------------------------------------------------------
(* The local state of a request.                                           *)

Kinds == {"confirm", "failover", "end"}

Recording == {"check", "getTier", "insert", "resume", "select"}
Stages == {"idle", "eligible", "verify", "guard", "tier", "relay"} \cup Recording

Row == [from : States \cup {None}, to : States,
        relay : Relays \cup {None}, tier : Tiers \cup {None}]

Token == [relay : Relays, tier : Tiers]

Call == [stage : Stages, kind : Kinds \cup {None}, sid : Sessions \cup {None},
         tier : Tiers \cup {None}, relay : Relays \cup {None},
         to : States \cup {None}, cur : States \cup {None},
         rowTier : Tiers \cup {None}, late : BOOLEAN]

Idle == [stage |-> "idle", kind |-> None, sid |-> None, tier |-> None,
         relay |-> None, to |-> None, cur |-> None, rowTier |-> None,
         late |-> FALSE]

Init == /\ log = [s \in Sessions |-> <<>>]
        /\ usedTx = {}
        /\ purchase = [s \in Sessions |-> None]
        /\ call = [h \in Handlers |-> Idle]
        /\ tokens = [s \in Sessions |-> <<>>]
        /\ overlapped = {}

\* Two handlers are recording transitions of s.
Overlapping(s) == \E g, h \in Handlers : /\ g # h
                                         /\ call[g].sid = s /\ call[h].sid = s
                                         /\ call[g].stage \in Recording
                                         /\ call[h].stage \in Recording

Become(h, c) == /\ call' = [call EXCEPT ![h] = c]
                /\ overlapped' = overlapped \cup {s \in Sessions : Overlapping(s)'}

Goto(h, stage) == Become(h, [call[h] EXCEPT !.stage = stage])

\* Begin recordTransition(sid, to, ...): the next await reads the state.
Record(h, to) == Become(h, [call[h] EXCEPT !.stage = "check", !.to = to,
                                           !.cur = None, !.rowTier = None])

Answer(h) == Become(h, Idle)
-----------------------------------------------------------------------------
(* Queries on the log.                                                     *)

\* As CurrentState, but blind to rows without a relay.
CurrentStateOfRelayRows(s) ==
  IF log[s] = <<>> THEN None
  ELSE IF log[s][Len(log[s])].relay = None THEN log[s][Len(log[s]) - 1].to
  ELSE log[s][Len(log[s])].to

\* As CurrentState, but blind to sessions that ended.
CurrentStateOfLive(s) ==
  IF log[s] = <<>> \/ log[s][Len(log[s])].to = "EXPIRED_NORMAL" THEN None
  ELSE log[s][Len(log[s])].to

CurrentState(s) == IF log[s] = <<>> THEN None ELSE log[s][Len(log[s])].to

IsCurrentTier(s, t) ==
  \E i \in DOMAIN log[s] : /\ log[s][i].tier = t
                           /\ \A j \in (i + 1)..Len(log[s]) : log[s][j].tier = None

IsCurrentRelay(s, r) ==
  \E i \in DOMAIN log[s] : /\ log[s][i].relay = r
                           /\ \A j \in (i + 1)..Len(log[s]) : log[s][j].relay = None

\* Relays eligibleOperators(tier) may return: those that declare the tier.
EligibleAnyTier(tier) == Relays

Eligible(tier) == {r \in Relays : tier \in Offers[r]}
-----------------------------------------------------------------------------
(* recordTransition.                                                       *)

\* As Permitted, but any state may follow a known one.
PermittedUntabled(cur, to) == cur # None \/ to = "PAID"

\* As Permitted, but recording the current state again is accepted.
PermittedAgain(cur, to) ==
  IF cur = None THEN to = "PAID" ELSE cur = to \/ IsValidTransition(cur, to)

Permitted(cur, to) ==
  IF cur = None THEN to = "PAID" ELSE IsValidTransition(cur, to)

\* Whether the caller passes options.tier: all of confirm, and the second
\* half of failover.
GivesTier(c) == c.kind = "confirm" \/ c.to \in {"TUNNEL_OPEN", "ACTIVE"}

\* The relay column: every caller but end passes options.relay.
RowRelay(c) == IF c.kind = "end" THEN None ELSE c.relay

\* As Reject, but the state is read again instead.
RejectByRetry(h) == UNCHANGED <<call, overlapped>>

\* InvalidTransitionError: 409 from failover and end, 500 from confirm.
Reject(h) == Answer(h)

Check(h) ==
  LET c == call[h]
      cur == CurrentState(c.sid)
  IN /\ c.stage = "check"
     /\ IF Permitted(cur, c.to)
        THEN IF GivesTier(c)
             THEN Become(h, [c EXCEPT !.stage = "insert", !.cur = cur,
                                      !.rowTier = c.tier])
             ELSE Become(h, [c EXCEPT !.stage = "getTier", !.cur = cur])
        ELSE Reject(h)
     /\ UNCHANGED <<log, usedTx, purchase, tokens>>

GetTier(h) ==
  /\ call[h].stage = "getTier"
  /\ \E t \in Tiers : /\ IsCurrentTier(call[h].sid, t)
                      /\ Become(h, [call[h] EXCEPT !.stage = "insert", !.rowTier = t])
  /\ UNCHANGED <<log, usedTx, purchase, tokens>>

Insert(h) ==
  LET c == call[h]
      row == [from |-> c.cur, to |-> c.to, relay |-> RowRelay(c), tier |-> c.rowTier]
  IN /\ c.stage = "insert"
     /\ log' = [log EXCEPT ![c.sid] = Append(@, row)]
     /\ Goto(h, "resume")
     /\ UNCHANGED <<usedTx, purchase, tokens>>
-----------------------------------------------------------------------------
(* POST /sessions/:tier/:hours with x-session-tx.                          *)

ConfirmArrives(h, s, t) ==
  /\ call[h].stage = "idle"
  /\ Become(h, [Idle EXCEPT !.stage = "eligible", !.kind = "confirm", !.sid = s,
                            !.tier = t, !.late = log[s] # <<>>])
  /\ UNCHANGED <<log, usedTx, purchase, tokens>>

\* No relay is eligible: 400.
ConfirmRefused(h) ==
  /\ call[h].stage = "eligible"
  /\ Answer(h)
  /\ UNCHANGED <<log, usedTx, purchase, tokens>>

\* As ConfirmEligible, but the chosen relay is not kept.
ConfirmEligibleForgetful(h) ==
  /\ call[h].stage = "eligible"
  /\ IF call[h].sid \in usedTx THEN Answer(h) ELSE Goto(h, "verify")
  /\ UNCHANGED <<log, usedTx, purchase, tokens>>

\* The first of the eligible relays is kept across the verification that
\* follows; a transaction already used is 409.
ConfirmEligible(h) ==
  /\ call[h].stage = "eligible"
  /\ \E r \in Eligible(call[h].tier) :
       IF call[h].sid \in usedTx
       THEN Answer(h)
       ELSE Become(h, [call[h] EXCEPT !.stage = "verify", !.relay = r])
  /\ UNCHANGED <<log, usedTx, purchase, tokens>>

\* verifySessionPurchase: the receipt holds a purchase of this very tier.
Matches(c) == purchase[c.sid] = c.tier

\* As VerifyPurchase, but the transaction is marked before it is verified.
VerifyPurchaseMarkFirst(h) ==
  /\ call[h].stage = "verify"
  /\ IF Matches(call[h]) THEN Record(h, "PAID") ELSE Answer(h)
  /\ usedTx' = usedTx \cup {call[h].sid}
  /\ UNCHANGED <<log, purchase, tokens>>

VerifyPurchase(h) ==
  /\ call[h].stage = "verify"
  /\ IF Matches(call[h])
     THEN /\ usedTx' = usedTx \cup {call[h].sid}
          /\ Record(h, "PAID")
     ELSE /\ Answer(h)
          /\ UNCHANGED usedTx
  /\ UNCHANGED <<log, purchase, tokens>>

NextOfConfirm == [PAID |-> "TOKEN_ISSUED", TOKEN_ISSUED |-> "TUNNEL_OPEN",
                  TUNNEL_OPEN |-> "ACTIVE"]

\* As TokenDue, but the token is sent once its own row is recorded.
TokenDueEarly(c) == c.to = "TOKEN_ISSUED"

TokenDue(c) == c.to = "ACTIVE"

\* After the ACTIVE row the token is signed and sent without another await.
ConfirmResumes(h) ==
  LET c == call[h]
  IN /\ c.stage = "resume"
     /\ c.kind = "confirm"
     /\ IF TokenDue(c)
        THEN /\ tokens' = [tokens EXCEPT ![c.sid] =
                             Append(@, [relay |-> c.relay, tier |-> c.tier])]
             /\ Answer(h)
        ELSE /\ Record(h, NextOfConfirm[c.to])
             /\ UNCHANGED tokens
     /\ UNCHANGED <<log, usedTx, purchase>>
-----------------------------------------------------------------------------
(* POST /sessions/:id/force-relay-failure and POST /sessions/:id/end.      *)

FailoverArrives(h, s) ==
  /\ call[h].stage = "idle"
  /\ Len(log[s]) < MaxRows
  /\ Become(h, [Idle EXCEPT !.stage = "guard", !.kind = "failover", !.sid = s])
  /\ UNCHANGED <<log, usedTx, purchase, tokens>>

EndArrives(h, s) ==
  /\ call[h].stage = "idle"
  /\ Become(h, [Idle EXCEPT !.stage = "guard", !.kind = "end", !.sid = s])
  /\ UNCHANGED <<log, usedTx, purchase, tokens>>

\* The route's own reading of the state; anything but ACTIVE is 400.
Guard(h) ==
  /\ call[h].stage = "guard"
  /\ IF CurrentState(call[h].sid) # "ACTIVE" THEN Answer(h)
     ELSE IF call[h].kind = "end" THEN Record(h, "EXPIRED_NORMAL")
     ELSE Goto(h, "tier")
  /\ UNCHANGED <<log, usedTx, purchase, tokens>>

FailoverTier(h) ==
  /\ call[h].stage = "tier"
  /\ \E t \in Tiers : /\ IsCurrentTier(call[h].sid, t)
                      /\ Become(h, [call[h] EXCEPT !.stage = "relay", !.tier = t])
  /\ UNCHANGED <<log, usedTx, purchase, tokens>>

FailoverRelay(h) ==
  LET c == call[h]
  IN /\ c.stage = "relay"
     /\ \E r \in Relays :
          /\ IsCurrentRelay(c.sid, r)
          /\ Become(h, [c EXCEPT !.stage = "check", !.to = "RELAY_UNREACHABLE",
                                 !.relay = r])
     /\ UNCHANGED <<log, usedTx, purchase, tokens>>

FailoverResumes(h) ==
  LET c == call[h]
  IN /\ c.stage = "resume"
     /\ c.kind = "failover"
     /\ CASE c.to = "RELAY_UNREACHABLE" -> Record(h, "FAILOVER_SELECT")
          [] c.to = "FAILOVER_SELECT"   -> Goto(h, "select")
          [] c.to = "TUNNEL_OPEN"       -> Record(h, "ACTIVE")
          [] OTHER                      -> Answer(h)
     /\ UNCHANGED <<log, usedTx, purchase, tokens>>

\* As SelectRelay, but the failed relay may be selected again.
SelectRelayAgain(h) ==
  LET c == call[h]
  IN /\ c.stage = "select"
     /\ \E r \in Eligible(c.tier) :
          Become(h, [c EXCEPT !.stage = "check", !.to = "TUNNEL_OPEN", !.relay = r,
                              !.cur = None, !.rowTier = None])
     /\ UNCHANGED <<log, usedTx, purchase, tokens>>

\* A healthy relay other than the failed one becomes the session's relay.
SelectRelay(h) ==
  LET c == call[h]
  IN /\ c.stage = "select"
     /\ \E r \in Eligible(c.tier) \ {c.relay} :
          Become(h, [c EXCEPT !.stage = "check", !.to = "TUNNEL_OPEN", !.relay = r,
                              !.cur = None, !.rowTier = None])
     /\ UNCHANGED <<log, usedTx, purchase, tokens>>

\* No other relay is eligible: 503.
SelectNone(h) ==
  /\ call[h].stage = "select"
  /\ Answer(h)
  /\ UNCHANGED <<log, usedTx, purchase, tokens>>

EndResumes(h) ==
  /\ call[h].stage = "resume"
  /\ call[h].kind = "end"
  /\ Answer(h)
  /\ UNCHANGED <<log, usedTx, purchase, tokens>>
-----------------------------------------------------------------------------
(* The chain, and what can go wrong.                                       *)

\* SessionEscrow.purchaseSession mined for session s.
PurchaseMined(s, t) ==
  /\ purchase[s] = None
  /\ purchase' = [purchase EXCEPT ![s] = t]
  /\ UNCHANGED <<log, usedTx, call, tokens, overlapped>>

\* The awaited query or RPC rejects.  At "resume" the row was committed and
\* only its answer was lost.
Fail(h) ==
  /\ MayFail
  /\ call[h].stage # "idle"
  /\ Answer(h)
  /\ UNCHANGED <<log, usedTx, purchase, tokens>>

\* The process dies and starts again: requests and usedTxHashes are gone.
Restart ==
  /\ MayFail
  /\ call' = [h \in Handlers |-> Idle]
  /\ usedTx' = {}
  /\ UNCHANGED <<log, purchase, tokens, overlapped>>
-----------------------------------------------------------------------------
RecordStep(h) == Check(h) \/ GetTier(h) \/ Insert(h)

ConfirmStep(h) == \/ ConfirmRefused(h) \/ ConfirmEligible(h)
                  \/ VerifyPurchase(h) \/ ConfirmResumes(h)

SessionStep(h) == \/ Guard(h) \/ FailoverTier(h) \/ FailoverRelay(h)
                  \/ FailoverResumes(h) \/ SelectRelay(h) \/ SelectNone(h)
                  \/ EndResumes(h)

HandlerStep(h) == RecordStep(h) \/ ConfirmStep(h) \/ SessionStep(h)

Request(h) == \E s \in Sessions : \/ \E t \in Tiers : ConfirmArrives(h, s, t)
                                  \/ FailoverArrives(h, s)
                                  \/ EndArrives(h, s)

Next == \/ \E h \in Handlers : Request(h) \/ HandlerStep(h) \/ Fail(h)
        \/ \E s \in Sessions, t \in Tiers : PurchaseMined(s, t)
        \/ Restart

Spec == Init /\ [][Next]_vars
-----------------------------------------------------------------------------
(* Fairness.  Every awaited promise settles, so a handler that can run     *)
(* does (the event loop is FIFO).  FairSpec adds what service to a payer   *)
(* needs from outside: its client asks again until it holds a token, and a *)
(* relay is eligible for its tier again and again.                         *)

ClientConfirms(s) == /\ tokens[s] = <<>>
                     /\ \E h \in Handlers, t \in Tiers :
                          purchase[s] = t /\ ConfirmArrives(h, s, t)

ServedSpec == /\ Spec
              /\ \A h \in Handlers : WF_vars(HandlerStep(h))

FairSpec == /\ ServedSpec
            /\ \A h \in Handlers : SF_vars(ConfirmEligible(h)) /\ SF_vars(SelectRelay(h))
            /\ \A s \in Sessions : SF_vars(ClientConfirms(s))
-----------------------------------------------------------------------------
(* Properties.                                                             *)

TypeOK == /\ log \in [Sessions -> Seq(Row)]
          /\ usedTx \in SUBSET Sessions
          /\ purchase \in [Sessions -> Tiers \cup {None}]
          /\ call \in [Handlers -> Call]
          /\ tokens \in [Sessions -> Seq(Token)]
          /\ overlapped \in SUBSET Sessions

(* However handlers interleave, fail and restart, every row of the log     *)
(* records an edge of the transition table, out of a state that an earlier *)
(* row entered; only a PAID row has no state to come from.                 *)
AuditTrail ==
  \A s \in Sessions : \A i \in DOMAIN log[s] :
    IF log[s][i].from = None
    THEN log[s][i].to = "PAID"
    ELSE /\ IsValidTransition(log[s][i].from, log[s][i].to)
         /\ \E j \in 1..(i - 1) : log[s][j].to = log[s][i].from

(* The rows of a session form one path: each starts where the previous one *)
(* ended.                                                                  *)
IsPath(s) == \A i \in DOMAIN log[s] :
               log[s][i].from = IF i = 1 THEN None ELSE log[s][i - 1].to

(* The transition log is a walk of the state machine, as session.ts says   *)
(* the orchestrator enforces.                                              *)
LogIsPath == \A s \in Sessions : IsPath(s)

Reader == INSTANCE SessionLog WITH Null <- None

(* The rows follow one another as SessionPage, which reads them, assumes:  *)
(* by the table, and with the relay unchanged but where a failover picks   *)
(* another than the failed one.                                            *)
IsReadable(s) ==
  \A i \in DOMAIN log[s] : IF i = 1 THEN Reader!First(log[s][i])
                           ELSE Reader!MayFollow(log[s][i - 1], log[s][i])

(* recordTransition reads, tests and inserts without a lock, and that is   *)
(* the only way to leave the state machine or to lose a session's relay: a *)
(* session no two handlers ever recorded at once has a log that is a path  *)
(* and reads as one, across failed queries and restarts that leave it part *)
(* way.                                                                    *)
PathUnlessOverlapped ==
  \A s \in Sessions : s \notin overlapped => IsPath(s) /\ IsReadable(s)

(* A payment opens one session, and its payer gets one token.              *)
OneTokenPerPayment == \A s \in Sessions : Len(tokens[s]) <= 1

(* Only handlers that recorded the session at once can issue it a second   *)
(* token: neither a later request nor a restart that empties usedTxHashes  *)
(* is enough.                                                              *)
OneTokenUnlessOverlapped ==
  \A s \in Sessions : s \notin overlapped => Len(tokens[s]) <= 1

(* A confirm request that arrives when its session already has rows never  *)
(* gets as far as writing one, so it never yields a token either, even     *)
(* when the process restarted in between and the in-memory replay          *)
(* protection is empty.                                                    *)
LateConfirmWritesNothing ==
  \A h \in Handlers : call[h].late => call[h].stage \notin {"insert", "resume"}

(* A token is issued for the tier that was paid on chain, on a relay that  *)
(* offers it and that the session's log shows ACTIVE.                      *)
TokenIsPaidFor ==
  \A s \in Sessions : \A i \in DOMAIN tokens[s] :
    /\ tokens[s][i].tier = purchase[s]
    /\ tokens[s][i].tier \in Offers[tokens[s][i].relay]
    /\ \E j \in DOMAIN log[s] : /\ log[s][j].to = "ACTIVE"
                                /\ log[s][j].relay = tokens[s][i].relay

(* Through purchase and any number of failovers, the rows of a session     *)
(* carry the tier that was paid and name only relays that offer it.        *)
RowsServePaidTier ==
  \A s \in Sessions : \A i \in DOMAIN log[s] :
    /\ log[s][i].tier = purchase[s] /\ purchase[s] # None
    /\ log[s][i].relay # None => purchase[s] \in Offers[log[s][i].relay]
    /\ log[s][i].relay = None => log[s][i].to = "EXPIRED_NORMAL"

(* Every request is answered.                                              *)
EveryCallAnswered ==
  \A h \in Handlers : call[h].stage # "idle" ~> call[h].stage = "idle"

(* A payer whose client keeps confirming the purchase gets a token.        *)
PaidIsServed ==
  \A s \in Sessions : purchase[s] # None ~> tokens[s] # <<>>

(* A session that lost its relay is driven to a healthy one.               *)
FailoverCompletes ==
  \A s \in Sessions : CurrentState(s) = "FAILOVER_SELECT" ~> CurrentState(s) = "ACTIVE"

(* One handler at a time implements the session life cycle.                *)
Lifecycle ==
  INSTANCE SessionLifecycle
    WITH paid <- {s \in Sessions : purchase[s] # None},
         state <- [s \in Sessions |-> CurrentState(s)],
         granted <- {s \in Sessions : tokens[s] # <<>>}

ImplementsLifecycle == Lifecycle!Spec
=============================================================================
