------------------------- MODULE OrchestratorProofs -------------------------
(***************************************************************************)
(* Theorems about Orchestrator, for any number of handlers, sessions,      *)
(* tiers and relays, with failures and restarts.                           *)
(***************************************************************************)
EXTENDS Orchestrator, TLAPS

LEMMA IdleIsCall == Idle \in Call
BY DEF Idle, Call, Stages, Recording

LEMMA BecomeTyped ==
  ASSUME TypeOK, NEW h \in Handlers, NEW c \in Call, Become(h, c)
  PROVE  /\ call' \in [Handlers -> Call]
         /\ overlapped' \in SUBSET Sessions
BY DEF TypeOK, Become

LEMMA CurrentStateTyped ==
  ASSUME TypeOK, NEW s \in Sessions
  PROVE  CurrentState(s) \in States \cup {None}
<1>1. CASE log[s] = <<>>
  BY <1>1 DEF CurrentState
<1>2. CASE log[s] # <<>>
  <2>1. log[s] \in Seq(Row)
    BY DEF TypeOK
  <2>2. Len(log[s]) \in 1..Len(log[s])
    BY <1>2, <2>1
  <2>3. log[s][Len(log[s])] \in Row
    BY <2>1, <2>2
  <2>. QED
    BY <1>2, <2>3 DEF CurrentState, Row
<1>. QED
  BY <1>1, <1>2
-----------------------------------------------------------------------------
(* What a request has established by the time it waits at a stage.         *)

ConfirmTargets == {"PAID", "TOKEN_ISSUED", "TUNNEL_OPEN", "ACTIVE"}
FailoverTargets == {"RELAY_UNREACHABLE", "FAILOVER_SELECT", "TUNNEL_OPEN", "ACTIVE"}

Shaped(c) ==
  /\ c.stage # "idle" => c.sid \in Sessions /\ c.kind \in Kinds
  /\ c.stage \in {"eligible", "verify"} => c.kind = "confirm" /\ c.tier \in Tiers
  /\ c.stage = "verify" => c.relay \in Relays
  /\ c.stage \in {"guard", "tier", "relay", "select"} => c.kind \in {"failover", "end"}
  /\ c.stage \in {"tier", "relay"} => c.kind = "failover"
  /\ c.stage = "relay" => c.tier \in Tiers
  /\ c.stage \in Recording =>
       /\ c.kind = "end" \/ (c.tier \in Tiers /\ c.relay \in Relays)
       /\ c.kind = "confirm" => c.to \in ConfirmTargets
       /\ c.kind = "failover" => c.to \in FailoverTargets
       /\ c.kind = "end" => c.to = "EXPIRED_NORMAL"
  /\ c.stage = "select" => c.kind = "failover"
  /\ c.stage \in {"insert", "resume"} => c.rowTier \in Tiers

TypeInv == TypeOK /\ \A h \in Handlers : Shaped(call[h])

\* One step of handler h moves it to a request that is again well shaped.
Moves(h) == \E c \in Call : Shaped(c) /\ Become(h, c)

LEMMA IdleShaped == Shaped(Idle)
BY DEF Shaped, Idle, Recording

LEMMA AnswerMoves ==
  ASSUME NEW h \in Handlers, Answer(h)
  PROVE  Moves(h)
BY IdleIsCall, IdleShaped DEF Answer, Moves

LEMMA RecordMoves ==
  ASSUME TypeInv, NEW h \in Handlers, NEW to \in States, Record(h, to),
         call[h].stage \notin {"idle", "eligible"},
         call[h].kind = "end" \/ (call[h].tier \in Tiers /\ call[h].relay \in Relays),
         call[h].kind = "confirm" => to \in ConfirmTargets,
         call[h].kind = "failover" => to \in FailoverTargets,
         call[h].kind = "end" => to = "EXPIRED_NORMAL"
  PROVE  Moves(h)
<1>. DEFINE c == [call[h] EXCEPT !.stage = "check", !.to = to,
                                 !.cur = None, !.rowTier = None]
<1>1. call[h] \in Call /\ Shaped(call[h])
  BY DEF TypeInv, TypeOK
<1>2. c \in Call
  BY <1>1 DEF Call, Stages, Recording
<1>3. Shaped(c)
  BY <1>1 DEF Call, Shaped, Recording
<1>. QED
  BY <1>2, <1>3 DEF Record, Moves

\* What recordTransition reads keeps the request well typed.
LEMMA ReadingTyped ==
  ASSUME NEW c \in Call, NEW stage \in Stages,
         NEW cur \in States \cup {None}, NEW t \in Tiers \cup {None}
  PROVE  /\ [c EXCEPT !.stage = stage, !.cur = cur, !.rowTier = t] \in Call
         /\ [c EXCEPT !.stage = stage, !.cur = cur] \in Call
<1>1. [c EXCEPT !.stage = stage, !.cur = cur, !.rowTier = t] \in Call
  BY DEF Call
<1>2. [c EXCEPT !.stage = stage, !.cur = cur] \in Call
  BY DEF Call
<1>. QED  BY <1>1, <1>2

LEMMA RecordStepMoves ==
  ASSUME TypeInv, NEW h \in Handlers, RecordStep(h)
  PROVE  Moves(h)
<1>1. call[h] \in Call /\ Shaped(call[h])
  BY DEF TypeInv, TypeOK
<1>2. CASE Check(h)
  <2>. DEFINE cur == CurrentState(call[h].sid)
              c1 == [call[h] EXCEPT !.stage = "insert", !.cur = cur, !.rowTier = call[h].tier]
              c2 == [call[h] EXCEPT !.stage = "getTier", !.cur = cur]
  <2>0. call[h].stage = "check"
    BY <1>2 DEF Check
  <2>1. cur \in States \cup {None}
    BY <1>1, <2>0, CurrentStateTyped DEF Shaped, TypeInv
  <2>a. {"insert", "getTier"} \subseteq Stages /\ call[h].tier \in Tiers \cup {None}
    BY <1>1 DEF Call, Stages, Recording
  <2>2. c1 \in Call /\ c2 \in Call
    BY <1>1, <2>1, <2>a, ReadingTyped
  <2>3. GivesTier(call[h]) => Shaped(c1)
    BY <1>1, <2>0 DEF Call, Shaped, Recording, GivesTier
  <2>4. Shaped(c2)
    BY <1>1, <2>0 DEF Call, Shaped, Recording
  <2>5. Answer(h) \/ (GivesTier(call[h]) /\ Become(h, c1)) \/ Become(h, c2)
    BY <1>2 DEF Check, Reject
  <2>. QED
    BY <2>2, <2>3, <2>4, <2>5, AnswerMoves DEF Moves
<1>3. CASE GetTier(h)
  <2>1. PICK t \in Tiers : Become(h, [call[h] EXCEPT !.stage = "insert", !.rowTier = t])
    BY <1>3 DEF GetTier
  <2>. DEFINE c == [call[h] EXCEPT !.stage = "insert", !.rowTier = t]
  <2>2. c \in Call /\ Shaped(c)
    BY <1>1, <1>3 DEF Call, Stages, Recording, Shaped, GetTier
  <2>. QED
    BY <2>1, <2>2 DEF Moves
<1>4. CASE Insert(h)
  <2>. DEFINE c == [call[h] EXCEPT !.stage = "resume"]
  <2>1. c \in Call /\ Shaped(c)
    BY <1>1, <1>4 DEF Call, Stages, Recording, Shaped, Insert
  <2>. QED
    BY <1>4, <2>1 DEF Insert, Goto, Moves
<1>. QED
  BY <1>2, <1>3, <1>4 DEF RecordStep

LEMMA ConfirmStepMoves ==
  ASSUME TypeInv, NEW h \in Handlers, ConfirmStep(h)
  PROVE  Moves(h)
<1>1. call[h] \in Call /\ Shaped(call[h])
  BY DEF TypeInv, TypeOK
<1>2. CASE ConfirmRefused(h)
  BY <1>2, AnswerMoves DEF ConfirmRefused
<1>3. CASE ConfirmEligible(h)
  <2>1. PICK r \in Relays :
          \/ Answer(h)
          \/ Become(h, [call[h] EXCEPT !.stage = "verify", !.relay = r])
    BY <1>3 DEF ConfirmEligible, Eligible
  <2>. DEFINE c == [call[h] EXCEPT !.stage = "verify", !.relay = r]
  <2>2. c \in Call /\ Shaped(c)
    BY <1>1, <1>3 DEF Call, Stages, Recording, Shaped, ConfirmEligible
  <2>. QED
    BY <2>1, <2>2, AnswerMoves DEF Moves
<1>4. CASE VerifyPurchase(h)
  <2>1. Answer(h) \/ Record(h, "PAID")
    BY <1>4 DEF VerifyPurchase
  <2>2. /\ call[h].stage = "verify" /\ call[h].kind = "confirm"
        /\ call[h].tier \in Tiers /\ call[h].relay \in Relays
    BY <1>1, <1>4 DEF VerifyPurchase, Shaped
  <2>. QED
    BY <2>1, <2>2, AnswerMoves, RecordMoves DEF ConfirmTargets, States
<1>5. CASE ConfirmResumes(h)
  <2>1. /\ call[h].stage = "resume" /\ call[h].kind = "confirm"
        /\ call[h].tier \in Tiers /\ call[h].relay \in Relays
        /\ call[h].to \in ConfirmTargets
    BY <1>1, <1>5 DEF ConfirmResumes, Shaped, Recording
  <2>2. Answer(h) \/ (call[h].to # "ACTIVE" /\ Record(h, NextOfConfirm[call[h].to]))
    BY <1>5 DEF ConfirmResumes, TokenDue
  <2>3. call[h].to # "ACTIVE" =>
          /\ NextOfConfirm[call[h].to] \in ConfirmTargets
          /\ NextOfConfirm[call[h].to] \in States
    BY <2>1 DEF NextOfConfirm, ConfirmTargets, States
  <2>. QED
    BY <2>1, <2>2, <2>3, AnswerMoves, RecordMoves
<1>. QED
  BY <1>2, <1>3, <1>4, <1>5 DEF ConfirmStep

LEMMA SessionStepMoves ==
  ASSUME TypeInv, NEW h \in Handlers, SessionStep(h)
  PROVE  Moves(h)
<1>1. call[h] \in Call /\ Shaped(call[h])
  BY DEF TypeInv, TypeOK
<1>2. CASE Guard(h)
  <2>. DEFINE c == [call[h] EXCEPT !.stage = "tier"]
  <2>1. \/ Answer(h)
        \/ call[h].kind = "end" /\ Record(h, "EXPIRED_NORMAL")
        \/ call[h].kind # "end" /\ Become(h, c)
    BY <1>2 DEF Guard, Goto
  <2>2. call[h].stage = "guard" /\ call[h].kind \in {"failover", "end"}
    BY <1>1, <1>2 DEF Guard, Shaped
  <2>3. c \in Call
    BY <1>1 DEF Call, Stages
  <2>4. call[h].kind # "end" => Shaped(c)
    BY <1>1, <2>2 DEF Call, Shaped, Recording
  <2>. QED
    BY <2>1, <2>2, <2>3, <2>4, AnswerMoves, RecordMoves DEF Moves, States
<1>3. CASE FailoverTier(h)
  <2>1. PICK t \in Tiers : Become(h, [call[h] EXCEPT !.stage = "relay", !.tier = t])
    BY <1>3 DEF FailoverTier
  <2>. DEFINE c == [call[h] EXCEPT !.stage = "relay", !.tier = t]
  <2>2. c \in Call /\ Shaped(c)
    BY <1>1, <1>3 DEF Call, Stages, Recording, Shaped, FailoverTier
  <2>. QED
    BY <2>1, <2>2 DEF Moves
<1>4. CASE FailoverRelay(h)
  <2>. DEFINE c(r) == [call[h] EXCEPT !.stage = "check", !.to = "RELAY_UNREACHABLE",
                                      !.relay = r]
  <2>1. PICK r \in Relays : Become(h, c(r))
    BY <1>4 DEF FailoverRelay
  <2>2. c(r) \in Call
    BY <1>1 DEF Call, Stages, Recording, States
  <2>3. Shaped(c(r))
    BY <1>1, <1>4 DEF Call, Recording, Shaped, FailoverRelay, FailoverTargets
  <2>. QED
    BY <2>1, <2>2, <2>3 DEF Moves
<1>5. CASE FailoverResumes(h)
  <2>. DEFINE c == [call[h] EXCEPT !.stage = "select"]
  <2>1. /\ call[h].stage = "resume" /\ call[h].kind = "failover"
        /\ call[h].tier \in Tiers /\ call[h].relay \in Relays
        /\ call[h].to \in FailoverTargets
    BY <1>1, <1>5 DEF FailoverResumes, Shaped, Recording
  <2>2. \/ Record(h, "FAILOVER_SELECT") \/ Become(h, c)
        \/ Record(h, "ACTIVE") \/ Answer(h)
    BY <1>5, <2>1 DEF FailoverResumes, FailoverTargets, Goto
  <2>3. c \in Call /\ Shaped(c)
    BY <1>1, <2>1 DEF Call, Stages, Recording, Shaped
  <2>. QED
    BY <2>1, <2>2, <2>3, AnswerMoves, RecordMoves DEF Moves, FailoverTargets, States
<1>6. CASE SelectRelay(h)
  <2>. DEFINE c(r) == [call[h] EXCEPT !.stage = "check", !.to = "TUNNEL_OPEN", !.relay = r,
                                      !.cur = None, !.rowTier = None]
  <2>1. PICK r \in Relays : Become(h, c(r))
    BY <1>6 DEF SelectRelay, Eligible
  <2>2. c(r) \in Call
    BY <1>1 DEF Call, Stages, Recording, States
  <2>3. Shaped(c(r))
    BY <1>1, <1>6 DEF Call, Recording, Shaped, SelectRelay, FailoverTargets
  <2>. QED
    BY <2>1, <2>2, <2>3 DEF Moves
<1>. QED
  BY <1>2, <1>3, <1>4, <1>5, <1>6, AnswerMoves DEF SessionStep, SelectNone, EndResumes

LEMMA RequestMoves ==
  ASSUME TypeInv, NEW h \in Handlers, Request(h)
  PROVE  Moves(h)
<1>1. PICK s \in Sessions : \/ \E t \in Tiers : ConfirmArrives(h, s, t)
                            \/ FailoverArrives(h, s)
                            \/ EndArrives(h, s)
  BY DEF Request
<1>2. ASSUME NEW t \in Tiers, ConfirmArrives(h, s, t)
      PROVE  Moves(h)
  <2>. DEFINE c == [Idle EXCEPT !.stage = "eligible", !.kind = "confirm", !.sid = s,
                                !.tier = t, !.late = log[s] # <<>>]
  <2>1. c \in Call /\ Shaped(c)
    BY IdleIsCall DEF Idle, Call, Stages, Kinds, Recording, Shaped
  <2>. QED
    BY <1>2, <2>1 DEF ConfirmArrives, Moves
<1>3. ASSUME FailoverArrives(h, s) \/ EndArrives(h, s)
      PROVE  Moves(h)
  <2>. DEFINE c(k) == [Idle EXCEPT !.stage = "guard", !.kind = k, !.sid = s]
  <2>1. \A k \in {"failover", "end"} : c(k) \in Call /\ Shaped(c(k))
    BY IdleIsCall DEF Idle, Call, Stages, Kinds, Recording, Shaped
  <2>2. Become(h, c("failover")) \/ Become(h, c("end"))
    BY <1>3 DEF FailoverArrives, EndArrives
  <2>. QED
    BY <2>1, <2>2 DEF Moves
<1>. QED
  BY <1>1, <1>2, <1>3

LEMMA HandlerMoves ==
  ASSUME TypeInv, NEW h \in Handlers, Request(h) \/ HandlerStep(h) \/ Fail(h)
  PROVE  Moves(h)
BY RequestMoves, RecordStepMoves, ConfirmStepMoves, SessionStepMoves, AnswerMoves
   DEF HandlerStep, Fail

\* Every handler step leaves the log of a session alone, or is Insert.
LEMMA OnlyInsertWritesLog ==
  ASSUME NEW h \in Handlers, Request(h) \/ HandlerStep(h) \/ Fail(h)
  PROVE  UNCHANGED log \/ Insert(h)
BY DEF Request, HandlerStep, Fail, RecordStep, ConfirmStep, SessionStep,
       ConfirmArrives, FailoverArrives, EndArrives, Check, GetTier,
       ConfirmRefused, ConfirmEligible, VerifyPurchase, ConfirmResumes,
       Guard, FailoverTier, FailoverRelay, FailoverResumes, SelectRelay,
       SelectNone, EndResumes

\* Tokens are issued by the last resumption of a confirm only.
LEMMA OnlyConfirmIssuesToken ==
  ASSUME NEW h \in Handlers, Request(h) \/ HandlerStep(h) \/ Fail(h)
  PROVE  UNCHANGED tokens \/ ConfirmResumes(h)
BY DEF Request, HandlerStep, Fail, RecordStep, ConfirmStep, SessionStep,
       ConfirmArrives, FailoverArrives, EndArrives, Check, GetTier, Insert,
       ConfirmRefused, ConfirmEligible, VerifyPurchase,
       Guard, FailoverTier, FailoverRelay, FailoverResumes, SelectRelay,
       SelectNone, EndResumes

LEMMA PurchaseUntouched ==
  ASSUME NEW h \in Handlers, Request(h) \/ HandlerStep(h) \/ Fail(h)
  PROVE  UNCHANGED purchase
BY DEF Request, HandlerStep, Fail, RecordStep, ConfirmStep, SessionStep,
       ConfirmArrives, FailoverArrives, EndArrives, Check, GetTier, Insert,
       ConfirmRefused, ConfirmEligible, VerifyPurchase, ConfirmResumes,
       Guard, FailoverTier, FailoverRelay, FailoverResumes, SelectRelay,
       SelectNone, EndResumes

LEMMA UsedTxTyped ==
  ASSUME TypeInv, NEW h \in Handlers, Request(h) \/ HandlerStep(h) \/ Fail(h)
  PROVE  usedTx' \in SUBSET Sessions
<1>1. UNCHANGED usedTx \/ VerifyPurchase(h)
  BY DEF Request, HandlerStep, Fail, RecordStep, ConfirmStep, SessionStep,
         ConfirmArrives, FailoverArrives, EndArrives, Check, GetTier, Insert,
         ConfirmRefused, ConfirmEligible, ConfirmResumes,
         Guard, FailoverTier, FailoverRelay, FailoverResumes, SelectRelay,
         SelectNone, EndResumes
<1>2. VerifyPurchase(h) => usedTx' \in SUBSET Sessions
  BY DEF VerifyPurchase, TypeInv, TypeOK, Shaped
<1>. QED
  BY <1>1, <1>2 DEF TypeInv, TypeOK

NewRow(h) == [from |-> call[h].cur, to |-> call[h].to,
              relay |-> RowRelay(call[h]), tier |-> call[h].rowTier]

\* Insert appends one row to one log.
LEMMA InsertAppends ==
  ASSUME TypeInv, NEW h \in Handlers, Insert(h)
  PROVE  /\ call[h].sid \in Sessions
         /\ NewRow(h) \in Row
         /\ log' = [log EXCEPT ![call[h].sid] = Append(@, NewRow(h))]
         /\ log' \in [Sessions -> Seq(Row)]
<1>1. /\ call[h] \in Call /\ Shaped(call[h]) /\ call[h].stage = "insert"
      /\ log \in [Sessions -> Seq(Row)]
  BY DEF TypeInv, TypeOK, Insert
<1>2. call[h].sid \in Sessions
  BY <1>1 DEF Shaped
<1>3. call[h].to \in States
  BY <1>1 DEF Shaped, Recording, ConfirmTargets, FailoverTargets, States, Kinds
<1>4. NewRow(h) \in Row
  BY <1>1, <1>3 DEF NewRow, Row, RowRelay, Call
<1>5. log' = [log EXCEPT ![call[h].sid] = Append(@, NewRow(h))]
  BY DEF Insert, NewRow
<1>6. Append(log[call[h].sid], NewRow(h)) \in Seq(Row)
  BY <1>1, <1>2, <1>4
<1>. QED
  BY <1>1, <1>2, <1>4, <1>5, <1>6

LEMMA TokensTyped ==
  ASSUME TypeInv, NEW h \in Handlers, ConfirmResumes(h)
  PROVE  tokens' \in [Sessions -> Seq(Token)]
<1>. DEFINE c == call[h]
            t == [relay |-> c.relay, tier |-> c.tier]
<1>1. /\ c \in Call /\ Shaped(c) /\ c.stage = "resume" /\ c.kind = "confirm"
      /\ tokens \in [Sessions -> Seq(Token)]
  BY DEF TypeInv, TypeOK, ConfirmResumes
<1>2. c.sid \in Sessions /\ t \in Token
  BY <1>1 DEF Shaped, Recording, Token
<1>3. Append(tokens[c.sid], t) \in Seq(Token)
  BY <1>1, <1>2
<1>4. \/ UNCHANGED tokens
      \/ tokens' = [tokens EXCEPT ![c.sid] = Append(@, t)]
  BY DEF ConfirmResumes
<1>. QED
  BY <1>1, <1>2, <1>3, <1>4

LEMMA TypeInvInductive == TypeInv /\ [Next]_vars => TypeInv'
<1>. SUFFICES ASSUME TypeInv, [Next]_vars PROVE TypeInv'
  OBVIOUS
<1>1. ASSUME NEW h \in Handlers, Request(h) \/ HandlerStep(h) \/ Fail(h)
      PROVE  TypeInv'
  <2>1. PICK c \in Call : Shaped(c) /\ Become(h, c)
    BY <1>1, HandlerMoves DEF Moves
  <2>2. call' \in [Handlers -> Call] /\ overlapped' \in SUBSET Sessions
    BY <2>1, BecomeTyped DEF TypeInv
  <2>3. \A g \in Handlers : Shaped(call'[g])
    BY <2>1 DEF Become, TypeInv, TypeOK
  <2>4. log' \in [Sessions -> Seq(Row)]
    BY <1>1, OnlyInsertWritesLog, InsertAppends DEF TypeInv, TypeOK
  <2>5. tokens' \in [Sessions -> Seq(Token)]
    BY <1>1, OnlyConfirmIssuesToken, TokensTyped DEF TypeInv, TypeOK
  <2>6. purchase' \in [Sessions -> Tiers \cup {None}]
    BY <1>1, PurchaseUntouched DEF TypeInv, TypeOK
  <2>7. usedTx' \in SUBSET Sessions
    BY <1>1, UsedTxTyped
  <2>. QED
    BY <2>2, <2>3, <2>4, <2>5, <2>6, <2>7 DEF TypeInv, TypeOK
<1>2. ASSUME NEW s \in Sessions, NEW t \in Tiers, PurchaseMined(s, t)
      PROVE  TypeInv'
  BY <1>2 DEF PurchaseMined, TypeInv, TypeOK
<1>3. CASE Restart
  BY <1>3, IdleIsCall, IdleShaped DEF Restart, TypeInv, TypeOK
<1>4. CASE UNCHANGED vars
  BY <1>4 DEF vars, TypeInv, TypeOK
<1>. QED
  BY <1>1, <1>2, <1>3, <1>4 DEF Next

LEMMA TypeInvInit == Init => TypeInv
BY IdleIsCall, IdleShaped DEF Init, TypeInv, TypeOK

(* Every variable keeps its type: in particular the row that any handler   *)
(* inserts is a row of session_events whatever failed before it.           *)
THEOREM TypeCorrect == Spec => []TypeOK
<1>1. TypeInv => TypeOK
  BY DEF TypeInv
<1>. QED
  BY <1>1, TypeInvInit, TypeInvInductive, PTL DEF Spec
-----------------------------------------------------------------------------
(* Facts about one step, used by every invariant below.                    *)

LEMMA AppendFacts ==
  ASSUME NEW S, NEW q \in Seq(S), NEW e \in S
  PROVE  /\ Append(q, e) \in Seq(S)
         /\ Append(q, e) # <<>>
         /\ Len(Append(q, e)) = Len(q) + 1
         /\ DOMAIN q = 1..Len(q) /\ Len(q) \in Nat
         /\ DOMAIN Append(q, e) = 1..(Len(q) + 1)
         /\ \A i \in 1..Len(q) : Append(q, e)[i] = q[i]
         /\ Append(q, e)[Len(q) + 1] = e
OBVIOUS

LEMMA OthersUnmoved ==
  ASSUME TypeInv, NEW h \in Handlers, Request(h) \/ HandlerStep(h) \/ Fail(h),
         NEW g \in Handlers, g # h
  PROVE  call'[g] = call[g]
BY HandlerMoves DEF Moves, Become, TypeInv, TypeOK

\* A request that holds the state it read, about to insert.
Holding(c) == c.stage \in {"getTier", "insert"}

\* A step that leaves h holding a state is a Check that has just read it, or
\* the GetTier that follows.
HoldsByCheck(h) == /\ call[h].stage = "check"
                   /\ call'[h].cur = CurrentState(call[h].sid)
                   /\ Permitted(call'[h].cur, call[h].to)

HoldsByGetTier(h) == /\ call[h].stage = "getTier"
                     /\ call'[h].cur = call[h].cur

LEMMA HowHeld ==
  ASSUME TypeInv, NEW h \in Handlers, Request(h) \/ HandlerStep(h) \/ Fail(h),
         Holding(call'[h])
  PROVE  /\ call'[h].sid = call[h].sid /\ call'[h].to = call[h].to
         /\ call'[h].kind = call[h].kind /\ call'[h].late = call[h].late
         /\ call'[h].relay = call[h].relay
         /\ HoldsByCheck(h) \/ HoldsByGetTier(h)
         /\ UNCHANGED log
<1>1. call \in [Handlers -> Call]
  BY DEF TypeInv, TypeOK
<1>2. Check(h) \/ GetTier(h)
  <2>1. ~ Answer(h)
    BY <1>1 DEF Answer, Become, Idle, Holding
  <2>2. \A to : ~ Record(h, to)
    BY <1>1 DEF Record, Become, Holding, Call
  <2>3. \A st : st \notin {"getTier", "insert"} => ~ Goto(h, st)
    BY <1>1 DEF Goto, Become, Holding, Call
  <2>4. ~ Request(h)
    BY <1>1 DEF Request, ConfirmArrives, FailoverArrives, EndArrives, Become,
                Idle, Holding
  <2>5. ~ Insert(h) /\ ~ Fail(h)
    BY <2>1, <2>3 DEF Insert, Fail
  <2>6. ~ ConfirmStep(h)
    BY <1>1, <2>1, <2>2, <2>3
       DEF ConfirmStep, ConfirmRefused, ConfirmEligible, VerifyPurchase,
           ConfirmResumes, Become, Holding, Call
  <2>7. ~ SessionStep(h)
    <3>0. call[h] \in Call
      BY <1>1
    <3>1. ~ FailoverTier(h)
      BY <1>1, <3>0 DEF FailoverTier, Become, Holding, Call
    <3>3. ~ FailoverRelay(h)
      BY <1>1, <3>0 DEF FailoverRelay, Become, Holding, Call
    <3>4. ~ SelectRelay(h)
      <4>. SUFFICES ASSUME SelectRelay(h) PROVE FALSE
        OBVIOUS
      <4>1. PICK r \in Relays :
              Become(h, [call[h] EXCEPT !.stage = "check", !.to = "TUNNEL_OPEN",
                                        !.relay = r, !.cur = None, !.rowTier = None])
        BY DEF SelectRelay, Eligible
      <4>2. call'[h].stage = "check"
        BY <1>1, <3>0, <4>1 DEF Become, Call
      <4>. QED
        BY <4>2 DEF Holding
    <3>2. ~ Guard(h) /\ ~ FailoverResumes(h)
      BY <2>1, <2>2, <2>3 DEF Guard, FailoverResumes
    <3>. QED
      BY <2>1, <3>1, <3>2, <3>3, <3>4 DEF SessionStep, SelectNone, EndResumes
  <2>. QED
    BY <2>4, <2>5, <2>6, <2>7 DEF HandlerStep, RecordStep
<1>3. CASE Check(h)
  <2>. DEFINE cur == CurrentState(call[h].sid)
              c1 == [call[h] EXCEPT !.stage = "insert", !.cur = cur, !.rowTier = call[h].tier]
              c2 == [call[h] EXCEPT !.stage = "getTier", !.cur = cur]
  <2>1. /\ call[h].stage = "check" /\ UNCHANGED log
        /\ \/ Answer(h)
           \/ Permitted(cur, call[h].to) /\ (Become(h, c1) \/ Become(h, c2))
    BY <1>3 DEF Check, Reject
  <2>2. ~ Answer(h)
    BY <1>1 DEF Answer, Become, Idle, Holding
  <2>3. call'[h] = c1 \/ call'[h] = c2
    BY <1>1, <2>1, <2>2 DEF Become
  <2>4. \A c \in {c1, c2} : /\ c.sid = call[h].sid /\ c.to = call[h].to
                             /\ c.kind = call[h].kind /\ c.late = call[h].late
                             /\ c.relay = call[h].relay /\ c.cur = cur
    BY <1>1 DEF Call
  <2>. QED
    BY <2>1, <2>2, <2>3, <2>4 DEF HoldsByCheck
<1>4. CASE GetTier(h)
  BY <1>1, <1>4 DEF GetTier, Become, Holding, HoldsByGetTier, Call
<1>. QED
  BY <1>2, <1>3, <1>4

LEMMA NewRowIsLast ==
  ASSUME TypeInv, NEW h \in Handlers, Insert(h)
  PROVE  /\ Len(log'[call[h].sid]) = Len(log[call[h].sid]) + 1
         /\ log'[call[h].sid] # <<>>
         /\ log'[call[h].sid][Len(log[call[h].sid]) + 1] = NewRow(h)
         /\ \A i \in 1..Len(log[call[h].sid]) : log'[call[h].sid][i] = log[call[h].sid][i]
         /\ \A s \in Sessions : s # call[h].sid => log'[s] = log[s]
<1>. DEFINE s == call[h].sid
<1>1. /\ s \in Sessions /\ NewRow(h) \in Row /\ log[s] \in Seq(Row)
      /\ log' = [log EXCEPT ![s] = Append(log[s], NewRow(h))]
      /\ log \in [Sessions -> Seq(Row)]
  BY InsertAppends DEF TypeInv, TypeOK
<1>2. log'[s] = Append(log[s], NewRow(h))
  BY <1>1
<1>3. \A r \in Sessions : r # s => log'[r] = log[r]
  BY <1>1
<1>. HIDE DEF s
<1>4. /\ Len(Append(log[s], NewRow(h))) = Len(log[s]) + 1
      /\ Append(log[s], NewRow(h)) # <<>>
      /\ Append(log[s], NewRow(h))[Len(log[s]) + 1] = NewRow(h)
      /\ \A i \in 1..Len(log[s]) : Append(log[s], NewRow(h))[i] = log[s][i]
  BY <1>1, AppendFacts
<1>. QED
  BY <1>2, <1>3, <1>4 DEF s

\* Rows stay where they are.
LEMMA LogGrows ==
  ASSUME TypeInv, NEW h \in Handlers, Request(h) \/ HandlerStep(h) \/ Fail(h),
         NEW s \in Sessions
  PROVE  /\ Len(log[s]) \in Nat /\ Len(log'[s]) \in Nat
         /\ Len(log[s]) <= Len(log'[s])
         /\ \A i \in 1..Len(log[s]) : log'[s][i] = log[s][i]
<1>1. log[s] \in Seq(Row)
  BY DEF TypeInv, TypeOK
<1>2. CASE UNCHANGED log
  BY <1>1, <1>2
<1>3. CASE Insert(h)
  BY <1>1, <1>3, NewRowIsLast
<1>. QED
  BY <1>2, <1>3, OnlyInsertWritesLog

LEMMA KnownState ==
  ASSUME TypeInv, NEW s \in Sessions
  PROVE  /\ log[s] = <<>> => CurrentState(s) = None
         /\ log[s] # <<>> => /\ Len(log[s]) \in 1..Len(log[s])
                             /\ log[s][Len(log[s])] \in Row
                             /\ CurrentState(s) = log[s][Len(log[s])].to
                             /\ CurrentState(s) \in States
                             /\ CurrentState(s) # None
<1>1. log[s] \in Seq(Row)
  BY DEF TypeInv, TypeOK
<1>2. log[s] # <<>> => Len(log[s]) \in 1..Len(log[s]) /\ log[s][Len(log[s])] \in Row
  BY <1>1
<1>. QED
  BY <1>2, NoneAssumption DEF CurrentState, Row
-----------------------------------------------------------------------------
(* The audit trail.                                                        *)

\* What a request read is a state its session has been in, and the table lets
\* it go where the request is about to.
ReadsRight(c) ==
  Holding(c) => /\ Permitted(c.cur, c.to)
                /\ c.cur # None => \E j \in 1..Len(log[c.sid]) : log[c.sid][j].to = c.cur

AuditInv == AuditTrail /\ \A h \in Handlers : ReadsRight(call[h])

LEMMA AuditInvInductive == TypeInv /\ AuditInv /\ [Next]_vars => AuditInv'
<1>. SUFFICES ASSUME TypeInv, AuditInv, [Next]_vars PROVE AuditInv'
  OBVIOUS
<1>1. ASSUME NEW h \in Handlers, Request(h) \/ HandlerStep(h) \/ Fail(h)
      PROVE  AuditInv'
  <2>1. ASSUME NEW g \in Handlers PROVE ReadsRight(call[g])'
    <3>0. ReadsRight(call[g]) /\ Shaped(call[g])
      BY DEF AuditInv, TypeInv
    <3>1. CASE g = h
      <4>. SUFFICES ASSUME Holding(call'[h])
                    PROVE  /\ Permitted(call'[h].cur, call'[h].to)
                           /\ call'[h].cur # None =>
                                \E j \in 1..Len(log'[call'[h].sid]) :
                                   log'[call'[h].sid][j].to = call'[h].cur
        BY <3>1 DEF ReadsRight, Holding
      <4>1. call'[h].sid = call[h].sid /\ call'[h].to = call[h].to /\ UNCHANGED log
        BY <1>1, HowHeld
      <4>2. CASE HoldsByCheck(h)
        <5>1. call[h].sid \in Sessions
          BY <3>0, <3>1, <4>2 DEF HoldsByCheck, Shaped
        <5>. QED
          BY <4>1, <4>2, <5>1, KnownState DEF HoldsByCheck
      <4>3. CASE HoldsByGetTier(h)
        BY <3>0, <3>1, <4>1, <4>3 DEF HoldsByGetTier, ReadsRight, Holding
      <4>. QED
        BY <1>1, <4>2, <4>3, HowHeld
    <3>2. CASE g # h
      <4>1. call'[g] = call[g]
        BY <1>1, <3>2, OthersUnmoved
      <4>2. Holding(call[g]) => call[g].sid \in Sessions
        BY <3>0 DEF Holding, Shaped
      <4>. QED
        BY <1>1, <3>0, <4>1, <4>2, LogGrows DEF ReadsRight, Holding
    <3>. QED
      BY <3>1, <3>2
  <2>2. AuditTrail'
    <3>1. CASE UNCHANGED log
      BY <3>1 DEF AuditInv, AuditTrail
    <3>2. CASE Insert(h)
      <4>. DEFINE s == call[h].sid
                  n == Len(log[s])
      <4>1. /\ s \in Sessions /\ log[s] \in Seq(Row) /\ log'[s] \in Seq(Row)
            /\ Holding(call[h]) /\ ReadsRight(call[h])
        BY <3>2, InsertAppends DEF AuditInv, TypeInv, TypeOK, Insert, Holding
      <4>2. /\ NewRow(h).from = call[h].cur /\ NewRow(h).to = call[h].to
        BY DEF NewRow
      <4>3. ASSUME NEW i \in DOMAIN log'[s]
            PROVE  IF log'[s][i].from = None
                   THEN log'[s][i].to = "PAID"
                   ELSE /\ IsValidTransition(log'[s][i].from, log'[s][i].to)
                        /\ \E j \in 1..(i - 1) : log'[s][j].to = log'[s][i].from
        <5>1. i \in 1..n \/ i = n + 1
          BY <3>2, <4>1, NewRowIsLast
        <5>2. CASE i \in 1..n
          <6>1. \A j \in 1..i : log'[s][j] = log[s][j]
            BY <3>2, <4>1, <5>2, NewRowIsLast
          <6>2. i \in DOMAIN log[s] /\ i \in 1..i /\ \A j \in 1..(i - 1) : j \in 1..i
            BY <4>1, <5>2
          <6>3. IF log[s][i].from = None
                THEN log[s][i].to = "PAID"
                ELSE /\ IsValidTransition(log[s][i].from, log[s][i].to)
                     /\ \E j \in 1..(i - 1) : log[s][j].to = log[s][i].from
            BY <4>1, <6>2 DEF AuditInv, AuditTrail
          <6>. QED
            BY <6>1, <6>2, <6>3
        <5>3. CASE i = n + 1
          <6>1. log'[s][i] = NewRow(h) /\ (i - 1) = n
            BY <3>2, <4>1, <5>3, NewRowIsLast
          <6>2. \A j \in 1..n : log'[s][j] = log[s][j]
            BY <3>2, NewRowIsLast
          <6>3. Permitted(call[h].cur, call[h].to)
            BY <4>1 DEF ReadsRight
          <6>4. call[h].cur # None => \E j \in 1..n : log'[s][j].to = call[h].cur
            BY <4>1, <6>2 DEF ReadsRight
          <6>. QED
            BY <4>2, <6>1, <6>3, <6>4 DEF Permitted
        <5>. QED
          BY <5>1, <5>2, <5>3
      <4>4. \A r \in Sessions : r # s => log'[r] = log[r]
        BY <3>2, NewRowIsLast
      <4>. HIDE DEF s
      <4>. QED
        BY <4>3, <4>4 DEF AuditInv, AuditTrail
    <3>. QED
      BY <1>1, <3>1, <3>2, OnlyInsertWritesLog
  <2>. QED
    BY <2>1, <2>2 DEF AuditInv
<1>2. CASE UNCHANGED <<log, call>>
  BY <1>2 DEF AuditInv, AuditTrail, ReadsRight, Holding
<1>3. CASE Restart
  BY <1>3 DEF Restart, Idle, AuditInv, AuditTrail, ReadsRight, Holding
<1>. QED
  BY <1>1, <1>2, <1>3 DEF Next, PurchaseMined, vars

(* Every row of the audit trail records an edge of the transition table    *)
(* out of a state the session had entered, whatever handlers interleave.   *)
THEOREM AuditTrailHolds == Spec => []AuditTrail
<1>1. Init => AuditInv
  BY DEF Init, Idle, AuditInv, AuditTrail, ReadsRight, Holding
<1>2. AuditInv => AuditTrail
  BY DEF AuditInv
<1>. QED
  BY <1>1, <1>2, TypeInvInit, TypeInvInductive, AuditInvInductive, PTL DEF Spec
-----------------------------------------------------------------------------
(* Replays.  The log only ever holds states the routes write, none of      *)
(* which may be followed by PAID.                                          *)

Written == ConfirmTargets \cup FailoverTargets \cup {"EXPIRED_NORMAL"}

OnlyWritten == \A s \in Sessions : \A i \in 1..Len(log[s]) : log[s][i].to \in Written

LEMMA OnlyWrittenInductive == TypeInv /\ OnlyWritten /\ [Next]_vars => OnlyWritten'
<1>. SUFFICES ASSUME TypeInv, OnlyWritten, [Next]_vars PROVE OnlyWritten'
  OBVIOUS
<1>1. ASSUME NEW h \in Handlers, Insert(h) PROVE OnlyWritten'
  <2>. DEFINE s == call[h].sid
              n == Len(log[s])
  <2>1. s \in Sessions /\ n \in Nat /\ Len(log'[s]) = n + 1
    BY <1>1, InsertAppends, NewRowIsLast DEF TypeInv, TypeOK
  <2>2. NewRow(h).to \in Written
    BY <1>1 DEF NewRow, TypeInv, Shaped, Insert, Recording, Written, Kinds
  <2>3. \A i \in 1..(n + 1) : log'[s][i].to \in Written
    <3>. TAKE i \in 1..(n + 1)
    <3>1. CASE i \in 1..n
      BY <1>1, <2>1, <3>1, NewRowIsLast DEF OnlyWritten
    <3>2. CASE i = n + 1
      BY <1>1, <2>2, <3>2, NewRowIsLast
    <3>. QED
      BY <2>1, <3>1, <3>2
  <2>4. \A r \in Sessions : r # s => log'[r] = log[r]
    BY <1>1, NewRowIsLast
  <2>. HIDE DEF s, n
  <2>. QED
    BY <2>1, <2>3, <2>4 DEF OnlyWritten
<1>2. CASE UNCHANGED log
  BY <1>2 DEF OnlyWritten
<1>. QED
  BY <1>1, <1>2, OnlyInsertWritesLog DEF Next, PurchaseMined, Restart, vars

\* PAID is recorded on an empty log only.
LEMMA PaidOnlyFirst ==
  ASSUME TypeInv, OnlyWritten, NEW s \in Sessions,
         Permitted(CurrentState(s), "PAID")
  PROVE  log[s] = <<>>
<1>. SUFFICES ASSUME log[s] # <<>> PROVE FALSE
  OBVIOUS
<1>1. CurrentState(s) \in Written /\ CurrentState(s) # None
  BY KnownState DEF OnlyWritten
<1>2. "PAID" \in Transitions[CurrentState(s)]
  BY <1>1 DEF Permitted, IsValidTransition
<1>. QED
  BY <1>1, <1>2 DEF Transitions, Written, ConfirmTargets, FailoverTargets

\* A request that found rows when it arrived has not got past its first check.
Barred(c) == c.late => /\ c.sid \in Sessions /\ log[c.sid] # <<>>
                       /\ c.kind = "confirm"
                       /\ c.stage \in {"eligible", "verify", "check"}
                       /\ c.stage = "check" => c.to = "PAID"

LateInv == \A h \in Handlers : Barred(call[h])

\* Until it is answered, a request keeps its session and its kind.
LEMMA RequestKept ==
  ASSUME TypeInv, NEW h \in Handlers, HandlerStep(h) \/ Fail(h), ~ Answer(h)
  PROVE  /\ call'[h].late = call[h].late
         /\ call'[h].sid = call[h].sid
         /\ call'[h].kind = call[h].kind
<1>1. call \in [Handlers -> Call] /\ call[h] \in Call
  BY DEF TypeInv, TypeOK
<1>. DEFINE Kept(c) == c.late = call[h].late /\ c.sid = call[h].sid /\ c.kind = call[h].kind
<1>2. ~ Answer(h)
  OBVIOUS
<1>3. ASSUME NEW to, Record(h, to) PROVE Kept(call'[h])
  <2>. DEFINE c == [call[h] EXCEPT !.stage = "check", !.to = to,
                                   !.cur = None, !.rowTier = None]
  <2>1. call'[h] = c
    BY <1>1, <1>3 DEF Record, Become
  <2>2. Kept(c)
    BY <1>1 DEF Call
  <2>. QED
    BY <2>1, <2>2
<1>4. \A st : Goto(h, st) => Kept(call'[h])
  BY <1>1 DEF Goto, Become, Call
<1>5. CASE Check(h)
  <2>. DEFINE cur == CurrentState(call[h].sid)
              c1 == [call[h] EXCEPT !.stage = "insert", !.cur = cur, !.rowTier = call[h].tier]
              c2 == [call[h] EXCEPT !.stage = "getTier", !.cur = cur]
  <2>1. call'[h] = c1 \/ call'[h] = c2
    BY <1>1, <1>2, <1>5 DEF Check, Reject, Become
  <2>2. Kept(c1) /\ Kept(c2)
    BY <1>1 DEF Call
  <2>. QED
    BY <2>1, <2>2
<1>6. CASE GetTier(h)
  BY <1>1, <1>6 DEF GetTier, Become, Call
<1>7. CASE FailoverTier(h)
  BY <1>1, <1>7 DEF FailoverTier, Become, Call
<1>8. CASE ConfirmEligible(h)
  <2>1. PICK r \in Relays :
          \/ Answer(h)
          \/ Become(h, [call[h] EXCEPT !.stage = "verify", !.relay = r])
    BY <1>8 DEF ConfirmEligible, Eligible
  <2>. QED
    BY <1>1, <1>2, <2>1 DEF Become, Call
<1>9. CASE FailoverRelay(h)
  BY <1>1, <1>9 DEF FailoverRelay, Become, Call
<1>10. CASE SelectRelay(h)
  <2>1. PICK r \in Relays :
          Become(h, [call[h] EXCEPT !.stage = "check", !.to = "TUNNEL_OPEN",
                                    !.relay = r, !.cur = None, !.rowTier = None])
    BY <1>10 DEF SelectRelay, Eligible
  <2>. QED
    BY <1>1, <2>1 DEF Become, Call
<1>11. CASE \/ Insert(h) \/ VerifyPurchase(h) \/ ConfirmResumes(h)
           \/ Guard(h) \/ FailoverResumes(h)
  BY <1>2, <1>3, <1>4, <1>11
     DEF Insert, VerifyPurchase, ConfirmResumes, Guard, FailoverResumes
<1>12. ~ (ConfirmRefused(h) \/ SelectNone(h) \/ EndResumes(h) \/ Fail(h))
  BY <1>2 DEF ConfirmRefused, SelectNone, EndResumes, Fail
<1>. QED
  BY <1>5, <1>6, <1>7, <1>8, <1>9, <1>10, <1>11, <1>12
     DEF HandlerStep, RecordStep, ConfirmStep, SessionStep

LEMMA LateInvInductive == TypeInv /\ OnlyWritten /\ LateInv /\ [Next]_vars => LateInv'
<1>. SUFFICES ASSUME TypeInv, OnlyWritten, LateInv, [Next]_vars PROVE LateInv'
  OBVIOUS
<1>1. ASSUME NEW h \in Handlers, Request(h) \/ HandlerStep(h) \/ Fail(h)
      PROVE  LateInv'
  <2>. SUFFICES ASSUME NEW g \in Handlers, call'[g].late PROVE Barred(call[g])'
    BY DEF LateInv, Barred
  <2>0. /\ call \in [Handlers -> Call] /\ call[h] \in Call /\ Barred(call[h])
        /\ Barred(call[g])
    BY DEF TypeInv, TypeOK, LateInv
  <2>1. \A s \in Sessions : log[s] # <<>> => log'[s] # <<>>
    BY <1>1, OnlyInsertWritesLog, NewRowIsLast
  <2>2. CASE g # h
    BY <1>1, <2>0, <2>1, <2>2, OthersUnmoved DEF Barred
  <2>3. CASE g = h /\ Request(h)
    <3>1. PICK s \in Sessions : \/ \E t \in Tiers : ConfirmArrives(h, s, t)
                                \/ FailoverArrives(h, s)
                                \/ EndArrives(h, s)
      BY <2>3 DEF Request
    <3>2. PICK t \in Tiers : ConfirmArrives(h, s, t)
      BY <2>0, <2>3, <3>1 DEF FailoverArrives, EndArrives, Become, Idle
    <3>. QED
      BY <2>0, <2>3, <3>2 DEF ConfirmArrives, Become, Idle, Barred
  <2>4. CASE g = h /\ (HandlerStep(h) \/ Fail(h))
    <3>2. ~ Answer(h)
      BY <2>0, <2>4 DEF Answer, Become, Idle
    <3>1. /\ call[h].late /\ call'[h].sid = call[h].sid /\ call'[h].kind = call[h].kind
      BY <2>4, <3>2, RequestKept
    <3>3. /\ call[h].sid \in Sessions /\ log[call[h].sid] # <<>>
          /\ call[h].kind = "confirm"
          /\ call[h].stage \in {"eligible", "verify", "check"}
          /\ call[h].stage = "check" => call[h].to = "PAID"
      BY <2>0, <3>1 DEF Barred
    <3>4. ~ Check(h)
      BY <3>2, <3>3, PaidOnlyFirst DEF Check, Reject
    <3>5. ConfirmEligible(h) \/ VerifyPurchase(h)
      BY <2>4, <3>2, <3>3, <3>4
         DEF HandlerStep, RecordStep, ConfirmStep, SessionStep, Fail, GetTier, Insert,
             ConfirmRefused, ConfirmResumes, Guard, FailoverTier, FailoverRelay,
             FailoverResumes, SelectRelay, SelectNone, EndResumes
    <3>6. \/ call'[h].stage = "verify"
          \/ call'[h].stage = "check" /\ call'[h].to = "PAID"
      <4>1. CASE ConfirmEligible(h)
        <5>1. PICK r \in Relays :
                Become(h, [call[h] EXCEPT !.stage = "verify", !.relay = r])
          BY <3>2, <4>1 DEF ConfirmEligible, Eligible
        <5>. QED
          BY <2>0, <5>1 DEF Become, Call
      <4>2. CASE VerifyPurchase(h)
        <5>1. Record(h, "PAID")
          BY <3>2, <4>2 DEF VerifyPurchase
        <5>. QED
          BY <2>0, <5>1 DEF Record, Become, Call
      <4>. QED
        BY <3>5, <4>1, <4>2
    <3>. QED
      BY <2>1, <2>4, <3>1, <3>3, <3>6 DEF Barred
  <2>. QED
    BY <1>1, <2>2, <2>3, <2>4
<1>2. CASE UNCHANGED <<log, call>>
  BY <1>2 DEF LateInv, Barred
<1>3. CASE Restart
  BY <1>3 DEF Restart, Idle, LateInv, Barred
<1>. QED
  BY <1>1, <1>2, <1>3 DEF Next, PurchaseMined, vars

(* A confirm that arrives after its session has a row never writes one,    *)
(* with usedTxHashes in memory or lost in a restart.                       *)
THEOREM LateConfirmIsBarred == Spec => []LateConfirmWritesNothing
<1>1. Init => OnlyWritten /\ LateInv
  BY DEF Init, Idle, OnlyWritten, LateInv, Barred
<1>2. LateInv => LateConfirmWritesNothing
  BY DEF LateInv, Barred, LateConfirmWritesNothing
<1>. QED
  BY <1>1, <1>2, TypeInvInit, TypeInvInductive, OnlyWrittenInductive,
     LateInvInductive, PTL DEF Spec
-----------------------------------------------------------------------------
(* Sessions no two handlers recorded at once.                              *)

\* overlapped misses no overlap.
OverlapsTracked == \A s \in Sessions : Overlapping(s) => s \in overlapped

LEMMA OverlapsTrackedInductive == TypeInv /\ OverlapsTracked /\ [Next]_vars => OverlapsTracked'
<1>. SUFFICES ASSUME TypeInv, OverlapsTracked, [Next]_vars PROVE OverlapsTracked'
  OBVIOUS
<1>1. ASSUME NEW h \in Handlers, Request(h) \/ HandlerStep(h) \/ Fail(h)
      PROVE  OverlapsTracked'
  BY <1>1, HandlerMoves DEF Moves, Become, OverlapsTracked
<1>2. CASE UNCHANGED <<call, overlapped>>
  BY <1>2 DEF OverlapsTracked, Overlapping
<1>3. CASE Restart
  BY <1>3 DEF Restart, Idle, OverlapsTracked, Overlapping, Recording
<1>. QED
  BY <1>1, <1>2, <1>3 DEF Next, PurchaseMined, vars

LEMMA OverlappedGrows ==
  ASSUME TypeInv, [Next]_vars
  PROVE  overlapped \subseteq overlapped'
<1>1. ASSUME NEW h \in Handlers, Request(h) \/ HandlerStep(h) \/ Fail(h)
      PROVE  overlapped \subseteq overlapped'
  BY <1>1, HandlerMoves DEF Moves, Become
<1>. QED
  BY <1>1 DEF Next, PurchaseMined, Restart, vars

\* Alone with its session, a request still holds the session's current state
\* when it inserts.
HoldsCurrent == \A h \in Handlers :
  Holding(call[h]) /\ call[h].sid \notin overlapped => call[h].cur = CurrentState(call[h].sid)

PathKept == \A s \in Sessions : s \notin overlapped => IsPath(s)

PathInv == PathKept /\ HoldsCurrent

LEMMA PathInvInductive ==
  TypeInv /\ OverlapsTracked /\ PathInv /\ [Next]_vars => PathInv'
<1>. SUFFICES ASSUME TypeInv, OverlapsTracked, PathInv, [Next]_vars PROVE PathInv'
  OBVIOUS
<1>0. overlapped \subseteq overlapped'
  BY OverlappedGrows
<1>1. ASSUME NEW h \in Handlers, Request(h) \/ HandlerStep(h) \/ Fail(h)
      PROVE  PathInv'
  <2>1. ASSUME NEW g \in Handlers, Holding(call'[g]), call'[g].sid \notin overlapped'
        PROVE  call'[g].cur = CurrentState(call[g].sid)'
    <3>1. CASE g = h
      <4>1. /\ call'[h].sid = call[h].sid /\ UNCHANGED log
            /\ HoldsByCheck(h) \/ HoldsByGetTier(h)
        BY <1>1, <2>1, <3>1, HowHeld
      <4>2. CurrentState(call[h].sid)' = CurrentState(call[h].sid)
        BY <4>1 DEF CurrentState
      <4>3. HoldsByGetTier(h) => call'[h].cur = CurrentState(call[h].sid)
        BY <1>0, <2>1, <3>1, <4>1 DEF HoldsByGetTier, PathInv, HoldsCurrent, Holding
      <4>. QED
        BY <3>1, <4>1, <4>2, <4>3 DEF HoldsByCheck
    <3>2. CASE g # h
      <4>1. call'[g] = call[g] /\ call[g].sid \in Sessions
        BY <1>1, <2>1, <3>2, OthersUnmoved DEF TypeInv, Shaped, Holding
      <4>2. call[g].cur = CurrentState(call[g].sid)
        BY <1>0, <2>1, <4>1 DEF PathInv, HoldsCurrent
      <4>3. log'[call[g].sid] = log[call[g].sid]
        <5>1. CASE UNCHANGED log
          BY <5>1
        <5>2. CASE Insert(h)
          <6>1. call[h].sid # call[g].sid
            BY <1>0, <2>1, <3>2, <4>1, <5>2
               DEF OverlapsTracked, Overlapping, Holding, Insert, Recording
          <6>. QED
            BY <4>1, <5>2, <6>1, NewRowIsLast
        <5>. QED
          BY <1>1, <5>1, <5>2, OnlyInsertWritesLog
      <4>. QED
        BY <4>1, <4>2, <4>3 DEF CurrentState
    <3>. QED
      BY <3>1, <3>2
  <2>2. ASSUME NEW s \in Sessions, s \notin overlapped' PROVE IsPath(s)'
    <3>1. IsPath(s)
      BY <1>0, <2>2 DEF PathInv, PathKept
    <3>2. CASE log'[s] = log[s]
      BY <3>1, <3>2 DEF IsPath
    <3>3. CASE Insert(h) /\ call[h].sid = s
      <4>. DEFINE n == Len(log[s])
      <4>1. log[s] \in Seq(Row) /\ log'[s] \in Seq(Row) /\ n \in Nat
        BY <3>3, InsertAppends DEF TypeInv, TypeOK
      <4>2. /\ Len(log'[s]) = n + 1 /\ log'[s][n + 1] = NewRow(h)
            /\ \A i \in 1..n : log'[s][i] = log[s][i]
        BY <3>3, NewRowIsLast
      <4>3. NewRow(h).from = CurrentState(s)
        BY <1>0, <2>2, <3>3 DEF NewRow, PathInv, HoldsCurrent, Holding, Insert
      <4>4. CurrentState(s) = IF n = 0 THEN None ELSE log[s][n].to
        BY <4>1 DEF CurrentState
      <4>5. ASSUME NEW i \in 1..(n + 1)
            PROVE  log'[s][i].from = IF i = 1 THEN None ELSE log'[s][i - 1].to
        <5>1. CASE i \in 1..n
          <6>1. i \in DOMAIN log[s] /\ (i # 1 => i - 1 \in 1..n)
            BY <4>1, <5>1
          <6>2. log[s][i].from = IF i = 1 THEN None ELSE log[s][i - 1].to
            BY <3>1, <6>1 DEF IsPath
          <6>. QED
            BY <4>2, <5>1, <6>1, <6>2
        <5>2. CASE i = n + 1
          BY <4>1, <4>2, <4>3, <4>4, <5>2
        <5>. QED
          BY <4>1, <5>1, <5>2
      <4>6. DOMAIN log'[s] = 1..(n + 1)
        BY <4>1, <4>2
      <4>. QED
        BY <4>5, <4>6 DEF IsPath
    <3>. QED
      BY <1>1, <3>2, <3>3, OnlyInsertWritesLog, NewRowIsLast
  <2>. QED
    BY <2>1, <2>2 DEF PathInv, PathKept, HoldsCurrent, Holding
<1>2. CASE UNCHANGED <<log, call, overlapped>>
  BY <1>2 DEF PathInv, PathKept, IsPath, HoldsCurrent, Holding, CurrentState
<1>3. CASE Restart
  BY <1>3 DEF Restart, Idle, PathInv, PathKept, IsPath, HoldsCurrent, Holding
<1>. QED
  BY <1>1, <1>2, <1>3 DEF Next, PurchaseMined, vars
-----------------------------------------------------------------------------
(* Tokens.                                                                 *)

\* A confirm that has written PAID and has not sent its token yet.
Serving(c) == /\ c.kind = "confirm"
              /\ \/ c.stage = "resume"
                 \/ c.stage \in Recording /\ c.to # "PAID"

OneTokenInv ==
  /\ OneTokenUnlessOverlapped
  /\ \A s \in Sessions : log[s] = <<>> => tokens[s] = <<>>
  /\ \A h \in Handlers : Serving(call[h]) =>
       /\ log[call[h].sid] # <<>>
       /\ call[h].sid \notin overlapped => tokens[call[h].sid] = <<>>

LEMMA HowServing ==
  ASSUME TypeInv, NEW h \in Handlers, Request(h) \/ HandlerStep(h) \/ Fail(h),
         Serving(call'[h])
  PROVE  /\ call'[h].sid = call[h].sid /\ UNCHANGED tokens
         /\ \/ Serving(call[h])
            \/ Insert(h) /\ call[h].kind = "confirm" /\ call[h].to = "PAID"
<1>1. call \in [Handlers -> Call] /\ call[h] \in Call /\ Shaped(call[h])
  BY DEF TypeInv, TypeOK
<1>2. ~ Answer(h)
  BY <1>1 DEF Answer, Become, Idle, Serving, Recording
<1>3. ~ Request(h)
  <2>1. Request(h) => call'[h].stage \in {"eligible", "guard"}
    BY <1>1 DEF Request, ConfirmArrives, FailoverArrives, EndArrives, Become, Idle
  <2>. QED
    BY <2>1 DEF Serving, Recording
<1>4. CASE Check(h)
  <2>. DEFINE cur == CurrentState(call[h].sid)
              c1 == [call[h] EXCEPT !.stage = "insert", !.cur = cur, !.rowTier = call[h].tier]
              c2 == [call[h] EXCEPT !.stage = "getTier", !.cur = cur]
  <2>1. (call'[h] = c1 \/ call'[h] = c2) /\ call[h].stage = "check" /\ UNCHANGED tokens
    BY <1>1, <1>2, <1>4 DEF Check, Reject, Become
  <2>2. \A c \in {c1, c2} : /\ c.sid = call[h].sid /\ c.kind = call[h].kind
                            /\ c.to = call[h].to /\ c.stage # "resume"
    BY <1>1 DEF Call
  <2>. QED
    BY <2>1, <2>2 DEF Serving, Recording
<1>5. CASE GetTier(h)
  BY <1>1, <1>5 DEF GetTier, Become, Call, Serving, Recording
<1>6. CASE Insert(h)
  <2>1. /\ call'[h] = [call[h] EXCEPT !.stage = "resume"]
        /\ call[h].stage = "insert" /\ UNCHANGED tokens
    BY <1>1, <1>6 DEF Insert, Goto, Become
  <2>. QED
    BY <1>1, <1>6, <2>1 DEF Call, Serving, Recording
<1>7. CASE ConfirmResumes(h)
  <2>1. Record(h, NextOfConfirm[call[h].to]) /\ UNCHANGED tokens
    BY <1>2, <1>7 DEF ConfirmResumes
  <2>. DEFINE c == [call[h] EXCEPT !.stage = "check", !.to = NextOfConfirm[call[h].to],
                                   !.cur = None, !.rowTier = None]
  <2>2. call'[h] = c /\ c.sid = call[h].sid
    BY <1>1, <2>1 DEF Record, Become, Call
  <2>. QED
    BY <1>7, <2>1, <2>2 DEF ConfirmResumes, Serving
<1>8. ~ (ConfirmEligible(h) \/ VerifyPurchase(h))
  <2>1. ~ ConfirmEligible(h)
    <3>. SUFFICES ASSUME ConfirmEligible(h) PROVE FALSE
      OBVIOUS
    <3>1. PICK r \in Relays :
            Become(h, [call[h] EXCEPT !.stage = "verify", !.relay = r])
      BY <1>2 DEF ConfirmEligible, Eligible
    <3>. QED
      BY <1>1, <3>1 DEF Become, Call, Serving, Recording
  <2>2. ~ VerifyPurchase(h)
    <3>. SUFFICES ASSUME VerifyPurchase(h) PROVE FALSE
      OBVIOUS
    <3>1. Record(h, "PAID")
      BY <1>2 DEF VerifyPurchase
    <3>2. call'[h].stage = "check" /\ call'[h].to = "PAID"
      BY <1>1, <3>1 DEF Record, Become, Call
    <3>. QED
      BY <3>2 DEF Serving
  <2>. QED
    BY <2>1, <2>2
<1>9. ~ SessionStep(h)
  <2>. SUFFICES ASSUME SessionStep(h) PROVE FALSE
    OBVIOUS
  <2>1. call[h].kind \in {"failover", "end"}
    BY <1>1 DEF SessionStep, Guard, FailoverTier, FailoverRelay, FailoverResumes,
                SelectRelay, SelectNone, EndResumes, Shaped
  <2>2. call'[h].kind = call[h].kind
    BY <1>2, RequestKept DEF HandlerStep
  <2>. QED
    BY <2>1, <2>2 DEF Serving
<1>. QED
  BY <1>2, <1>3, <1>4, <1>5, <1>6, <1>7, <1>8, <1>9
     DEF HandlerStep, RecordStep, ConfirmStep, ConfirmRefused, Fail

LEMMA OneTokenInvInductive ==
  TypeInv /\ OnlyWritten /\ OverlapsTracked /\ PathInv /\ AuditInv /\ OneTokenInv
    /\ [Next]_vars => OneTokenInv'
<1>. SUFFICES ASSUME TypeInv, OnlyWritten, OverlapsTracked, PathInv, AuditInv, OneTokenInv,
                     [Next]_vars
              PROVE  OneTokenInv'
  OBVIOUS
<1>0. overlapped \subseteq overlapped'
  BY OverlappedGrows
<1>1. ASSUME NEW h \in Handlers, Request(h) \/ HandlerStep(h) \/ Fail(h)
      PROVE  OneTokenInv'
  <2>1. \A s \in Sessions : log[s] # <<>> => log'[s] # <<>>
    BY <1>1, OnlyInsertWritesLog, NewRowIsLast
  \* Only a serving request changes a session's tokens, and only its own's.
  <2>2. ASSUME NEW s \in Sessions, tokens'[s] # tokens[s]
        PROVE  /\ Serving(call[h]) /\ call[h].sid = s /\ call[h].stage = "resume"
               /\ UNCHANGED log
               /\ s \notin overlapped => Len(tokens'[s]) = 1
    <3>1. ConfirmResumes(h)
      BY <1>1, <2>2, OnlyConfirmIssuesToken
    <3>. DEFINE t == [relay |-> call[h].relay, tier |-> call[h].tier]
    <3>2. /\ call[h].stage = "resume" /\ call[h].kind = "confirm" /\ UNCHANGED log
          /\ tokens' = [tokens EXCEPT ![call[h].sid] = Append(@, t)]
      BY <2>2, <3>1 DEF ConfirmResumes
    <3>3. tokens \in [Sessions -> Seq(Token)] /\ call[h].sid = s
      BY <2>2, <3>2 DEF TypeInv, TypeOK
    <3>4. Serving(call[h])
      BY <3>2 DEF Serving
    <3>5. s \notin overlapped => tokens'[s] = Append(<<>>, t)
      BY <3>2, <3>3, <3>4 DEF OneTokenInv
    <3>6. Len(Append(<<>>, t)) = 1
      OBVIOUS
    <3>. QED
      BY <3>2, <3>3, <3>4, <3>5, <3>6
  <2>3. ASSUME NEW s \in Sessions, s \notin overlapped' PROVE Len(tokens'[s]) <= 1
    <3>1. CASE tokens'[s] = tokens[s]
      BY <1>0, <2>3, <3>1 DEF OneTokenInv, OneTokenUnlessOverlapped
    <3>2. CASE tokens'[s] # tokens[s]
      <4>1. Len(tokens'[s]) = 1
        BY <1>0, <2>2, <2>3, <3>2
      <4>. QED
        BY <4>1
    <3>. QED
      BY <3>1, <3>2
  <2>4. ASSUME NEW s \in Sessions, log'[s] = <<>> PROVE tokens'[s] = <<>>
    BY <2>1, <2>2, <2>4 DEF OneTokenInv
  <2>5. ASSUME NEW g \in Handlers, Serving(call'[g])
        PROVE  /\ log'[call'[g].sid] # <<>>
               /\ call'[g].sid \notin overlapped' => tokens'[call'[g].sid] = <<>>
    <3>1. CASE g = h
      <4>1. call'[h].sid = call[h].sid /\ UNCHANGED tokens
        BY <1>1, <2>5, <3>1, HowServing
      <4>2. CASE Serving(call[h])
        <5>1. call[h].sid \in Sessions
          BY <4>2 DEF TypeInv, Shaped, Serving, Recording
        <5>. QED
          BY <1>0, <2>1, <3>1, <4>1, <4>2, <5>1 DEF OneTokenInv
      <4>3. CASE Insert(h) /\ call[h].kind = "confirm" /\ call[h].to = "PAID"
        <5>1. call[h].sid \in Sessions /\ Holding(call[h]) /\ log'[call[h].sid] # <<>>
          BY <4>3, InsertAppends, NewRowIsLast DEF Insert, Holding
        <5>2. call[h].sid \notin overlapped => tokens[call[h].sid] = <<>>
          <6>. SUFFICES ASSUME call[h].sid \notin overlapped
                        PROVE  log[call[h].sid] = <<>>
            BY <5>1 DEF OneTokenInv
          <6>1. call[h].cur = CurrentState(call[h].sid)
            BY <5>1 DEF PathInv, HoldsCurrent
          <6>2. Permitted(call[h].cur, "PAID")
            BY <4>3, <5>1 DEF AuditInv, ReadsRight
          <6>. QED
            BY <5>1, <6>1, <6>2, PaidOnlyFirst
        <5>. QED
          BY <1>0, <3>1, <4>1, <5>1, <5>2
      <4>. QED
        BY <1>1, <2>5, <3>1, <4>2, <4>3, HowServing
    <3>2. CASE g # h
      <4>1. call'[g] = call[g]
        BY <1>1, <3>2, OthersUnmoved
      <4>2. call[g].sid \in Sessions /\ call[g].stage \in Recording
        BY <2>5, <4>1 DEF TypeInv, Shaped, Serving, Recording
      <4>3. tokens'[call[g].sid] # tokens[call[g].sid] => call[g].sid \in overlapped
        BY <2>2, <3>2, <4>2 DEF OverlapsTracked, Overlapping, Recording
      <4>. QED
        BY <1>0, <2>1, <2>5, <4>1, <4>2, <4>3 DEF OneTokenInv
    <3>. QED
      BY <3>1, <3>2
  <2>. QED
    BY <2>3, <2>4, <2>5 DEF OneTokenInv, OneTokenUnlessOverlapped, Serving
<1>2. CASE UNCHANGED <<log, call, tokens, overlapped>>
  BY <1>2 DEF OneTokenInv, OneTokenUnlessOverlapped, Serving
<1>3. CASE Restart
  BY <1>3 DEF Restart, Idle, OneTokenInv, OneTokenUnlessOverlapped, Serving, Recording
<1>. QED
  BY <1>1, <1>2, <1>3 DEF Next, PurchaseMined, vars

(* A payment yields at most one token unless two handlers recorded its     *)
(* session at once; restarts and failed queries do not matter.             *)
THEOREM OneTokenUnlessOverlap == Spec => []OneTokenUnlessOverlapped
<1>1. Init => OnlyWritten /\ OverlapsTracked /\ PathInv /\ AuditInv /\ OneTokenInv
  BY DEF Init, Idle, OnlyWritten, OverlapsTracked, Overlapping, Recording, PathInv,
         PathKept, IsPath, HoldsCurrent, Holding, AuditInv, AuditTrail,
         ReadsRight, OneTokenInv, OneTokenUnlessOverlapped, Serving
<1>2. OneTokenInv => OneTokenUnlessOverlapped
  BY DEF OneTokenInv
<1>. QED
  BY <1>1, <1>2, TypeInvInit, TypeInvInductive, OnlyWrittenInductive,
     OverlapsTrackedInductive, PathInvInductive, AuditInvInductive,
     OneTokenInvInductive, PTL DEF Spec
-----------------------------------------------------------------------------
(* Tiers and relays.                                                       *)

\* What a request holds of tier and relay agrees with the purchase.
Honest(c) ==
  /\ c.stage \in Recording => purchase[c.sid] # None
  /\ c.kind = "confirm" /\ c.stage \in {"verify"} \cup Recording => c.tier \in Offers[c.relay]
  /\ c.kind = "confirm" /\ c.stage \in Recording => c.tier = purchase[c.sid]
  /\ c.kind = "failover" /\ c.stage \in {"relay"} \cup Recording => c.tier = purchase[c.sid]
  /\ c.kind = "failover" /\ c.stage \in Recording => c.tier \in Offers[c.relay]
  /\ c.stage \in {"insert", "resume"} => c.rowTier = purchase[c.sid]

HonestInv == RowsServePaidTier /\ \A h \in Handlers : Honest(call[h])

HonestMove(h) == \E c \in Call : Honest(c) /\ Become(h, c)

LEMMA AnswerIsHonest ==
  ASSUME NEW h \in Handlers, Answer(h)
  PROVE  HonestMove(h)
<1>1. Honest(Idle)
  BY DEF Honest, Idle, Recording
<1>. QED
  BY <1>1, IdleIsCall DEF Answer, HonestMove

LEMMA RecordIsHonest ==
  ASSUME TypeInv, NEW h \in Handlers, NEW to \in States, Record(h, to),
         purchase[call[h].sid] # None,
         call[h].kind \in {"confirm", "failover"} =>
           call[h].tier = purchase[call[h].sid] /\ call[h].tier \in Offers[call[h].relay]
  PROVE  HonestMove(h)
<1>. DEFINE c == [call[h] EXCEPT !.stage = "check", !.to = to,
                                 !.cur = None, !.rowTier = None]
<1>1. call[h] \in Call
  BY DEF TypeInv, TypeOK
<1>2. c \in Call
  BY <1>1 DEF Call, Stages, Recording
<1>3. /\ c.stage = "check" /\ c.sid = call[h].sid /\ c.kind = call[h].kind
      /\ c.tier = call[h].tier /\ c.relay = call[h].relay
  BY <1>1 DEF Call
<1>4. Honest(c)
  BY <1>3 DEF Honest
<1>. QED
  BY <1>2, <1>4 DEF Record, HonestMove

\* What is read from the log was paid for.
LEMMA LogIsPaid ==
  ASSUME TypeInv, HonestInv, NEW s \in Sessions
  PROVE  /\ log[s] # <<>> => purchase[s] # None
         /\ \A t \in Tiers : IsCurrentTier(s, t) => t = purchase[s]
         /\ \A r \in Relays : IsCurrentRelay(s, r) => purchase[s] \in Offers[r]
<1>1. \A i \in DOMAIN log[s] :
        /\ log[s][i].tier = purchase[s] /\ purchase[s] # None
        /\ log[s][i].relay # None => purchase[s] \in Offers[log[s][i].relay]
  BY DEF HonestInv, RowsServePaidTier
<1>2. log[s] # <<>> => purchase[s] # None
  BY <1>1, KnownState DEF TypeInv, TypeOK
<1>3. \A t \in Tiers : IsCurrentTier(s, t) => t = purchase[s]
  BY <1>1 DEF IsCurrentTier
<1>4. \A r \in Relays : IsCurrentRelay(s, r) => purchase[s] \in Offers[r]
  BY <1>1, NoneAssumption DEF IsCurrentRelay
<1>. QED
  BY <1>2, <1>3, <1>4

LEMMA RecordStepHonest ==
  ASSUME TypeInv, HonestInv, NEW h \in Handlers, RecordStep(h)
  PROVE  HonestMove(h)
<1>1. call[h] \in Call /\ Shaped(call[h]) /\ Honest(call[h])
  BY DEF TypeInv, TypeOK, HonestInv
<1>2. CASE Check(h)
  <2>. DEFINE cur == CurrentState(call[h].sid)
              c1 == [call[h] EXCEPT !.stage = "insert", !.cur = cur, !.rowTier = call[h].tier]
              c2 == [call[h] EXCEPT !.stage = "getTier", !.cur = cur]
  <2>1. call[h].stage = "check" /\ call[h].kind \in Kinds /\ call[h].sid \in Sessions
    BY <1>1, <1>2 DEF Check, Shaped
  <2>2. /\ cur \in States \cup {None} /\ call[h].tier \in Tiers \cup {None}
        /\ "insert" \in Stages /\ "getTier" \in Stages
    BY <1>1, <2>1, CurrentStateTyped DEF TypeInv, Call, Stages, Recording
  <2>3. c1 \in Call /\ c2 \in Call
    <3>. HIDE DEF cur
    <3>1. c1 \in Call
      BY <1>1, <2>2, ReadingTyped, Zenon
    <3>2. c2 \in Call
      BY <1>1, <2>2 DEF Call
    <3>. QED
      BY <3>1, <3>2
  <2>4. /\ c1.stage = "insert" /\ c1.sid = call[h].sid /\ c1.kind = call[h].kind
        /\ c1.tier = call[h].tier /\ c1.relay = call[h].relay /\ c1.rowTier = call[h].tier
        /\ c2.stage = "getTier" /\ c2.sid = call[h].sid /\ c2.kind = call[h].kind
        /\ c2.tier = call[h].tier /\ c2.relay = call[h].relay
    BY <1>1 DEF Call
  <2>5. Answer(h) \/ (GivesTier(call[h]) /\ Become(h, c1)) \/ Become(h, c2)
    BY <1>2 DEF Check, Reject
  <2>. HIDE DEF c1, c2
  <2>6. GivesTier(call[h]) => call[h].kind \in {"confirm", "failover"}
    BY <1>1, <2>1 DEF GivesTier, Shaped, Recording, Kinds
  <2>7. GivesTier(call[h]) => Honest(c1)
    BY <1>1, <2>1, <2>4, <2>6 DEF Honest, Recording
  <2>8. Honest(c2)
    BY <1>1, <2>1, <2>4 DEF Honest, Recording
  <2>. QED
    BY <2>3, <2>5, <2>7, <2>8, AnswerIsHonest DEF HonestMove
<1>3. CASE GetTier(h)
  <2>1. PICK t \in Tiers : /\ IsCurrentTier(call[h].sid, t)
                           /\ Become(h, [call[h] EXCEPT !.stage = "insert", !.rowTier = t])
    BY <1>3, Zenon DEF GetTier
  <2>. DEFINE c == [call[h] EXCEPT !.stage = "insert", !.rowTier = t]
  <2>2. call[h].stage = "getTier" /\ call[h].sid \in Sessions
    BY <1>1, <1>3 DEF GetTier, Shaped
  <2>3. t = purchase[call[h].sid]
    BY <2>1, <2>2, LogIsPaid
  <2>4. /\ c \in Call /\ c.stage = "insert" /\ c.sid = call[h].sid /\ c.kind = call[h].kind
        /\ c.tier = call[h].tier /\ c.relay = call[h].relay /\ c.rowTier = t
    BY <1>1 DEF Call, Stages, Recording
  <2>5. Become(h, c)
    BY <2>1
  <2>. HIDE DEF c
  <2>6. Honest(c)
    BY <1>1, <2>2, <2>3, <2>4 DEF Honest, Recording
  <2>. QED
    BY <2>4, <2>5, <2>6 DEF HonestMove
<1>4. CASE Insert(h)
  <2>. DEFINE c == [call[h] EXCEPT !.stage = "resume"]
  <2>1. call[h].stage = "insert"
    BY <1>4 DEF Insert
  <2>2. /\ c \in Call /\ c.stage = "resume" /\ c.sid = call[h].sid /\ c.kind = call[h].kind
        /\ c.tier = call[h].tier /\ c.relay = call[h].relay /\ c.rowTier = call[h].rowTier
    BY <1>1 DEF Call, Stages, Recording
  <2>3. Become(h, c)
    BY <1>4 DEF Insert, Goto
  <2>. HIDE DEF c
  <2>4. Honest(c)
    BY <1>1, <2>1, <2>2 DEF Honest, Recording
  <2>. QED
    BY <2>2, <2>3, <2>4 DEF HonestMove
<1>. QED
  BY <1>2, <1>3, <1>4 DEF RecordStep

LEMMA ConfirmStepHonest ==
  ASSUME TypeInv, HonestInv, NEW h \in Handlers, ConfirmStep(h)
  PROVE  HonestMove(h)
<1>1. call[h] \in Call /\ Shaped(call[h]) /\ Honest(call[h])
  BY DEF TypeInv, TypeOK, HonestInv
<1>2. CASE ConfirmRefused(h)
  BY <1>2, AnswerIsHonest DEF ConfirmRefused
<1>3. CASE ConfirmEligible(h)
  <2>1. PICK r \in Relays :
          /\ call[h].tier \in Offers[r]
          /\ \/ Answer(h)
             \/ Become(h, [call[h] EXCEPT !.stage = "verify", !.relay = r])
    BY <1>3, Zenon DEF ConfirmEligible, Eligible
  <2>. DEFINE c == [call[h] EXCEPT !.stage = "verify", !.relay = r]
  <2>2. /\ c \in Call /\ c.stage = "verify" /\ c.kind = call[h].kind
        /\ c.tier = call[h].tier /\ c.relay = r
    BY <1>1 DEF Call, Stages
  <2>3. call[h].kind = "confirm"
    BY <1>1, <1>3 DEF ConfirmEligible, Shaped
  <2>4. Answer(h) \/ Become(h, c)
    BY <2>1
  <2>. HIDE DEF c
  <2>5. Honest(c)
    BY <2>1, <2>2, <2>3 DEF Honest, Recording
  <2>. QED
    BY <2>2, <2>4, <2>5, AnswerIsHonest DEF HonestMove
<1>4. CASE VerifyPurchase(h)
  <2>1. Answer(h) \/ (Matches(call[h]) /\ Record(h, "PAID"))
    BY <1>4 DEF VerifyPurchase
  <2>2. /\ call[h].stage = "verify" /\ call[h].kind = "confirm"
        /\ call[h].tier \in Tiers
    BY <1>1, <1>4 DEF VerifyPurchase, Shaped
  <2>3. call[h].tier \in Offers[call[h].relay]
    BY <1>1, <2>2 DEF Honest
  <2>4. Matches(call[h]) => /\ call[h].tier = purchase[call[h].sid]
                            /\ purchase[call[h].sid] # None
    BY <2>2, NoneAssumption DEF Matches
  <2>. QED
    BY <2>1, <2>3, <2>4, AnswerIsHonest, RecordIsHonest DEF States
<1>5. CASE ConfirmResumes(h)
  <2>1. /\ call[h].stage = "resume" /\ call[h].kind = "confirm"
        /\ call[h].to \in ConfirmTargets
    BY <1>1, <1>5 DEF ConfirmResumes, Shaped, Recording
  <2>2. Answer(h) \/ (call[h].to # "ACTIVE" /\ Record(h, NextOfConfirm[call[h].to]))
    BY <1>5 DEF ConfirmResumes, TokenDue
  <2>3. call[h].to # "ACTIVE" => NextOfConfirm[call[h].to] \in States
    BY <2>1 DEF NextOfConfirm, ConfirmTargets, States
  <2>4. /\ purchase[call[h].sid] # None /\ call[h].tier = purchase[call[h].sid]
        /\ call[h].tier \in Offers[call[h].relay]
    BY <1>1, <2>1 DEF Honest, Recording
  <2>. QED
    BY <2>2, <2>3, <2>4, AnswerIsHonest, RecordIsHonest
<1>. QED
  BY <1>2, <1>3, <1>4, <1>5 DEF ConfirmStep

LEMMA SessionStepHonest ==
  ASSUME TypeInv, HonestInv, NEW h \in Handlers, SessionStep(h)
  PROVE  HonestMove(h)
<1>1. call[h] \in Call /\ Shaped(call[h]) /\ Honest(call[h])
  BY DEF TypeInv, TypeOK, HonestInv
<1>2. CASE Guard(h)
  <2>. DEFINE c == [call[h] EXCEPT !.stage = "tier"]
  <2>1. \/ Answer(h)
        \/ /\ CurrentState(call[h].sid) = "ACTIVE"
           /\ \/ call[h].kind = "end" /\ Record(h, "EXPIRED_NORMAL")
              \/ Become(h, c)
    BY <1>2 DEF Guard, Goto
  <2>2. call[h].stage = "guard" /\ call[h].sid \in Sessions
        /\ call[h].kind \in {"failover", "end"}
    BY <1>1, <1>2 DEF Guard, Shaped
  <2>3. CurrentState(call[h].sid) = "ACTIVE" => purchase[call[h].sid] # None
    BY <2>2, KnownState, LogIsPaid, NoneAssumption DEF States
  <2>4. c \in Call /\ c.stage = "tier" /\ c.kind = call[h].kind
    BY <1>1 DEF Call, Stages
  <2>. HIDE DEF c
  <2>5. Honest(c)
    BY <2>2, <2>4 DEF Honest, Recording
  <2>6. call[h].kind = "end" /\ Record(h, "EXPIRED_NORMAL")
          /\ CurrentState(call[h].sid) = "ACTIVE" => HonestMove(h)
    BY <2>3, RecordIsHonest DEF States
  <2>. QED
    BY <2>1, <2>4, <2>5, <2>6, AnswerIsHonest DEF HonestMove
<1>3. CASE FailoverTier(h)
  <2>1. PICK t \in Tiers : /\ IsCurrentTier(call[h].sid, t)
                           /\ Become(h, [call[h] EXCEPT !.stage = "relay", !.tier = t])
    BY <1>3, Zenon DEF FailoverTier
  <2>. DEFINE c == [call[h] EXCEPT !.stage = "relay", !.tier = t]
  <2>2. call[h].stage = "tier" /\ call[h].kind = "failover" /\ call[h].sid \in Sessions
    BY <1>1, <1>3 DEF FailoverTier, Shaped
  <2>3. t = purchase[call[h].sid]
    BY <2>1, <2>2, LogIsPaid
  <2>4. /\ c \in Call /\ c.stage = "relay" /\ c.kind = call[h].kind
        /\ c.tier = t /\ c.sid = call[h].sid
    BY <1>1 DEF Call, Stages
  <2>5. Become(h, c)
    BY <2>1
  <2>. HIDE DEF c
  <2>6. Honest(c)
    BY <2>2, <2>3, <2>4 DEF Honest, Recording
  <2>. QED
    BY <2>4, <2>5, <2>6 DEF HonestMove
<1>4. CASE FailoverRelay(h)
  <2>. DEFINE k(r) == [call[h] EXCEPT !.stage = "check", !.to = "RELAY_UNREACHABLE",
                                      !.relay = r]
  <2>1. PICK r \in Relays : IsCurrentRelay(call[h].sid, r) /\ Become(h, k(r))
    BY <1>4, Zenon DEF FailoverRelay
  <2>2. /\ call[h].stage = "relay" /\ call[h].kind = "failover"
        /\ call[h].sid \in Sessions /\ call[h].tier \in Tiers
    BY <1>1, <1>4 DEF FailoverRelay, Shaped
  <2>3. call[h].tier = purchase[call[h].sid] /\ purchase[call[h].sid] # None
    BY <1>1, <2>2, NoneAssumption DEF Honest
  <2>4. call[h].tier \in Offers[r]
    BY <2>1, <2>2, <2>3, LogIsPaid
  <2>. DEFINE c == k(r)
  <2>5. /\ c \in Call /\ c.stage = "check" /\ c.kind = call[h].kind /\ c.sid = call[h].sid
        /\ c.tier = call[h].tier /\ c.relay = r
    BY <1>1 DEF Call, Stages, Recording, States
  <2>6. Become(h, c)
    BY <2>1
  <2>. HIDE DEF c
  <2>7. Honest(c)
    BY <2>2, <2>3, <2>4, <2>5 DEF Honest
  <2>. QED
    BY <2>5, <2>6, <2>7 DEF HonestMove
<1>5. CASE FailoverResumes(h)
  <2>. DEFINE c == [call[h] EXCEPT !.stage = "select"]
  <2>1. /\ call[h].stage = "resume" /\ call[h].kind = "failover"
        /\ call[h].to \in FailoverTargets
    BY <1>1, <1>5 DEF FailoverResumes, Shaped, Recording
  <2>2. \/ Record(h, "FAILOVER_SELECT") \/ Become(h, c)
        \/ Record(h, "ACTIVE") \/ Answer(h)
    BY <1>5, <2>1 DEF FailoverResumes, FailoverTargets, Goto
  <2>3. /\ purchase[call[h].sid] # None /\ call[h].tier = purchase[call[h].sid]
        /\ call[h].tier \in Offers[call[h].relay]
    BY <1>1, <2>1 DEF Honest, Recording
  <2>4. /\ c \in Call /\ c.stage = "select" /\ c.kind = call[h].kind /\ c.sid = call[h].sid
        /\ c.tier = call[h].tier /\ c.relay = call[h].relay
    BY <1>1 DEF Call, Stages, Recording
  <2>. HIDE DEF c
  <2>5. Honest(c)
    BY <2>1, <2>3, <2>4 DEF Honest
  <2>. QED
    BY <2>2, <2>3, <2>4, <2>5, AnswerIsHonest, RecordIsHonest DEF HonestMove, States
<1>6. CASE SelectRelay(h)
  <2>. DEFINE k(r) == [call[h] EXCEPT !.stage = "check", !.to = "TUNNEL_OPEN", !.relay = r,
                                      !.cur = None, !.rowTier = None]
  <2>1. PICK r \in Relays : call[h].tier \in Offers[r] /\ Become(h, k(r))
    BY <1>6, Zenon DEF SelectRelay, Eligible
  <2>2. call[h].stage = "select" /\ call[h].kind = "failover"
    BY <1>1, <1>6 DEF SelectRelay, Shaped
  <2>3. purchase[call[h].sid] # None /\ call[h].tier = purchase[call[h].sid]
    BY <1>1, <2>2 DEF Honest, Recording
  <2>. DEFINE c == k(r)
  <2>4. /\ c \in Call /\ c.stage = "check" /\ c.kind = call[h].kind /\ c.sid = call[h].sid
        /\ c.tier = call[h].tier /\ c.relay = r
    BY <1>1 DEF Call, Stages, Recording, States
  <2>5. Become(h, c)
    BY <2>1
  <2>. HIDE DEF c
  <2>6. Honest(c)
    BY <2>1, <2>2, <2>3, <2>4 DEF Honest
  <2>. QED
    BY <2>4, <2>5, <2>6 DEF HonestMove
<1>. QED
  BY <1>2, <1>3, <1>4, <1>5, <1>6, AnswerIsHonest DEF SessionStep, SelectNone, EndResumes

LEMMA RequestHonest ==
  ASSUME TypeInv, NEW h \in Handlers, Request(h)
  PROVE  HonestMove(h)
<1>1. PICK c \in Call : Shaped(c) /\ Become(h, c)
  BY RequestMoves DEF Moves
<1>0. call \in [Handlers -> Call]
  BY DEF TypeInv, TypeOK
<1>2. call'[h] = c
  BY <1>0, <1>1 DEF Become
<1>3. PICK s \in Sessions : \/ \E t \in Tiers : ConfirmArrives(h, s, t)
                            \/ FailoverArrives(h, s)
                            \/ EndArrives(h, s)
  BY DEF Request
<1>5. call'[h].stage \in {"eligible", "guard"}
  <2>1. ASSUME NEW t \in Tiers, ConfirmArrives(h, s, t)
        PROVE  call'[h].stage = "eligible"
    BY <1>0, <2>1 DEF ConfirmArrives, Become, Idle
  <2>2. FailoverArrives(h, s) => call'[h].stage = "guard"
    BY <1>0 DEF FailoverArrives, Become, Idle
  <2>3. EndArrives(h, s) => call'[h].stage = "guard"
    BY <1>0 DEF EndArrives, Become, Idle
  <2>. QED
    BY <1>3, <2>1, <2>2, <2>3
<1>4. Honest(c)
  BY <1>2, <1>5 DEF Honest, Recording
<1>. QED
  BY <1>1, <1>4 DEF HonestMove

LEMMA HandlerHonest ==
  ASSUME TypeInv, HonestInv, NEW h \in Handlers, Request(h) \/ HandlerStep(h) \/ Fail(h)
  PROVE  HonestMove(h)
BY RequestHonest, RecordStepHonest, ConfirmStepHonest, SessionStepHonest, AnswerIsHonest
   DEF HandlerStep, Fail

\* The row a request is about to insert was paid for.
LEMMA NewRowIsPaid ==
  ASSUME TypeInv, HonestInv, NEW h \in Handlers, Insert(h)
  PROVE  /\ NewRow(h).tier = purchase[call[h].sid] /\ purchase[call[h].sid] # None
         /\ NewRow(h).relay # None => purchase[call[h].sid] \in Offers[NewRow(h).relay]
         /\ NewRow(h).relay = None => NewRow(h).to = "EXPIRED_NORMAL"
<1>1. Shaped(call[h]) /\ Honest(call[h]) /\ call[h].stage = "insert" /\ call[h].kind \in Kinds
  BY DEF TypeInv, HonestInv, Insert, Shaped
<1>2. /\ NewRow(h).tier = call[h].rowTier /\ NewRow(h).to = call[h].to
      /\ NewRow(h).relay = IF call[h].kind = "end" THEN None ELSE call[h].relay
  BY DEF NewRow, RowRelay
<1>3. call[h].rowTier = purchase[call[h].sid] /\ purchase[call[h].sid] # None
  BY <1>1 DEF Honest, Recording
<1>4. call[h].kind # "end" => /\ purchase[call[h].sid] \in Offers[call[h].relay]
                              /\ call[h].relay # None
  BY <1>1, NoneAssumption DEF Honest, Shaped, Recording, Kinds
<1>5. call[h].kind = "end" => call[h].to = "EXPIRED_NORMAL"
  BY <1>1 DEF Shaped, Recording
<1>. QED
  BY <1>2, <1>3, <1>4, <1>5

LEMMA HonestInvInductive == TypeInv /\ HonestInv /\ [Next]_vars => HonestInv'
<1>. SUFFICES ASSUME TypeInv, HonestInv, [Next]_vars PROVE HonestInv'
  OBVIOUS
<1>1. ASSUME NEW h \in Handlers, Request(h) \/ HandlerStep(h) \/ Fail(h)
      PROVE  HonestInv'
  <2>0. UNCHANGED purchase
    BY <1>1, PurchaseUntouched
  <2>1. ASSUME NEW g \in Handlers PROVE Honest(call[g])'
    <3>1. PICK c \in Call : Honest(c) /\ Become(h, c)
      BY <1>1, HandlerHonest DEF HonestMove
    <3>2. Honest(call'[g])
      BY <3>1 DEF Become, HonestInv, TypeInv, TypeOK
    <3>. QED
      BY <2>0, <3>2 DEF Honest
  <2>2. RowsServePaidTier'
    <3>1. CASE UNCHANGED log
      BY <2>0, <3>1 DEF HonestInv, RowsServePaidTier
    <3>2. CASE Insert(h)
      <4>. SUFFICES ASSUME NEW s \in Sessions, NEW i \in DOMAIN log'[s]
                    PROVE  /\ log'[s][i].tier = purchase[s] /\ purchase[s] # None
                           /\ log'[s][i].relay # None => purchase[s] \in Offers[log'[s][i].relay]
                           /\ log'[s][i].relay = None => log'[s][i].to = "EXPIRED_NORMAL"
        BY <2>0 DEF RowsServePaidTier
      <4>1. log[s] \in Seq(Row) /\ log'[s] \in Seq(Row)
        BY <3>2, InsertAppends DEF TypeInv, TypeOK
      <4>2. CASE i \in DOMAIN log[s]
        <5>1. log'[s][i] = log[s][i]
          BY <1>1, <4>1, <4>2, LogGrows
        <5>. QED
          BY <4>2, <5>1 DEF HonestInv, RowsServePaidTier
      <4>3. CASE i \notin DOMAIN log[s]
        <5>1. s = call[h].sid /\ log'[s][i] = NewRow(h)
          BY <3>2, <4>1, <4>3, NewRowIsLast
        <5>. QED
          BY <3>2, <5>1, NewRowIsPaid
      <4>. QED
        BY <4>2, <4>3
    <3>. QED
      BY <1>1, <3>1, <3>2, OnlyInsertWritesLog
  <2>. QED
    BY <2>1, <2>2 DEF HonestInv
<1>2. ASSUME NEW s \in Sessions, NEW t \in Tiers, PurchaseMined(s, t)
      PROVE  HonestInv'
  <2>1. /\ purchase[s] = None /\ UNCHANGED <<log, call>>
        /\ \A r \in Sessions : r # s => purchase'[r] = purchase[r]
    BY <1>2 DEF PurchaseMined, TypeInv, TypeOK
  <2>2. RowsServePaidTier'
    BY <2>1 DEF HonestInv, RowsServePaidTier
  <2>3. ASSUME NEW h \in Handlers PROVE Honest(call[h])'
    <3>1. Honest(call[h]) /\ Shaped(call[h]) /\ call[h] \in Call
      BY DEF HonestInv, TypeInv, TypeOK
    <3>2. CASE call[h].sid = s
      <4>1. call[h].stage \notin Recording
        BY <2>1, <3>1, <3>2 DEF Honest
      <4>2. ~ (call[h].kind = "failover" /\ call[h].stage = "relay")
        BY <2>1, <3>1, <3>2, NoneAssumption DEF Honest, Shaped
      <4>. QED
        BY <2>1, <3>1, <4>1, <4>2 DEF Honest, Recording
    <3>3. CASE call[h].sid # s
      <4>1. call[h].stage # "idle" => purchase'[call[h].sid] = purchase[call[h].sid]
        BY <2>1, <3>1, <3>3 DEF Shaped
      <4>. QED
        BY <2>1, <3>1, <4>1 DEF Honest, Recording
    <3>. QED
      BY <3>2, <3>3
  <2>. QED
    BY <2>2, <2>3 DEF HonestInv
<1>3. CASE Restart
  BY <1>3 DEF Restart, Idle, HonestInv, Honest, RowsServePaidTier, Recording
<1>4. CASE UNCHANGED vars
  BY <1>4 DEF vars, HonestInv, Honest, RowsServePaidTier
<1>. QED
  BY <1>1, <1>2, <1>3, <1>4 DEF Next

LEMMA HonestInvInit == Init => HonestInv
BY DEF Init, Idle, HonestInv, Honest, RowsServePaidTier, Recording

(* Whatever handlers interleave, fail or restart, every row of a session   *)
(* carries the tier paid on chain, and every relay it names offers it.     *)
THEOREM RowsServePaid == Spec => []RowsServePaidTier
<1>1. HonestInv => RowsServePaidTier
  BY DEF HonestInv
<1>. QED
  BY <1>1, TypeInvInit, TypeInvInductive, HonestInvInit, HonestInvInductive, PTL DEF Spec
-----------------------------------------------------------------------------
(* What a token was issued for.                                            *)

\* A confirm request that resumes has its row in the log.
RecordsPaid(c) ==
  c.kind = "confirm" /\ c.stage = "resume" =>
    \E j \in DOMAIN log[c.sid] : log[c.sid][j].to = c.to /\ log[c.sid][j].relay = c.relay

TokenInv == TokenIsPaidFor /\ \A h \in Handlers : RecordsPaid(call[h])

LEMMA ResumesByInsert ==
  ASSUME TypeInv, NEW h \in Handlers, Request(h) \/ HandlerStep(h) \/ Fail(h),
         call'[h].stage = "resume"
  PROVE  Insert(h)
<1>0. call'[h].stage = "resume"
  OBVIOUS
<1>1. call \in [Handlers -> Call] /\ call[h] \in Call
  BY DEF TypeInv, TypeOK
<1>2. ~ Answer(h)
  BY <1>0, <1>1 DEF Answer, Become, Idle
<1>3. ASSUME NEW to, Record(h, to) PROVE FALSE
  <2>. DEFINE c == [call[h] EXCEPT !.stage = "check", !.to = to,
                                   !.cur = None, !.rowTier = None]
  <2>1. call'[h] = c
    BY <1>1, <1>3 DEF Record, Become
  <2>2. c.stage = "check"
    BY <1>1 DEF Call
  <2>. QED
    BY <1>0, <2>1, <2>2
<1>4. \A st : st # "resume" => ~ Goto(h, st)
  BY <1>0, <1>1 DEF Goto, Become, Call
<1>5. ~ Request(h)
  BY <1>0, <1>1 DEF Request, ConfirmArrives, FailoverArrives, EndArrives, Become, Idle
<1>6. ~ Check(h)
  <2>. SUFFICES ASSUME Check(h) PROVE FALSE
    OBVIOUS
  <2>. DEFINE cur == CurrentState(call[h].sid)
              c1 == [call[h] EXCEPT !.stage = "insert", !.cur = cur, !.rowTier = call[h].tier]
              c2 == [call[h] EXCEPT !.stage = "getTier", !.cur = cur]
  <2>1. Become(h, c1) \/ Become(h, c2)
    BY <1>2 DEF Check, Reject
  <2>2. call'[h] = c1 \/ call'[h] = c2
    BY <1>1, <2>1 DEF Become
  <2>3. c1.stage = "insert" /\ c2.stage = "getTier"
    BY <1>1 DEF Call
  <2>. QED
    BY <1>0, <2>2, <2>3
<1>7. ~ GetTier(h)
  <2>. SUFFICES ASSUME GetTier(h) PROVE FALSE
    OBVIOUS
  <2>. DEFINE k(t) == [call[h] EXCEPT !.stage = "insert", !.rowTier = t]
  <2>1. PICK t \in Tiers : Become(h, k(t))
    BY Zenon DEF GetTier
  <2>2. call'[h] = k(t) /\ k(t).stage = "insert"
    BY <1>1, <2>1 DEF Become, Call
  <2>. QED
    BY <1>0, <2>2
<1>8. ~ ConfirmStep(h)
  <2>1. ~ ConfirmEligible(h)
    <3>. SUFFICES ASSUME ConfirmEligible(h) PROVE FALSE
      OBVIOUS
    <3>. DEFINE k(r) == [call[h] EXCEPT !.stage = "verify", !.relay = r]
    <3>1. PICK r \in Relays : Become(h, k(r))
      BY <1>2, Zenon DEF ConfirmEligible, Eligible
    <3>2. call'[h] = k(r) /\ k(r).stage = "verify"
      BY <1>1, <3>1 DEF Become, Call
    <3>. QED
      BY <1>0, <3>2
  <2>2. ~ ConfirmRefused(h) /\ ~ VerifyPurchase(h) /\ ~ ConfirmResumes(h)
    BY <1>2, <1>3, Zenon DEF ConfirmRefused, VerifyPurchase, ConfirmResumes
  <2>. QED
    BY <2>1, <2>2 DEF ConfirmStep
<1>9. ~ SessionStep(h)
  <2>1. ~ FailoverTier(h)
    <3>. SUFFICES ASSUME FailoverTier(h) PROVE FALSE
      OBVIOUS
    <3>. DEFINE k(t) == [call[h] EXCEPT !.stage = "relay", !.tier = t]
    <3>1. PICK t \in Tiers : Become(h, k(t))
      BY Zenon DEF FailoverTier
    <3>2. call'[h] = k(t) /\ k(t).stage = "relay"
      BY <1>1, <3>1 DEF Become, Call
    <3>. QED
      BY <1>0, <3>2
  <2>2. ~ FailoverRelay(h)
    <3>. SUFFICES ASSUME FailoverRelay(h) PROVE FALSE
      OBVIOUS
    <3>. DEFINE k(r) == [call[h] EXCEPT !.stage = "check", !.to = "RELAY_UNREACHABLE",
                                        !.relay = r]
    <3>1. PICK r \in Relays : Become(h, k(r))
      BY Zenon DEF FailoverRelay
    <3>2. call'[h] = k(r) /\ k(r).stage = "check"
      BY <1>1, <3>1 DEF Become, Call
    <3>. QED
      BY <1>0, <3>2
  <2>3. ~ SelectRelay(h)
    <3>. SUFFICES ASSUME SelectRelay(h) PROVE FALSE
      OBVIOUS
    <3>. DEFINE k(r) == [call[h] EXCEPT !.stage = "check", !.to = "TUNNEL_OPEN",
                                        !.relay = r, !.cur = None, !.rowTier = None]
    <3>1. PICK r \in Relays : Become(h, k(r))
      BY Zenon DEF SelectRelay, Eligible
    <3>2. call'[h] = k(r) /\ k(r).stage = "check"
      BY <1>1, <3>1 DEF Become, Call
    <3>. QED
      BY <1>0, <3>2
  <2>4. ~ Guard(h) /\ ~ FailoverResumes(h)
    BY <1>2, <1>3, <1>4 DEF Guard, FailoverResumes
  <2>. QED
    BY <1>2, <2>1, <2>2, <2>3, <2>4 DEF SessionStep, SelectNone, EndResumes
<1>. QED
  BY <1>2, <1>5, <1>6, <1>7, <1>8, <1>9 DEF HandlerStep, RecordStep, Fail

LEMMA TokenInvInductive ==
  TypeInv /\ HonestInv /\ TokenInv /\ [Next]_vars => TokenInv'
<1>. SUFFICES ASSUME TypeInv, HonestInv, TokenInv, [Next]_vars PROVE TokenInv'
  OBVIOUS
<1>1. ASSUME NEW h \in Handlers, Request(h) \/ HandlerStep(h) \/ Fail(h)
      PROVE  TokenInv'
  <2>0. UNCHANGED purchase
    BY <1>1, PurchaseUntouched
  <2>1. \A st, r : \A s \in Sessions :
          (\E j \in DOMAIN log[s] : log[s][j].to = st /\ log[s][j].relay = r)
            => \E j \in DOMAIN log'[s] : log'[s][j].to = st /\ log'[s][j].relay = r
    <3>. SUFFICES ASSUME NEW s \in Sessions, NEW j \in DOMAIN log[s]
                  PROVE  j \in DOMAIN log'[s] /\ log'[s][j] = log[s][j]
      OBVIOUS
    <3>1. log[s] \in Seq(Row)
      BY DEF TypeInv, TypeOK
    <3>2. log' \in [Sessions -> Seq(Row)]
      BY <1>1, OnlyInsertWritesLog, InsertAppends DEF TypeInv, TypeOK
    <3>3. log'[s] \in Seq(Row)
      BY <3>2
    <3>. QED
      BY <1>1, <3>1, <3>3, LogGrows
  <2>2. ASSUME NEW g \in Handlers PROVE RecordsPaid(call[g])'
    <3>. SUFFICES ASSUME call'[g].kind = "confirm", call'[g].stage = "resume"
                  PROVE  \E j \in DOMAIN log'[call'[g].sid] :
                           /\ log'[call'[g].sid][j].to = call'[g].to
                           /\ log'[call'[g].sid][j].relay = call'[g].relay
      BY DEF RecordsPaid
    <3>1. CASE g = h
      <4>1. Insert(h)
        BY <1>1, <3>1, ResumesByInsert
      <4>. DEFINE c == [call[h] EXCEPT !.stage = "resume"]
      <4>2. call'[h] = c /\ call[h] \in Call
        BY <4>1 DEF Insert, Goto, Become, TypeInv, TypeOK
      <4>3. /\ c.kind = call[h].kind /\ c.to = call[h].to /\ c.relay = call[h].relay
            /\ c.sid = call[h].sid
        BY <4>2 DEF Call
      <4>. HIDE DEF c
      <4>. DEFINE s == call[h].sid
      <4>4. /\ s \in Sessions /\ log[s] \in Seq(Row) /\ log'[s] \in Seq(Row)
        BY <4>1, InsertAppends DEF TypeInv, TypeOK
      <4>5. Len(log[s]) + 1 \in DOMAIN log'[s] /\ log'[s][Len(log[s]) + 1] = NewRow(h)
        BY <4>1, <4>4, NewRowIsLast
      <4>6. call[h].kind = "confirm"
        BY <3>1, <4>2, <4>3
      <4>7. NewRow(h).to = call[h].to /\ NewRow(h).relay = call[h].relay
        BY <4>6 DEF NewRow, RowRelay
      <4>. QED
        BY <3>1, <4>2, <4>3, <4>5, <4>7
    <3>2. CASE g # h
      <4>1. call'[g] = call[g]
        BY <1>1, <3>2, OthersUnmoved
      <4>2. call[g].sid \in Sessions /\ RecordsPaid(call[g])
        BY <4>1 DEF TypeInv, Shaped, TokenInv
      <4>. QED
        BY <2>1, <4>1, <4>2 DEF RecordsPaid
    <3>. QED
      BY <3>1, <3>2
  <2>3. TokenIsPaidFor'
    <3>. SUFFICES ASSUME NEW s \in Sessions, NEW i \in DOMAIN tokens'[s]
                  PROVE  /\ tokens'[s][i].tier = purchase[s]
                         /\ tokens'[s][i].tier \in Offers[tokens'[s][i].relay]
                         /\ \E j \in DOMAIN log'[s] : /\ log'[s][j].to = "ACTIVE"
                                                      /\ log'[s][j].relay = tokens'[s][i].relay
      BY <2>0 DEF TokenIsPaidFor
    <3>1. CASE i \in DOMAIN tokens[s] /\ tokens'[s][i] = tokens[s][i]
      BY <2>1, <3>1 DEF TokenInv, TokenIsPaidFor
    <3>2. CASE ~ (i \in DOMAIN tokens[s] /\ tokens'[s][i] = tokens[s][i])
      <4>1. ConfirmResumes(h) /\ tokens' # tokens
        BY <1>1, <3>2, OnlyConfirmIssuesToken
      <4>. DEFINE t == [relay |-> call[h].relay, tier |-> call[h].tier]
      <4>2. /\ call[h].stage = "resume" /\ call[h].kind = "confirm" /\ call[h].to = "ACTIVE"
            /\ tokens' = [tokens EXCEPT ![call[h].sid] = Append(@, t)]
        BY <4>1 DEF ConfirmResumes, TokenDue
      <4>3. /\ Shaped(call[h]) /\ Honest(call[h]) /\ RecordsPaid(call[h])
            /\ tokens \in [Sessions -> Seq(Token)]
        BY DEF TypeInv, TypeOK, HonestInv, TokenInv
      <4>4. t \in Token /\ call[h].sid \in Sessions
        BY <4>2, <4>3 DEF Shaped, Recording, Token
      <4>5. s = call[h].sid /\ tokens'[s] = Append(tokens[s], t)
        BY <3>2, <4>2, <4>3, <4>4
      <4>6. t.tier = call[h].tier /\ t.relay = call[h].relay
        OBVIOUS
      <4>. HIDE DEF t
      <4>7. i = Len(tokens[s]) + 1 /\ tokens'[s][i] = t
        <5>1. tokens[s] \in Seq(Token)
          BY <4>3
        <5>. QED
          BY <3>2, <4>4, <4>5, <5>1, AppendFacts
      <4>8. call[h].tier = purchase[s] /\ call[h].tier \in Offers[call[h].relay]
        BY <4>2, <4>3, <4>5 DEF Honest, Recording
      <4>9. \E j \in DOMAIN log[s] : log[s][j].to = "ACTIVE" /\ log[s][j].relay = call[h].relay
        BY <4>2, <4>3, <4>5 DEF RecordsPaid
      <4>. QED
        BY <2>1, <4>6, <4>7, <4>8, <4>9
    <3>. QED
      BY <3>1, <3>2
  <2>. QED
    BY <2>2, <2>3 DEF TokenInv
<1>2. ASSUME NEW s \in Sessions, NEW t \in Tiers, PurchaseMined(s, t)
      PROVE  TokenInv'
  <2>1. /\ purchase[s] = None /\ UNCHANGED <<log, call, tokens>>
        /\ \A r \in Sessions : r # s => purchase'[r] = purchase[r]
    BY <1>2 DEF PurchaseMined, TypeInv, TypeOK
  \* Nothing was issued for a session not yet purchased: it has no rows.
  <2>2. tokens[s] \in Seq(Token) /\ log[s] = <<>>
    BY <2>1, LogIsPaid DEF TypeInv, TypeOK
  <2>3. \A i \in DOMAIN tokens[s] : FALSE
    BY <2>2 DEF TokenInv, TokenIsPaidFor
  <2>. QED
    BY <2>1, <2>3 DEF TokenInv, TokenIsPaidFor, RecordsPaid
<1>3. CASE Restart
  BY <1>3 DEF Restart, Idle, TokenInv, RecordsPaid, TokenIsPaidFor
<1>4. CASE UNCHANGED vars
  BY <1>4 DEF vars, TokenInv, RecordsPaid, TokenIsPaidFor
<1>. QED
  BY <1>1, <1>2, <1>3, <1>4 DEF Next

(* A token names the tier paid on chain and a relay that offers it, and    *)
(* the log shows the session ACTIVE on that relay.                         *)
THEOREM TokensArePaidFor == Spec => []TokenIsPaidFor
<1>1. Init => TokenInv
  BY DEF Init, Idle, TokenInv, RecordsPaid, TokenIsPaidFor
<1>2. TokenInv => TokenIsPaidFor
  BY DEF TokenInv
<1>. QED
  BY <1>1, <1>2, TypeInvInit, TypeInvInductive, HonestInvInit, HonestInvInductive,
     TokenInvInductive, PTL DEF Spec
-----------------------------------------------------------------------------
(* What a reader of the log may assume of a session recorded by one        *)
(* handler at a time.                                                      *)

LastRow(s) == log[s][Len(log[s])]

\* The relay of the row a request is about to write may follow the last one.
Follows(c) ==
  \/ c.kind = "end" \/ c.to = "PAID"
  \/ /\ log[c.sid] # <<>>
     /\ c.kind = "confirm" => LastRow(c.sid).to # "FAILOVER_SELECT"
     /\ IF c.kind = "failover" /\ c.to = "TUNNEL_OPEN"
        THEN LastRow(c.sid).relay # c.relay /\ LastRow(c.sid).to = "FAILOVER_SELECT"
        ELSE LastRow(c.sid).relay \in {c.relay, None}

\* A request that resumes finds its row where it put it.
Stays(c) ==
  \/ c.kind = "end"
  \/ /\ log[c.sid] # <<>>
     /\ LastRow(c.sid).to = c.to /\ LastRow(c.sid).relay = c.relay
     /\ c.stage = "select" => c.to = "FAILOVER_SELECT"

Linked(c) == /\ c.stage \in {"check", "getTier", "insert"} => Follows(c)
             /\ c.stage \in {"resume", "select"} => Stays(c)

ReadInv ==
  /\ \A s \in Sessions : s \notin overlapped => IsReadable(s)
  /\ \A h \in Handlers : call[h].sid \notin overlapped => Linked(call[h])

\* What a request holds when it begins a transition, by where it was before.
BeginsBy(h) ==
  \/ call'[h].kind = "end" \/ call'[h].to = "PAID"
  \/ /\ call[h].stage = "resume" /\ call[h].kind = "confirm"
     /\ call'[h].relay = call[h].relay
  \/ /\ call[h].stage = "resume" /\ call[h].kind = "failover"
     /\ call'[h].relay = call[h].relay /\ call'[h].to # "TUNNEL_OPEN"
  \/ /\ call[h].stage = "relay" /\ call[h].kind = "failover"
     /\ call'[h].to = "RELAY_UNREACHABLE"
     /\ call'[h].relay \in Relays /\ IsCurrentRelay(call[h].sid, call'[h].relay)
  \/ /\ call[h].stage = "select" /\ call[h].kind = "failover"
     /\ call'[h].to = "TUNNEL_OPEN" /\ call'[h].relay # call[h].relay

\* How a request comes to begin a transition, or to select a relay.
LEMMA HowBegun ==
  ASSUME TypeInv, NEW h \in Handlers, Request(h) \/ HandlerStep(h) \/ Fail(h),
         call'[h].stage \in {"check", "select"}
  PROVE  /\ call'[h].sid = call[h].sid /\ call'[h].kind = call[h].kind /\ UNCHANGED log
         /\ call'[h].stage = "check" => BeginsBy(h)
         /\ call'[h].stage = "select" =>
              /\ call[h].stage = "resume" /\ call[h].to = "FAILOVER_SELECT"
              /\ call'[h].to = call[h].to /\ call'[h].relay = call[h].relay
<1>0. call'[h].stage \in {"check", "select"}
  OBVIOUS
<1>1. call \in [Handlers -> Call] /\ call[h] \in Call /\ Shaped(call[h])
  BY DEF TypeInv, TypeOK
<1>2. ~ Answer(h)
  BY <1>0, <1>1 DEF Answer, Become, Idle
<1>3. ASSUME NEW to, Record(h, to)
      PROVE  /\ call'[h].sid = call[h].sid /\ call'[h].kind = call[h].kind
             /\ call'[h].relay = call[h].relay /\ call'[h].to = to
             /\ call'[h].stage = "check"
  <2>. DEFINE c == [call[h] EXCEPT !.stage = "check", !.to = to,
                                   !.cur = None, !.rowTier = None]
  <2>1. call'[h] = c
    BY <1>1, <1>3 DEF Record, Become
  <2>2. /\ c.sid = call[h].sid /\ c.kind = call[h].kind /\ c.relay = call[h].relay
        /\ c.to = to /\ c.stage = "check"
    BY <1>1 DEF Call
  <2>. QED
    BY <2>1, <2>2
<1>4. \A st : st \notin {"check", "select"} => ~ Goto(h, st)
  BY <1>0, <1>1 DEF Goto, Become, Call
<1>5. ~ Request(h)
  BY <1>0, <1>1 DEF Request, ConfirmArrives, FailoverArrives, EndArrives, Become, Idle
<1>6. ~ RecordStep(h)
  <2>1. ~ Check(h)
    <3>. SUFFICES ASSUME Check(h) PROVE FALSE
      OBVIOUS
    <3>. DEFINE cur == CurrentState(call[h].sid)
                c1 == [call[h] EXCEPT !.stage = "insert", !.cur = cur, !.rowTier = call[h].tier]
                c2 == [call[h] EXCEPT !.stage = "getTier", !.cur = cur]
    <3>1. Become(h, c1) \/ Become(h, c2)
      BY <1>2 DEF Check, Reject
    <3>2. call'[h] = c1 \/ call'[h] = c2
      BY <1>1, <3>1 DEF Become
    <3>3. c1.stage = "insert" /\ c2.stage = "getTier"
      BY <1>1 DEF Call
    <3>. QED
      BY <1>0, <3>2, <3>3
  <2>2. ~ GetTier(h)
    <3>. SUFFICES ASSUME GetTier(h) PROVE FALSE
      OBVIOUS
    <3>. DEFINE k(t) == [call[h] EXCEPT !.stage = "insert", !.rowTier = t]
    <3>1. PICK t \in Tiers : Become(h, k(t))
      BY Zenon DEF GetTier
    <3>2. call'[h] = k(t) /\ k(t).stage = "insert"
      BY <1>1, <3>1 DEF Become, Call
    <3>. QED
      BY <1>0, <3>2
  <2>3. ~ Insert(h)
    BY <1>4 DEF Insert
  <2>. QED
    BY <2>1, <2>2, <2>3 DEF RecordStep
<1>7. CASE VerifyPurchase(h)
  <2>1. Record(h, "PAID") /\ UNCHANGED log
    BY <1>2, <1>7 DEF VerifyPurchase
  <2>. QED
    BY <1>3, <2>1 DEF BeginsBy
<1>8. CASE ConfirmResumes(h)
  <2>1. /\ Record(h, NextOfConfirm[call[h].to]) /\ UNCHANGED log
        /\ call[h].stage = "resume" /\ call[h].kind = "confirm"
    BY <1>2, <1>8 DEF ConfirmResumes
  <2>. QED
    BY <1>3, <2>1 DEF BeginsBy
<1>9. CASE Guard(h)
  <2>1. Record(h, "EXPIRED_NORMAL") /\ call[h].kind = "end" /\ UNCHANGED log
    BY <1>2, <1>4, <1>9 DEF Guard
  <2>. QED
    BY <1>3, <2>1 DEF BeginsBy
<1>10. CASE FailoverResumes(h)
  <2>1. /\ \/ Record(h, "FAILOVER_SELECT") \/ Record(h, "ACTIVE")
           \/ call[h].to = "FAILOVER_SELECT" /\ Goto(h, "select")
        /\ call[h].stage = "resume" /\ call[h].kind = "failover" /\ UNCHANGED log
    BY <1>2, <1>10 DEF FailoverResumes
  <2>2. ASSUME Goto(h, "select")
        PROVE  /\ call'[h].stage = "select" /\ call'[h].sid = call[h].sid
               /\ call'[h].kind = call[h].kind /\ call'[h].to = call[h].to
               /\ call'[h].relay = call[h].relay
    BY <1>1, <2>2 DEF Goto, Become, Call
  <2>. QED
    BY <1>3, <2>1, <2>2 DEF BeginsBy
<1>11. CASE FailoverRelay(h)
  <2>. DEFINE k(r) == [call[h] EXCEPT !.stage = "check", !.to = "RELAY_UNREACHABLE",
                                      !.relay = r]
  <2>1. PICK r \in Relays : IsCurrentRelay(call[h].sid, r) /\ Become(h, k(r))
    BY <1>11, Zenon DEF FailoverRelay
  <2>2. call[h].stage = "relay" /\ UNCHANGED log
    BY <1>11 DEF FailoverRelay
  <2>3. /\ call'[h] = k(r) /\ k(r).sid = call[h].sid /\ k(r).kind = call[h].kind
        /\ k(r).to = "RELAY_UNREACHABLE" /\ k(r).relay = r /\ k(r).stage = "check"
    BY <1>1, <2>1 DEF Become, Call
  <2>4. call[h].kind = "failover"
    BY <1>1, <2>2 DEF Shaped
  <2>. HIDE DEF k
  <2>. QED
    BY <2>1, <2>2, <2>3, <2>4 DEF BeginsBy
<1>12. CASE SelectRelay(h)
  <2>. DEFINE k(r) == [call[h] EXCEPT !.stage = "check", !.to = "TUNNEL_OPEN",
                                      !.relay = r, !.cur = None, !.rowTier = None]
  <2>1. PICK r \in Relays \ {call[h].relay} : Become(h, k(r))
    BY <1>12, Zenon DEF SelectRelay, Eligible
  <2>2. call[h].stage = "select" /\ UNCHANGED log
    BY <1>12 DEF SelectRelay
  <2>3. /\ call'[h] = k(r) /\ k(r).sid = call[h].sid /\ k(r).kind = call[h].kind
        /\ k(r).to = "TUNNEL_OPEN" /\ k(r).relay = r /\ k(r).stage = "check"
    BY <1>1, <2>1 DEF Become, Call
  <2>4. call[h].kind = "failover"
    BY <1>1, <2>2 DEF Shaped
  <2>. HIDE DEF k
  <2>. QED
    BY <2>1, <2>2, <2>3, <2>4 DEF BeginsBy
<1>13. ~ (ConfirmEligible(h) \/ FailoverTier(h))
  <2>1. ~ ConfirmEligible(h)
    <3>. SUFFICES ASSUME ConfirmEligible(h) PROVE FALSE
      OBVIOUS
    <3>. DEFINE k(r) == [call[h] EXCEPT !.stage = "verify", !.relay = r]
    <3>1. PICK r \in Relays : Become(h, k(r))
      BY <1>2, Zenon DEF ConfirmEligible, Eligible
    <3>2. call'[h] = k(r) /\ k(r).stage = "verify"
      BY <1>1, <3>1 DEF Become, Call
    <3>. QED
      BY <1>0, <3>2
  <2>2. ~ FailoverTier(h)
    <3>. SUFFICES ASSUME FailoverTier(h) PROVE FALSE
      OBVIOUS
    <3>. DEFINE k(t) == [call[h] EXCEPT !.stage = "relay", !.tier = t]
    <3>1. PICK t \in Tiers : Become(h, k(t))
      BY Zenon DEF FailoverTier
    <3>2. call'[h] = k(t) /\ k(t).stage = "relay"
      BY <1>1, <3>1 DEF Become, Call
    <3>. QED
      BY <1>0, <3>2
  <2>. QED
    BY <2>1, <2>2
<1>. QED
  BY <1>2, <1>5, <1>6, <1>7, <1>8, <1>9, <1>10, <1>11, <1>12, <1>13
     DEF HandlerStep, ConfirmStep, SessionStep, ConfirmRefused, SelectNone, EndResumes, Fail

\* The relay getCurrentRelay finds is the last row's, if that names one.
LEMMA LastRelay ==
  ASSUME TypeInv, NEW s \in Sessions, NEW r \in Relays, IsCurrentRelay(s, r)
  PROVE  log[s] # <<>> /\ LastRow(s).relay \in {r, None}
<1>1. log[s] \in Seq(Row)
  BY DEF TypeInv, TypeOK
<1>2. PICK i \in 1..Len(log[s]) :
        /\ log[s][i].relay = r
        /\ \A j \in (i + 1)..Len(log[s]) : log[s][j].relay = None
  BY <1>1 DEF IsCurrentRelay
<1>3. i = Len(log[s]) \/ Len(log[s]) \in (i + 1)..Len(log[s])
  BY <1>1, <1>2
<1>. QED
  BY <1>1, <1>2, <1>3 DEF LastRow

LEMMA MoverIsLinked ==
  ASSUME TypeInv, ReadInv, [Next]_vars,
         NEW h \in Handlers, Request(h) \/ HandlerStep(h) \/ Fail(h),
         call'[h].sid \notin overlapped'
  PROVE  Linked(call[h])'
<1>1. call \in [Handlers -> Call] /\ call[h] \in Call /\ Shaped(call[h])
  BY DEF TypeInv, TypeOK
<1>2. call[h].sid = call'[h].sid => Linked(call[h])
  BY OverlappedGrows DEF ReadInv
<1>3. CASE call'[h].stage = "check"
  <2>1. /\ call'[h].sid = call[h].sid /\ call'[h].kind = call[h].kind /\ UNCHANGED log
        /\ BeginsBy(h)
    BY <1>3, HowBegun
  <2>2. Linked(call[h])
    BY <1>2, <2>1
  <2>. SUFFICES Follows(call[h])'
    BY <1>3 DEF Linked
  <2>3. CASE call'[h].kind = "end" \/ call'[h].to = "PAID"
    BY <2>3 DEF Follows
  <2>4. CASE call[h].stage = "resume" /\ call'[h].kind # "end"
    <3>1. /\ log[call[h].sid] # <<>>
          /\ LastRow(call[h].sid).to = call[h].to /\ LastRow(call[h].sid).relay = call[h].relay
      BY <2>1, <2>2, <2>4 DEF Linked, Stays
    <3>2. call[h].kind = "confirm" => call[h].to # "FAILOVER_SELECT"
      BY <1>1, <2>4 DEF Shaped, Recording, ConfirmTargets
    <3>3. /\ call'[h].relay = call[h].relay \/ call'[h].to = "PAID"
          /\ call[h].kind = "failover" => call'[h].to # "TUNNEL_OPEN"
      BY <2>1, <2>4 DEF BeginsBy
    <3>. QED
      BY <2>1, <3>1, <3>2, <3>3 DEF Follows, LastRow
  <2>5. CASE /\ call[h].stage = "relay" /\ call[h].kind = "failover"
             /\ call'[h].to = "RELAY_UNREACHABLE"
             /\ call'[h].relay \in Relays /\ IsCurrentRelay(call[h].sid, call'[h].relay)
    <3>1. call[h].sid \in Sessions
      BY <1>1, <2>5 DEF Shaped
    <3>2. log[call[h].sid] # <<>> /\ LastRow(call[h].sid).relay \in {call'[h].relay, None}
      BY <2>5, <3>1, LastRelay
    <3>. QED
      BY <2>1, <2>5, <3>2 DEF Follows, LastRow
  <2>6. CASE /\ call[h].stage = "select" /\ call[h].kind = "failover"
             /\ call'[h].to = "TUNNEL_OPEN" /\ call'[h].relay # call[h].relay
    <3>1. /\ log[call[h].sid] # <<>> /\ LastRow(call[h].sid).to = "FAILOVER_SELECT"
          /\ LastRow(call[h].sid).relay = call[h].relay
      BY <2>2, <2>6 DEF Linked, Stays
    <3>. QED
      BY <2>1, <2>6, <3>1 DEF Follows, LastRow
  <2>. QED
    BY <2>1, <2>3, <2>4, <2>5, <2>6 DEF BeginsBy
<1>4. CASE Holding(call'[h])
  <2>1. /\ call'[h].sid = call[h].sid /\ call'[h].to = call[h].to
        /\ call'[h].kind = call[h].kind /\ call'[h].relay = call[h].relay
        /\ call[h].stage \in {"check", "getTier"} /\ UNCHANGED log
    BY <1>4, HowHeld DEF HoldsByCheck, HoldsByGetTier
  <2>2. Follows(call[h])
    BY <1>2, <2>1 DEF Linked
  <2>3. Follows(call[h])'
    BY <2>1, <2>2 DEF Follows, LastRow
  <2>. QED
    BY <1>4, <2>3 DEF Linked, Holding
<1>5. CASE call'[h].stage = "resume"
  <2>1. Insert(h)
    BY <1>5, ResumesByInsert
  <2>. DEFINE c == [call[h] EXCEPT !.stage = "resume"]
  <2>2. call'[h] = c
    BY <1>1, <2>1 DEF Insert, Goto, Become
  <2>3. /\ c.sid = call[h].sid /\ c.to = call[h].to /\ c.kind = call[h].kind
        /\ c.relay = call[h].relay /\ c.stage = "resume"
    BY <1>1 DEF Call
  <2>. HIDE DEF c
  <2>4. /\ log'[call[h].sid] # <<>>
        /\ Len(log'[call[h].sid]) = Len(log[call[h].sid]) + 1
        /\ log'[call[h].sid][Len(log[call[h].sid]) + 1] = NewRow(h)
    BY <2>1, NewRowIsLast
  <2>5. NewRow(h).to = call[h].to /\ (call[h].kind # "end" => NewRow(h).relay = call[h].relay)
    BY DEF NewRow, RowRelay
  <2>6. Stays(call[h])'
    BY <2>2, <2>3, <2>4, <2>5 DEF Stays, LastRow
  <2>. QED
    BY <1>5, <2>6 DEF Linked
<1>6. CASE call'[h].stage = "select"
  <2>1. /\ call'[h].sid = call[h].sid /\ call'[h].kind = call[h].kind /\ UNCHANGED log
        /\ call[h].stage = "resume" /\ call[h].to = "FAILOVER_SELECT"
        /\ call'[h].to = call[h].to /\ call'[h].relay = call[h].relay
    BY <1>6, HowBegun
  <2>2. Stays(call[h])
    BY <1>2, <2>1 DEF Linked
  <2>3. Stays(call[h])'
    BY <2>1, <2>2 DEF Stays, LastRow
  <2>. QED
    BY <1>6, <2>3 DEF Linked
<1>. QED
  BY <1>3, <1>4, <1>5, <1>6 DEF Linked, Holding

LEMMA SameReaderTable ==
  /\ Reader!Written = Written
  /\ \A from, to : Reader!IsValidTransition(from, to) <=> IsValidTransition(from, to)
BY DEF Reader!Written, Reader!States, Written, ConfirmTargets, FailoverTargets,
       Reader!IsValidTransition, IsValidTransition, Reader!Transitions, Transitions

\* The row a request inserts alone with its session reads on.
LEMMA NewRowReads ==
  ASSUME TypeInv, OnlyWritten, PathInv, AuditInv, HonestInv, ReadInv,
         NEW h \in Handlers, Insert(h), call[h].sid \notin overlapped
  PROVE  IF log[call[h].sid] = <<>> THEN Reader!First(NewRow(h))
         ELSE Reader!MayFollow(LastRow(call[h].sid), NewRow(h))
<1>. DEFINE s == call[h].sid
<1>1. /\ s \in Sessions /\ call[h].stage = "insert" /\ Holding(call[h])
      /\ Shaped(call[h]) /\ call[h].kind \in Kinds
  BY InsertAppends DEF TypeInv, Insert, Shaped, Holding
<1>2. call[h].cur = CurrentState(s) /\ Permitted(call[h].cur, call[h].to)
  BY <1>1 DEF PathInv, HoldsCurrent, AuditInv, ReadsRight
<1>3. Follows(call[h])
  BY <1>1 DEF ReadInv, Linked
<1>4. /\ NewRow(h).to = call[h].to
      /\ NewRow(h).relay = IF call[h].kind = "end" THEN None ELSE call[h].relay
      /\ call[h].kind = "confirm" => call[h].to \in ConfirmTargets
      /\ call[h].kind = "failover" => call[h].to \in FailoverTargets
      /\ call[h].kind = "end" => call[h].to = "EXPIRED_NORMAL"
      /\ call[h].kind # "end" => call[h].relay \in Relays
  BY <1>1 DEF NewRow, RowRelay, Shaped, Recording
<1>5. CASE log[s] = <<>>
  <2>1. call[h].to = "PAID"
    BY <1>1, <1>2, <1>5, KnownState DEF Permitted
  <2>. QED
    BY <1>1, <1>4, <1>5, <2>1 DEF Reader!First, Kinds, FailoverTargets
<1>6. CASE log[s] # <<>>
  <2>. DEFINE last == LastRow(s)
  <2>1. /\ last.to = CurrentState(s) /\ Len(log[s]) \in 1..Len(log[s]) /\ CurrentState(s) # None
    BY <1>1, <1>6, KnownState DEF LastRow
  <2>2. /\ last.to \in Written
        /\ last.relay = None => last.to = "EXPIRED_NORMAL"
    BY <1>1, <2>1 DEF OnlyWritten, HonestInv, RowsServePaidTier, LastRow
  <2>3. IsValidTransition(last.to, call[h].to)
    BY <1>2, <2>1 DEF Permitted
  <2>4. call[h].to # "PAID"
    BY <1>1, <1>2, <1>6, PaidOnlyFirst
  <2>5. call[h].to \in Written
    BY <1>1, <1>4 DEF Written, Kinds
  <2>. HIDE DEF last
  <2>6. /\ last.to # "EXPIRED_NORMAL"
        /\ last.to = "FAILOVER_SELECT" => call[h].to = "TUNNEL_OPEN"
    BY <2>2, <2>3, <2>5
       DEF IsValidTransition, Transitions, Written, ConfirmTargets, FailoverTargets
  <2>7. call[h].kind # "end" => call[h].to # "EXPIRED_NORMAL"
    BY <1>1, <1>4 DEF Kinds, ConfirmTargets, FailoverTargets
  <2>8. call[h].kind # "end" =>
          (call[h].relay # last.relay <=> last.to = "FAILOVER_SELECT")
    <3>1. ASSUME call[h].kind = "confirm"
          PROVE  last.to # "FAILOVER_SELECT" /\ last.relay = call[h].relay
      BY <1>3, <2>2, <2>4, <2>6, <3>1 DEF Follows, last
    <3>2. ASSUME call[h].kind = "failover", call[h].to = "TUNNEL_OPEN"
          PROVE  last.to = "FAILOVER_SELECT" /\ last.relay # call[h].relay
      BY <1>3, <3>2 DEF Follows, last
    <3>3. ASSUME call[h].kind = "failover", call[h].to # "TUNNEL_OPEN"
          PROVE  last.to # "FAILOVER_SELECT" /\ last.relay = call[h].relay
      BY <1>3, <2>2, <2>4, <2>6, <3>3 DEF Follows, last
    <3>. QED
      BY <1>1, <3>1, <3>2, <3>3 DEF Kinds
  <2>9. Reader!MayFollow(last, NewRow(h))
    BY <1>1, <1>4, <2>3, <2>5, <2>7, <2>8, SameReaderTable DEF Reader!MayFollow, Kinds
  <2>. QED
    BY <1>6, <2>9 DEF last
<1>. QED
  BY <1>5, <1>6

LEMMA ReadInvInductive ==
  TypeInv /\ OnlyWritten /\ OverlapsTracked /\ PathInv /\ AuditInv /\ HonestInv /\ ReadInv
    /\ [Next]_vars => ReadInv'
<1>. SUFFICES ASSUME TypeInv, OnlyWritten, OverlapsTracked, PathInv, AuditInv, HonestInv,
                     ReadInv, [Next]_vars
              PROVE  ReadInv'
  OBVIOUS
<1>0. overlapped \subseteq overlapped'
  BY OverlappedGrows
<1>1. ASSUME NEW h \in Handlers, Request(h) \/ HandlerStep(h) \/ Fail(h)
      PROVE  ReadInv'
  <2>1. ASSUME NEW g \in Handlers, call'[g].sid \notin overlapped'
        PROVE  Linked(call[g])'
    <3>1. CASE g = h
      BY <1>1, <2>1, <3>1, MoverIsLinked
    <3>2. CASE g # h /\ call'[g].stage \in Recording
      <4>1. call'[g] = call[g] /\ call[g].sid \in Sessions
        BY <1>1, <3>2, OthersUnmoved DEF TypeInv, Shaped, Recording
      <4>2. log'[call[g].sid] = log[call[g].sid]
        <5>1. CASE Insert(h)
          <6>1. call[h].sid # call[g].sid
            BY <1>0, <2>1, <3>2, <4>1, <5>1
               DEF OverlapsTracked, Overlapping, Insert, Recording
          <6>. QED
            BY <4>1, <5>1, <6>1, NewRowIsLast
        <5>. QED
          BY <1>1, <5>1, OnlyInsertWritesLog
      <4>3. Linked(call[g])
        BY <1>0, <2>1, <4>1 DEF ReadInv
      <4>. QED
        BY <4>1, <4>2, <4>3 DEF Linked, Follows, Stays, LastRow
    <3>3. CASE call'[g].stage \notin Recording
      BY <3>3 DEF Linked, Recording
    <3>. QED
      BY <3>1, <3>2, <3>3
  <2>2. ASSUME NEW s \in Sessions, s \notin overlapped' PROVE IsReadable(s)'
    <3>1. IsReadable(s) /\ s \notin overlapped
      BY <1>0, <2>2 DEF ReadInv
    <3>2. CASE log'[s] = log[s]
      BY <3>1, <3>2 DEF IsReadable
    <3>3. CASE Insert(h) /\ call[h].sid = s
      <4>. DEFINE n == Len(log[s])
      <4>1. log[s] \in Seq(Row) /\ log'[s] \in Seq(Row) /\ n \in Nat
        BY <3>3, InsertAppends DEF TypeInv, TypeOK
      <4>2. /\ Len(log'[s]) = n + 1 /\ log'[s][n + 1] = NewRow(h)
            /\ \A i \in 1..n : log'[s][i] = log[s][i]
        BY <3>3, NewRowIsLast
      <4>3. IF n = 0 THEN Reader!First(NewRow(h))
            ELSE Reader!MayFollow(log[s][n], NewRow(h))
        BY <3>1, <3>3, <4>1, NewRowReads DEF LastRow
      <4>. HIDE DEF n
      <4>4. ASSUME NEW i \in 1..(n + 1)
            PROVE  IF i = 1 THEN Reader!First(log'[s][i])
                   ELSE Reader!MayFollow(log'[s][i - 1], log'[s][i])
        <5>1. CASE i \in 1..n
          <6>1. i \in DOMAIN log[s] /\ (i # 1 => i - 1 \in 1..n)
            BY <4>1, <5>1 DEF n
          <6>2. IF i = 1 THEN Reader!First(log[s][i])
                ELSE Reader!MayFollow(log[s][i - 1], log[s][i])
            BY <3>1, <6>1 DEF IsReadable
          <6>. QED
            BY <4>2, <5>1, <6>1, <6>2
        <5>2. CASE i = n + 1 /\ n = 0
          BY <4>2, <4>3, <5>2
        <5>3. CASE i = n + 1 /\ n # 0
          <6>1. i # 1 /\ i - 1 = n /\ n \in 1..n
            BY <4>1, <5>3
          <6>. QED
            BY <4>2, <4>3, <5>3, <6>1
        <5>. QED
          BY <4>1, <5>1, <5>2, <5>3
      <4>5. DOMAIN log'[s] = 1..(n + 1)
        BY <4>1, <4>2
      <4>. QED
        BY <4>4, <4>5 DEF IsReadable, Reader!First, Reader!MayFollow
    <3>. QED
      BY <1>1, <3>2, <3>3, OnlyInsertWritesLog, NewRowIsLast
  <2>. QED
    BY <2>1, <2>2 DEF ReadInv
<1>2. CASE UNCHANGED <<log, call, overlapped>>
  BY <1>2 DEF ReadInv, IsReadable, Linked, Follows, Stays, LastRow
<1>3. CASE Restart
  <2>1. \A h \in Handlers : Linked(call[h])'
    BY <1>3 DEF Restart, Idle, Linked
  <2>2. \A s \in Sessions : s \notin overlapped' => IsReadable(s)'
    BY <1>3 DEF Restart, ReadInv, IsReadable
  <2>. QED
    BY <2>1, <2>2 DEF ReadInv
<1>. QED
  BY <1>1, <1>2, <1>3 DEF Next, PurchaseMined, vars

(* The log of a session is a walk of the state machine that keeps to its   *)
(* relay between failovers, which is what its readers assume, unless two   *)
(* handlers recorded the session at once; whatever queries failed and      *)
(* however often the process restarted.                                    *)
THEOREM PathUnlessOverlap == Spec => []PathUnlessOverlapped
<1>1. Init => OnlyWritten /\ OverlapsTracked /\ PathInv /\ AuditInv /\ ReadInv
  <2>1. Init => OnlyWritten /\ OverlapsTracked /\ PathInv /\ AuditInv
    BY DEF Init, Idle, OnlyWritten, OverlapsTracked, Overlapping, Recording, PathInv,
           PathKept, IsPath, HoldsCurrent, Holding, AuditInv, AuditTrail, ReadsRight
  <2>2. Init => ReadInv
    BY DEF Init, Idle, ReadInv, IsReadable, Linked
  <2>. QED
    BY <2>1, <2>2
<1>2. PathInv /\ ReadInv => PathUnlessOverlapped
  BY DEF PathInv, PathKept, ReadInv, PathUnlessOverlapped
<1>. QED
  BY <1>1, <1>2, TypeInvInit, TypeInvInductive, OnlyWrittenInductive,
     OverlapsTrackedInductive, PathInvInductive, AuditInvInductive, HonestInvInit,
     HonestInvInductive, ReadInvInductive, PTL DEF Spec
-----------------------------------------------------------------------------
(* One handler at a time implements the life cycle of a session.           *)

OneHandler == \A g, h \in Handlers : g = h

NoOverlap == overlapped = {}

LEMMA NoOverlapInductive ==
  ASSUME OneHandler
  PROVE  TypeInv /\ NoOverlap /\ [Next]_vars => NoOverlap'
<1>. SUFFICES ASSUME TypeInv, NoOverlap, [Next]_vars PROVE NoOverlap'
  OBVIOUS
<1>1. ASSUME NEW h \in Handlers, Request(h) \/ HandlerStep(h) \/ Fail(h)
      PROVE  NoOverlap'
  <2>1. overlapped' = overlapped \cup {s \in Sessions : Overlapping(s)'}
    BY <1>1, HandlerMoves DEF Moves, Become
  <2>2. \A s \in Sessions : ~ Overlapping(s)'
    BY DEF OneHandler, Overlapping
  <2>. QED
    BY <2>1, <2>2 DEF NoOverlap
<1>2. CASE UNCHANGED overlapped
  BY <1>2 DEF NoOverlap
<1>. QED
  BY <1>1, <1>2 DEF Next, PurchaseMined, Restart, vars

\* A confirm that resumes has written the state its session is in.
ResumesCurrent ==
  \A h \in Handlers : call[h].stage = "resume" => CurrentState(call[h].sid) = call[h].to

LEMMA ResumesCurrentInductive ==
  ASSUME OneHandler
  PROVE  TypeInv /\ ResumesCurrent /\ [Next]_vars => ResumesCurrent'
<1>. SUFFICES ASSUME TypeInv, ResumesCurrent, [Next]_vars PROVE ResumesCurrent'
  OBVIOUS
<1>1. ASSUME NEW h \in Handlers, Request(h) \/ HandlerStep(h) \/ Fail(h)
      PROVE  ResumesCurrent'
  <2>. SUFFICES ASSUME call'[h].stage = "resume"
                PROVE  CurrentState(call[h].sid)' = call'[h].to
    BY DEF OneHandler, ResumesCurrent
  <2>1. Insert(h)
    BY <1>1, ResumesByInsert
  <2>. DEFINE c == [call[h] EXCEPT !.stage = "resume"]
  <2>2. call'[h] = c /\ call[h] \in Call
    BY <2>1 DEF Insert, Goto, Become, TypeInv, TypeOK
  <2>3. c.sid = call[h].sid /\ c.to = call[h].to
    BY <2>2 DEF Call
  <2>. HIDE DEF c
  <2>. DEFINE s == call[h].sid
  <2>4. s \in Sessions /\ log[s] \in Seq(Row) /\ NewRow(h).to = call[h].to
    BY <2>1, InsertAppends DEF TypeInv, TypeOK, NewRow
  <2>5. /\ Len(log'[s]) = Len(log[s]) + 1 /\ log'[s] # <<>>
        /\ log'[s][Len(log[s]) + 1] = NewRow(h)
    BY <2>1, NewRowIsLast
  <2>. QED
    BY <2>2, <2>3, <2>4, <2>5 DEF CurrentState
<1>2. CASE UNCHANGED <<log, call>>
  BY <1>2 DEF ResumesCurrent, CurrentState
<1>3. CASE Restart
  BY <1>3 DEF Restart, Idle, ResumesCurrent
<1>. QED
  BY <1>1, <1>2, <1>3 DEF Next, PurchaseMined, vars

Paid == {s \in Sessions : purchase[s] # None}
State == [s \in Sessions |-> CurrentState(s)]
Granted == {s \in Sessions : tokens[s] # <<>>}

LEMMA SameTable ==
  /\ Lifecycle!States = States
  /\ \A from, to : Lifecycle!IsValidTransition(from, to) <=> IsValidTransition(from, to)
BY DEF Lifecycle!States, States, Lifecycle!IsValidTransition, IsValidTransition,
       Lifecycle!Transitions, Transitions

\* A row is the beginning of its session or an advance.
LEMMA InsertIsStep ==
  ASSUME TypeInv, NoOverlap, PathInv, AuditInv, HonestInv, NEW h \in Handlers, Insert(h)
  PROVE  Lifecycle!Next
<1>0. PICK s \in Sessions : s = call[h].sid
  BY InsertAppends
<1>1. /\ log[s] \in Seq(Row) /\ NewRow(h).to = call[h].to
      /\ Holding(call[h]) /\ call[h].stage = "insert"
  BY DEF TypeInv, TypeOK, NewRow, Insert, Holding
<1>2. /\ Len(log'[s]) = Len(log[s]) + 1 /\ log'[s] # <<>>
      /\ log'[s][Len(log[s]) + 1] = NewRow(h)
      /\ \A r \in Sessions : r # s => log'[r] = log[r]
  BY <1>0, NewRowIsLast
<1>3. State' = [State EXCEPT ![s] = call[h].to]
  <2>1. CurrentState(s)' = call[h].to
    BY <1>1, <1>2 DEF CurrentState
  <2>2. \A r \in Sessions : r # s => CurrentState(r)' = CurrentState(r)
    BY <1>2 DEF CurrentState
  <2>. QED
    BY <2>1, <2>2 DEF State
<1>4. UNCHANGED <<Paid, Granted>>
  BY DEF Insert, Paid, Granted
<1>5. call[h].cur = State[s]
  BY <1>0, <1>1 DEF NoOverlap, PathInv, HoldsCurrent, State
<1>6. Permitted(State[s], call[h].to)
  BY <1>1, <1>5 DEF AuditInv, ReadsRight
<1>7. s \in Paid
  BY <1>0, NewRowIsPaid DEF Paid
<1>8. call[h].to \in States
  BY <1>1, InsertAppends DEF Row
<1>9. CASE State[s] = None
  <2>1. call[h].to = "PAID"
    BY <1>6, <1>9 DEF Permitted
  <2>2. Lifecycle!Begin(s)
    BY <1>3, <1>4, <1>7, <1>9, <2>1 DEF Lifecycle!Begin, Paid, State, Granted
  <2>. QED
    BY <2>2 DEF Lifecycle!Next
<1>10. CASE State[s] # None
  <2>1. Lifecycle!IsValidTransition(State[s], call[h].to)
    BY <1>6, <1>10, SameTable DEF Permitted
  <2>2. Lifecycle!Advance(s, call[h].to)
    BY <1>3, <1>4, <1>10, <2>1 DEF Lifecycle!Advance, Paid, State, Granted
  <2>. QED
    BY <1>8, <2>2, SameTable DEF Lifecycle!Next
<1>. QED
  BY <1>9, <1>10

\* A token is the grant of its session.
LEMMA TokenIsStep ==
  ASSUME TypeInv, NoOverlap, OneTokenInv, ResumesCurrent, NEW h \in Handlers,
         ConfirmResumes(h), tokens' # tokens
  PROVE  Lifecycle!Next
<1>. DEFINE t == [relay |-> call[h].relay, tier |-> call[h].tier]
<1>0. PICK s \in Sessions : s = call[h].sid
  BY DEF ConfirmResumes, TypeInv, Shaped
<1>1. /\ call[h].stage = "resume" /\ call[h].kind = "confirm" /\ call[h].to = "ACTIVE"
      /\ tokens' = [tokens EXCEPT ![s] = Append(@, t)]
      /\ UNCHANGED <<log, purchase>>
  BY <1>0 DEF ConfirmResumes, TokenDue
<1>2. t \in Token /\ tokens \in [Sessions -> Seq(Token)]
  BY <1>1 DEF TypeInv, TypeOK, Shaped, Recording, Token
<1>. HIDE DEF t
<1>3. State[s] = "ACTIVE"
  BY <1>0, <1>1 DEF ResumesCurrent, State
<1>4. s \notin Granted
  BY <1>0, <1>1 DEF OneTokenInv, Serving, NoOverlap, Granted
<1>5. Granted' = Granted \cup {s}
  <2>1. Append(tokens[s], t) # <<>>
    BY <1>2, AppendFacts
  <2>2. \A r \in Sessions : tokens'[r] = IF r = s THEN Append(tokens[s], t) ELSE tokens[r]
    BY <1>1, <1>2
  <2>. QED
    BY <1>2, <2>1, <2>2 DEF Granted
<1>6. UNCHANGED <<Paid, State>>
  BY <1>1 DEF Paid, State, CurrentState
<1>7. Lifecycle!Grant(s)
  BY <1>3, <1>4, <1>5, <1>6 DEF Lifecycle!Grant, Paid, State, Granted
<1>. QED
  BY <1>7 DEF Lifecycle!Next

LifecycleInv == /\ NoOverlap /\ OverlapsTracked /\ OnlyWritten /\ ResumesCurrent
                /\ PathInv /\ AuditInv /\ OneTokenInv /\ HonestInv

LEMMA StepIsLifecycle ==
  TypeInv /\ LifecycleInv /\ [Next]_vars => [Lifecycle!Next]_(Lifecycle!vars)
<1>. SUFFICES ASSUME TypeInv, LifecycleInv, [Next]_vars
              PROVE  Lifecycle!Next \/ UNCHANGED <<Paid, State, Granted>>
  BY DEF Lifecycle!vars, Paid, State, Granted
<1>1. ASSUME NEW h \in Handlers, Request(h) \/ HandlerStep(h) \/ Fail(h)
      PROVE  Lifecycle!Next \/ UNCHANGED <<Paid, State, Granted>>
  <2>1. CASE Insert(h)
    BY <2>1, InsertIsStep DEF LifecycleInv
  <2>2. CASE ConfirmResumes(h) /\ tokens' # tokens
    BY <2>2, TokenIsStep DEF LifecycleInv
  <2>3. CASE UNCHANGED <<log, tokens>>
    BY <1>1, <2>3, PurchaseUntouched DEF Paid, State, Granted, CurrentState
  <2>. QED
    BY <1>1, <2>1, <2>2, <2>3, OnlyInsertWritesLog, OnlyConfirmIssuesToken
<1>2. ASSUME NEW s \in Sessions, NEW t \in Tiers, PurchaseMined(s, t)
      PROVE  Lifecycle!Next
  <2>1. /\ UNCHANGED <<State, Granted>>
    BY <1>2 DEF PurchaseMined, State, Granted, CurrentState
  <2>2. Paid' = Paid \cup {s}
    BY <1>2, NoneAssumption DEF PurchaseMined, Paid, TypeInv, TypeOK
  <2>3. Lifecycle!Pay(s)
    BY <2>1, <2>2 DEF Lifecycle!Pay, Paid, State, Granted
  <2>. QED
    BY <2>3 DEF Lifecycle!Next
<1>3. CASE UNCHANGED <<log, purchase, tokens>>
  BY <1>3 DEF Paid, State, Granted, CurrentState
<1>. QED
  BY <1>1, <1>2, <1>3 DEF Next, Restart, vars

(* A process that serves one request at a time implements the abstract     *)
(* life cycle of a session, however often queries fail and it restarts.    *)
THEOREM OneHandlerImplementsLifecycle ==
  ASSUME OneHandler
  PROVE  Spec => ImplementsLifecycle
<1>1. Init => LifecycleInv /\ Lifecycle!Init
  <2>1. Init => LifecycleInv
    BY HonestInvInit
       DEF Init, Idle, LifecycleInv, NoOverlap, ResumesCurrent, OnlyWritten,
           OverlapsTracked, Overlapping, Recording, PathInv, PathKept,
           IsPath, HoldsCurrent, Holding, AuditInv, AuditTrail, ReadsRight,
           OneTokenInv, OneTokenUnlessOverlapped, Serving
  <2>2. Init => Lifecycle!Init
    BY DEF Init, Lifecycle!Init, CurrentState
  <2>. QED
    BY <2>1, <2>2
<1>2. TypeInv /\ LifecycleInv /\ [Next]_vars => LifecycleInv'
  BY NoOverlapInductive, OverlapsTrackedInductive, OnlyWrittenInductive,
     ResumesCurrentInductive, PathInvInductive, AuditInvInductive,
     OneTokenInvInductive, HonestInvInductive DEF LifecycleInv
<1>. QED
  BY <1>1, <1>2, TypeInvInit, TypeInvInductive, StepIsLifecycle, PTL
     DEF Spec, ImplementsLifecycle, Lifecycle!Spec
=============================================================================
