--------------------------- MODULE WebClientProofs ---------------------------
(***************************************************************************)
(* Proofs about the web client: Wallet, for any wallets and accounts and   *)
(* any number of pending requests, changes inside the wallets and reloads; *)
(* SessionPage, for any relays, logs of any length and any interleaving of *)
(* snapshot, feed, requests and restarts.                                  *)
(***************************************************************************)
EXTENDS Wallet, SessionPage, WellFoundedInduction, SequenceTheorems, TLAPS


(* The wallet: the invariant.                                              *)

\* Unless effects are due the listener is attached to the connected wallet.
Attached == ~context.effectsDue => context.listening = context.connected

\* A wallet that was disconnected is not asked again.
Unremembered == said.choice = "none" => lastWallet = None

\* After the user's last word no silent reconnect was started.
NoneAsked == ~said.late /\ ~said.torn /\ said.choice # "nothing" =>
               \A w \in Wallets : context.silent[w] = 0

Held == Attached /\ Unremembered /\ NoneAsked /\ AccountIsExposed /\ ChoiceHolds

Inv == TypeOK /\ Held
-----------------------------------------------------------------------------
LEMMA AccountsAreKnown == \A w \in Wallets : Accounts[w] \subseteq AllAccounts
BY DEF AllAccounts

LEMMA NewContextType == NewContext \in Context
BY DEF NewContext, Context

LEMMA InitHolds == Init => Inv
<1> SUFFICES ASSUME Init PROVE Inv
  OBVIOUS
<1>1. moves \in 0..MaxMoves /\ loads \in 0..MaxLoads
  BY BoundsAssumption DEF Init
<1>2. said \in Said
  BY DEF Init, NothingSaid, Said
<1>3. TypeOK
  BY <1>1, <1>2, NewContextType DEF Init, TypeOK
<1>4. said.choice = "nothing" /\ "nothing" \notin Wallets
  BY NoWalletAssumption DEF Init, NothingSaid
<1>5. context.connected = None /\ context.account = None /\ context.listening = None
  BY DEF Init, NewContext
<1>6. Held
  BY <1>4, <1>5 DEF Held, Attached, Unremembered, NoneAsked, AccountIsExposed, ChoiceHolds
<1> QED BY <1>3, <1>6 DEF Inv
-----------------------------------------------------------------------------
(* Use: a wallet, or none, and an account of it.                           *)
LEMMA UseType ==
  ASSUME NEW c \in Context, NEW w \in Wallets \cup {None}, NEW a \in AllAccounts \cup {None}
  PROVE  /\ Use(c, w, a) \in Context
         /\ Use(c, w, a).connected = w /\ Use(c, w, a).account = a
         /\ Use(c, w, a).effectsDue = (c.effectsDue \/ w # c.connected)
         /\ Use(c, w, a).listening = c.listening /\ Use(c, w, a).silent = c.silent
BY DEF Use, Context

\* Nothing but the context changes, and in it neither connection nor account.
LEMMA ContextStep ==
  ASSUME Inv, context' \in Context, UNCHANGED <<lastWallet, exposed, moves, loads, said>>,
         context'.connected = context.connected, context'.account = context.account,
         ~context'.effectsDue => \/ context'.listening = context'.connected
                                 \/ /\ context'.listening = context.listening
                                    /\ ~context.effectsDue,
         \/ context'.silent = context.silent
         \/ lastWallet # None /\ context.connected = None
  PROVE  Inv'
<1>1. TypeOK'
  BY DEF Inv, TypeOK
<1>2. Attached'
  BY DEF Inv, Held, Attached
<1>3. Unremembered' /\ AccountIsExposed' /\ ChoiceHolds'
  BY DEF Inv, Held, Unremembered, AccountIsExposed, ChoiceHolds
<1>4. NoneAsked'
  <2>1. CASE context'.silent = context.silent
    BY <2>1 DEF Inv, Held, NoneAsked
  <2>2. CASE lastWallet # None /\ context.connected = None
    <3>1. said.choice # "none"
      BY <2>2 DEF Inv, Held, Unremembered
    <3>2. ~said.late /\ ~said.torn => said.choice \notin Wallets
      BY <2>2, NoWalletAssumption DEF Inv, Held, ChoiceHolds
    <3>3. said.choice \in Wallets \cup {"none", "nothing"}
      BY DEF Inv, TypeOK, Said
    <3> QED BY <3>1, <3>2, <3>3 DEF NoneAsked
  <2> QED BY <2>1, <2>2
<1> QED BY <1>1, <1>2, <1>3, <1>4 DEF Inv, Held

LEMMA DialogStep ==
  ASSUME Inv, OpenModal \/ CloseModal \/ Refuse \/ \E w \in Wallets : Connect(w)
  PROVE  Inv'
<1>1. context \in Context
  BY DEF Inv, TypeOK
<1>2. /\ context' \in Context
      /\ context'.connected = context.connected /\ context'.account = context.account
      /\ context'.effectsDue = context.effectsDue /\ context'.listening = context.listening
      /\ context'.silent = context.silent
  BY <1>1 DEF OpenModal, CloseModal, Refuse, Connect, Context
<1>3. UNCHANGED <<lastWallet, exposed, moves, loads, said>>
  BY DEF OpenModal, CloseModal, Refuse, Connect
<1>4. ~context'.effectsDue => /\ context'.listening = context.listening
                              /\ ~context.effectsDue
  BY <1>2
<1> QED BY <1>2, <1>3, <1>4, ContextStep

LEMMA AnnounceStep ==
  ASSUME Inv, NEW w \in Wallets, Announce(w)
  PROVE  Inv'
<1>1. context \in Context
  BY DEF Inv, TypeOK
<1>2. /\ context' \in Context
      /\ context'.connected = context.connected /\ context'.account = context.account
      /\ context'.effectsDue = (context.effectsDue \/ w \notin context.providers)
      /\ context'.listening = context.listening /\ context'.silent = context.silent
  BY <1>1 DEF Announce, Added, Context
<1>3. UNCHANGED <<lastWallet, exposed, moves, loads, said>>
  BY DEF Announce
<1>4. ~context'.effectsDue => /\ context'.listening = context.listening
                              /\ ~context.effectsDue
  BY <1>2
<1> QED BY <1>2, <1>3, <1>4, ContextStep

LEMMA RunEffectsStep ==
  ASSUME Inv, RunEffects
  PROVE  Inv'
<1> DEFINE silent == IF ReconnectDue
                     THEN [context.silent EXCEPT ![lastWallet] = context.silent[lastWallet] + 1]
                     ELSE context.silent
<1>1. context \in Context
  BY DEF Inv, TypeOK
<1>2. silent \in [Wallets -> Nat]
  BY <1>1 DEF Context, ReconnectDue
<1>3. context' = [context EXCEPT !.effectsDue = FALSE, !.listening = context.connected,
                                 !.silent = silent]
  BY DEF RunEffects
<1>4. /\ context' \in Context
      /\ context'.connected = context.connected /\ context'.account = context.account
      /\ context'.listening = context.connected
      /\ context'.silent = silent
  BY <1>1, <1>2, <1>3 DEF Context
<1>5. \/ context'.silent = context.silent
      \/ lastWallet # None /\ context.connected = None
  BY <1>4 DEF ReconnectDue
<1>6. UNCHANGED <<lastWallet, exposed, moves, loads, said>>
  BY DEF RunEffects
<1> QED BY <1>4, <1>5, <1>6, ContextStep

\* A silent reconnect is answered: it was pending when the user last spoke.
LEMMA SilentAnswerStep ==
  ASSUME Inv, NEW w \in Wallets, SilentAnswer(w)
  PROVE  Inv'
<1> DEFINE c == [context EXCEPT !.silent[w] = @ - 1]
<1>1. context \in Context /\ exposed[w] \in AllAccounts \cup {None} /\ context.silent[w] > 0
  BY DEF Inv, TypeOK, SilentAnswer
<1>2. /\ c \in Context
      /\ c.connected = context.connected /\ c.account = context.account
      /\ c.effectsDue = context.effectsDue /\ c.listening = context.listening
  <2>1. [context.silent EXCEPT ![w] = @ - 1] \in [Wallets -> Nat]
    BY <1>1 DEF Context
  <2> QED BY <1>1, <2>1 DEF Context
<1>3. UNCHANGED <<lastWallet, exposed, moves, loads, said>>
  BY DEF SilentAnswer
<1>4. \/ context' = c
      \/ exposed[w] # None /\ context' = Use(c, w, exposed[w])
  BY DEF SilentAnswer
<1> HIDE DEF c
<1>5. said.late \/ said.torn \/ said.choice = "nothing"
  BY <1>1 DEF Inv, Held, NoneAsked
<1>6. context' \in Context
  BY <1>1, <1>2, <1>4, UseType
<1>7. TypeOK'
  BY <1>3, <1>6 DEF Inv, TypeOK
<1>8. CASE context' = c
  <2>1. ~context'.effectsDue => ~context.effectsDue
    BY <1>2, <1>8
  <2>2. Attached'
    BY <1>2, <1>8, <2>1 DEF Inv, Held, Attached
  <2>3. AccountIsExposed'
    BY <1>2, <1>3, <1>8 DEF Inv, Held, AccountIsExposed
  <2>4. ChoiceHolds'
    BY <1>2, <1>3, <1>8 DEF Inv, Held, ChoiceHolds
  <2>5. Unremembered' /\ NoneAsked'
    BY <1>3, <1>5 DEF Inv, Held, Unremembered, NoneAsked
  <2> QED BY <1>7, <2>2, <2>3, <2>4, <2>5 DEF Inv, Held
<1>9. CASE exposed[w] # None /\ context' = Use(c, w, exposed[w])
  <2>1. /\ context'.connected = w /\ context'.account = exposed[w]
        /\ context'.effectsDue = (c.effectsDue \/ w # c.connected)
        /\ context'.listening = c.listening
    BY <1>1, <1>2, <1>9, UseType
  <2>2. ~context'.effectsDue => ~context.effectsDue /\ w = context.connected
    BY <1>2, <2>1
  <2>3. Attached'
    BY <1>2, <2>1, <2>2 DEF Inv, Held, Attached
  <2>4. AccountIsExposed'
    BY <1>3, <1>9, <2>1, NoWalletAssumption DEF AccountIsExposed
  <2>5. said.choice = "nothing" => said.choice \notin Wallets
    BY NoWalletAssumption
  <2>6. ChoiceHolds'
    BY <1>3, <1>5, <2>5 DEF ChoiceHolds
  <2>7. Unremembered' /\ NoneAsked'
    BY <1>3, <1>5 DEF Inv, Held, Unremembered, NoneAsked
  <2> QED BY <1>7, <2>3, <2>4, <2>6, <2>7 DEF Inv, Held
<1> QED BY <1>4, <1>8, <1>9

\* The user's word: late remembers what it races with.
LEMMA SayFields ==
  ASSUME Inv, NEW w \in Wallets \cup {"none"}, Say(w)
  PROVE  /\ said' \in Said /\ said'.choice = w /\ ~said'.torn
         /\ ~said'.late => \A v \in Wallets : context.silent[v] = 0
<1>1. \A v \in Wallets : context.silent[v] \in Nat
  BY DEF Inv, TypeOK, Context
<1>2. said'.late = \E v \in Wallets : context.silent[v] > 0
  BY DEF Say
<1>3. said' \in Said /\ said'.choice = w /\ ~said'.torn
  BY DEF Say, Said
<1>4. ~said'.late => \A v \in Wallets : ~(context.silent[v] > 0)
  BY <1>2, Zenon
<1> QED BY <1>1, <1>3, <1>4

LEMMA ApproveStep ==
  ASSUME Inv, NEW a \in AllAccounts, Approve(a)
  PROVE  Inv'
<1> DEFINE w == context.asking
           c == Use(context, w, a)
<1>1. context \in Context /\ w \in Wallets /\ a \in Accounts[w] /\ a # None
  BY NoWalletAssumption DEF Inv, TypeOK, Context, Approve
<1>2. /\ c \in Context /\ c.connected = w /\ c.account = a
      /\ c.effectsDue = (context.effectsDue \/ w # context.connected)
      /\ c.listening = context.listening /\ c.silent = context.silent
  BY <1>1, UseType
<1>3. /\ context' = [c EXCEPT !.modalOpen = FALSE, !.asking = None]
      /\ exposed' = [exposed EXCEPT ![w] = a] /\ lastWallet' = w /\ Say(w)
      /\ UNCHANGED <<moves, loads>>
  BY DEF Approve
<1> HIDE DEF c
<1>4. /\ context' \in Context /\ context'.connected = w /\ context'.account = a
      /\ context'.effectsDue = c.effectsDue
      /\ context'.listening = c.listening /\ context'.silent = c.silent
  BY <1>2, <1>3 DEF Context
<1>5. /\ said' \in Said /\ said'.choice = w /\ ~said'.torn
      /\ ~said'.late => \A v \in Wallets : context.silent[v] = 0
  BY <1>1, <1>3, SayFields
<1>6. exposed' \in [Wallets -> AllAccounts \cup {None}] /\ exposed'[w] = a
  BY <1>1, <1>3 DEF Inv, TypeOK
<1>7. TypeOK'
  BY <1>1, <1>3, <1>4, <1>5, <1>6 DEF Inv, TypeOK
<1>8. Attached'
  <2>1. ~context'.effectsDue => ~context.effectsDue /\ w = context.connected
    BY <1>2, <1>4
  <2> QED BY <1>2, <1>4, <2>1 DEF Inv, Held, Attached
<1>9. Unremembered' /\ ChoiceHolds'
  BY <1>1, <1>4, <1>5, NoWalletAssumption DEF Unremembered, ChoiceHolds
<1>10. NoneAsked'
  BY <1>2, <1>4, <1>5 DEF NoneAsked
<1>11. AccountIsExposed'
  BY <1>1, <1>4, <1>6, NoWalletAssumption DEF AccountIsExposed
<1> QED BY <1>7, <1>8, <1>9, <1>10, <1>11 DEF Inv, Held

\* The page forgets the wallet, by its button or because it was withdrawn.
LEMMA ForgetStep ==
  ASSUME Inv, Forget, Say("none"),
         exposed' \in [Wallets -> AllAccounts \cup {None}],
         moves' \in 0..MaxMoves, UNCHANGED loads
  PROVE  Inv'
<1>1. context \in Context /\ context' = Use(context, None, None)
  BY DEF Inv, TypeOK, Forget
<1>2. /\ context' \in Context /\ context'.connected = None /\ context'.account = None
      /\ context'.effectsDue = (context.effectsDue \/ None # context.connected)
      /\ context'.listening = context.listening /\ context'.silent = context.silent
  <2> DEFINE k == Use(context, None, None)
  <2>1. /\ k \in Context /\ k.connected = None /\ k.account = None
        /\ k.effectsDue = (context.effectsDue \/ None # context.connected)
        /\ k.listening = context.listening /\ k.silent = context.silent
    BY <1>1 DEF Use, Context
  <2>2. context' = k
    BY <1>1
  <2> HIDE DEF k
  <2> QED BY <2>1, <2>2
<1>3. lastWallet' = None
  BY DEF Forget
<1>4. /\ said' \in Said /\ said'.choice = "none" /\ ~said'.torn
      /\ ~said'.late => \A v \in Wallets : context.silent[v] = 0
  BY SayFields
<1>5. TypeOK'
  BY <1>2, <1>3, <1>4 DEF Inv, TypeOK
<1>6. Attached'
  <2>1. ~context'.effectsDue => ~context.effectsDue /\ context.connected = None
    BY <1>2
  <2> QED BY <1>2, <2>1 DEF Inv, Held, Attached
<1>7. "none" \notin Wallets
  BY NoWalletAssumption
<1>8. Unremembered' /\ ChoiceHolds' /\ AccountIsExposed'
  BY <1>2, <1>3, <1>4, <1>7 DEF Unremembered, ChoiceHolds, AccountIsExposed
<1>9. NoneAsked'
  BY <1>2, <1>4 DEF NoneAsked
<1> QED BY <1>5, <1>6, <1>8, <1>9 DEF Inv, Held

LEMMA DisconnectStep ==
  ASSUME Inv, Disconnect
  PROVE  Inv'
BY ForgetStep DEF Disconnect, Inv, TypeOK

\* Something changes inside a wallet: with effects due it may be missed, but
\* otherwise the listener is where it should be.
LEMMA WalletMovesStep ==
  ASSUME Inv, NEW w \in Wallets, NEW a \in Accounts[w] \cup {None}, WalletMoves(w, a)
  PROVE  Inv'
<1>1. /\ context \in Context /\ exposed \in [Wallets -> AllAccounts \cup {None}]
      /\ said \in Said /\ a \in AllAccounts \cup {None}
  BY AccountsAreKnown DEF Inv, TypeOK
<1>2. exposed' = [exposed EXCEPT ![w] = a] /\ moves' = moves + 1 /\ loads' = loads
      /\ moves < MaxMoves
  BY DEF WalletMoves
<1>3. /\ exposed' \in [Wallets -> AllAccounts \cup {None}]
      /\ exposed'[w] = a /\ \A v \in Wallets \ {w} : exposed'[v] = exposed[v]
  BY <1>1, <1>2
<1>4. moves' \in 0..MaxMoves /\ loads' \in 0..MaxLoads
  BY <1>2, BoundsAssumption DEF Inv, TypeOK
<1>5. CASE context.effectsDue
  <2>1. said' = [said EXCEPT !.torn = TRUE]
    BY <1>5 DEF WalletMoves
  <2>2. said' \in Said /\ said'.torn /\ said'.choice = said.choice
    BY <1>1, <2>1 DEF Said
  <2>3. CASE context.listening = w /\ a = None
    <3>1. Forget
      BY <2>3 DEF WalletMoves, AccountsChanged
    <3>2. /\ context' \in Context /\ context'.effectsDue
          /\ lastWallet' = None
      BY <1>1, <1>5, <3>1, UseType DEF Forget
    <3>3. TypeOK'
      BY <1>3, <1>4, <2>2, <3>2 DEF Inv, TypeOK
    <3> QED BY <2>2, <3>2, <3>3 DEF Inv, Held, Attached, Unremembered, NoneAsked,
              AccountIsExposed, ChoiceHolds
  <2>4. CASE ~(context.listening = w /\ a = None)
    <3>1. /\ lastWallet' = lastWallet
          /\ context' = context \/ context' = [context EXCEPT !.account = a]
      BY <2>4 DEF WalletMoves, AccountsChanged
    <3>2. context' \in Context /\ context'.effectsDue
      BY <1>1, <1>5, <3>1 DEF Context
    <3>3. TypeOK'
      BY <1>3, <1>4, <2>2, <3>1, <3>2 DEF Inv, TypeOK
    <3>4. Unremembered'
      BY <2>2, <3>1 DEF Inv, Held, Unremembered
    <3> QED BY <2>2, <3>2, <3>3, <3>4 DEF Inv, Held, Attached, NoneAsked,
              AccountIsExposed, ChoiceHolds
  <2> QED BY <2>3, <2>4
<1>6. CASE ~context.effectsDue
  <2>1. context.listening = context.connected
    BY <1>6 DEF Inv, Held, Attached
  <2>2. CASE context.listening = w /\ a = None
    <3>1. Forget /\ Say("none")
      BY <1>6, <2>2 DEF WalletMoves, AccountsChanged
    <3> QED BY <1>3, <1>4, <1>2, <3>1, ForgetStep
  <2>3. CASE ~(context.listening = w /\ a = None)
    <3>1. said' = said /\ lastWallet' = lastWallet
      BY <1>6, <2>3 DEF WalletMoves, AccountsChanged
    <3>2. context' = IF context.listening = w THEN [context EXCEPT !.account = a] ELSE context
      BY <2>3 DEF WalletMoves, AccountsChanged
    <3>3. /\ context' \in Context /\ context'.connected = context.connected
          /\ context'.account = IF context.listening = w THEN a ELSE context.account
          /\ context'.effectsDue = context.effectsDue
          /\ context'.listening = context.listening /\ context'.silent = context.silent
      BY <1>1, <3>2 DEF Context
    <3>4. TypeOK'
      BY <1>3, <1>4, <3>1, <3>3 DEF Inv, TypeOK
    <3>5. Attached'
      BY <2>1, <3>3 DEF Attached
    <3>6. Unremembered' /\ NoneAsked' /\ ChoiceHolds'
      BY <3>1, <3>3 DEF Inv, Held, Unremembered, NoneAsked, ChoiceHolds
    <3>7. AccountIsExposed'
      <4>1. CASE context.listening = w
        BY <1>3, <2>1, <2>3, <3>3, <4>1, NoWalletAssumption DEF AccountIsExposed
      <4>2. CASE context.listening # w
        <5>1. context.connected # None =>
                exposed'[context.connected] = exposed[context.connected]
          BY <1>1, <1>3, <2>1, <4>2 DEF Context
        <5> QED BY <3>1, <3>3, <4>2, <5>1 DEF Inv, Held, AccountIsExposed
      <4> QED BY <4>1, <4>2
    <3> QED BY <3>4, <3>5, <3>6, <3>7 DEF Inv, Held
  <2> QED BY <2>2, <2>3
<1> QED BY <1>5, <1>6

LEMMA ReloadStep ==
  ASSUME Inv, Reload
  PROVE  Inv'
<1>1. /\ context' \in Context
      /\ context'.connected = None /\ context'.account = None /\ context'.listening = None
  BY NewContextType DEF Reload, NewContext
<1>2. said' \in Said /\ said'.choice = "nothing" /\ "nothing" \notin Wallets
  BY NoWalletAssumption DEF Reload, NothingSaid, Said
<1>3. loads' \in 0..MaxLoads
  BY BoundsAssumption DEF Reload, Inv, TypeOK
<1>4. TypeOK'
  BY <1>1, <1>2, <1>3 DEF Reload, Inv, TypeOK
<1>5. Held'
  BY <1>1, <1>2 DEF Held, Attached, Unremembered, NoneAsked, AccountIsExposed, ChoiceHolds
<1> QED BY <1>4, <1>5 DEF Inv
-----------------------------------------------------------------------------
(* No step leaves the invariant.                                           *)
LEMMA Step == Inv /\ [Next]_vars => Inv'
<1> SUFFICES ASSUME Inv, [Next]_vars PROVE Inv'
  OBVIOUS
<1>1. CASE RunEffects
  BY <1>1, RunEffectsStep
<1>2. ASSUME NEW w \in Wallets, Announce(w) \/ SilentAnswer(w) \/ Connect(w) PROVE Inv'
  BY <1>2, AnnounceStep, SilentAnswerStep, DialogStep
<1>3. CASE OpenModal \/ CloseModal \/ Refuse
  BY <1>3, DialogStep
<1>4. CASE \E a \in AllAccounts : Approve(a)
  BY <1>4, ApproveStep
<1>5. CASE Disconnect
  BY <1>5, DisconnectStep
<1>6. CASE \E w \in Wallets : \E a \in Accounts[w] \cup {None} : WalletMoves(w, a)
  BY <1>6, WalletMovesStep
<1>7. CASE Reload
  BY <1>7, ReloadStep
<1>8. CASE UNCHANGED vars
  <2>1. ~context'.effectsDue => context'.listening = context.listening /\ ~context.effectsDue
    BY <1>8, Zenon DEF vars
  <2> QED BY <1>8, <2>1, ContextStep DEF vars, Inv, TypeOK
<1> QED BY <1>1, <1>2, <1>3, <1>4, <1>5, <1>6, <1>7, <1>8 DEF Next

LEMMA Invariance == Spec => []Inv
<1>1. Init => Inv
  BY InitHolds
<1>2. Inv /\ [Next]_vars => Inv'
  BY Step
<1> QED BY <1>1, <1>2, PTL DEF Spec

(* However requests, announcements, effects and reloads interleave, every   *)
(* variable has its type.                                                   *)
THEOREM TypeCorrect == Spec => []TypeOK
<1>1. Inv => TypeOK
  BY DEF Inv
<1> QED BY <1>1, Invariance, PTL

(* The account shown is the one its wallet exposes: for any wallets and any *)
(* number of requests in flight, because the listener is attached to the    *)
(* connected wallet whenever no effects are due (Attached).                 *)
THEOREM AccountIsExposedHolds == Spec => []AccountIsExposed
<1>1. Inv => AccountIsExposed
  BY DEF Inv, Held
<1> QED BY <1>1, Invariance, PTL

(* The user's choice stands unless a silent reconnect was under way: none   *)
(* is started afterwards (NoneAsked), since a disconnected wallet is no     *)
(* longer remembered (Unremembered) and a connected one suppresses it.      *)
THEOREM ChoiceHoldsAlways == Spec => []ChoiceHolds
<1>1. Inv => ChoiceHolds
  BY DEF Inv, Held
<1> QED BY <1>1, Invariance, PTL
-----------------------------------------------------------------------------
(* The session page: the invariant.                                        *)

\* What a log is: a walk from PAID that only EXPIRED_NORMAL ends, with the
\* relay of every other row.
LogIsWalk ==
  /\ rows \in Seq(Row)
  /\ rows # <<>> => rows[1].to = "PAID"
  /\ \A i \in 1..Len(rows) : /\ rows[i].to \in Written
                             /\ rows[i].to = "EXPIRED_NORMAL" <=> rows[i].relay = Null
                             /\ rows[i].to = "EXPIRED_NORMAL" => i = Len(rows)

\* The payment's steps that state a ticks off, state b does.
StaysPaid(a, b) == StepsDone(a) \cap {1, 2} \subseteq StepsDone(b)

\* The payment's steps, once ticked off, stay so along the log.
PaidStays == \A i, j \in 1..Len(rows) : i <= j => StaysPaid(rows[i].to, rows[j].to)

LogInv == LogIsWalk /\ PaidStays

\* What was received and what is on its way is, in order, the stretch of the
\* log that follows the rows before the registration; as long as the socket
\* is open it reaches the last row broadcast.
FeedInv ==
  /\ announced \in Nat /\ announced \in {Len(rows), Len(rows) - 1}
  /\ socket \in {"none", "connecting", "open", "closed"}
  /\ joined \in Nat
  /\ wire \in Seq(Nat) /\ page.live \in Seq(Nat)
  /\ joined + Len(page.live) + Len(wire) <= announced
  /\ socket = "open" => joined + Len(page.live) + Len(wire) = announced
  /\ \A k \in 1..Len(page.live) : page.live[k] = joined + k
  /\ \A k \in 1..Len(wire) : wire[k] = joined + Len(page.live) + k
  /\ socket \in {"none", "connecting"} => joined = 0 /\ page.live = <<>> /\ wire = <<>>

\* A snapshot that was read has rows, all of them broadcast.
AnswerInv ==
  /\ answer \in Answer /\ answer.events <= announced
  /\ answer.stage \in {"none", "events"} => answer.events = 0
  /\ answer.stage \in {"rest", "sent", "taken"} => answer.events >= 1
  /\ request \in {"none", "sent", "recorded", "accepted", "refused"}
  /\ page \in Page
  /\ ~page.open => answer.stage = "none" /\ socket = "none"

PageInv == LogInv /\ FeedInv /\ AnswerInv
-----------------------------------------------------------------------------
LEMMA LeastOf ==
  ASSUME NEW T, T \subseteq Nat, T # {}
  PROVE  \E x \in T : \A y \in T : x <= y
<1>1. IsWellFoundedOn(OpToRel(<,Nat), Nat)
  BY NatLessThanWellFounded
<1>2. PICK x \in T : \A y \in T : ~ (<<y, x>> \in OpToRel(<,Nat))
  BY <1>1, WFMin, Zenon
<1>3. \A y \in T : ~ (y < x)
  BY <1>2 DEF OpToRel
<1>. QED BY <1>3

LEMMA AppendIs ==
  ASSUME NEW q \in Seq(Nat), NEW t \in Seq(Nat), NEW x \in Nat,
         Len(t) = Len(q) + 1, t[Len(q) + 1] = x,
         \A k \in 1..Len(q) : t[k] = q[k]
  PROVE  t = Append(q, x)
<1>1. /\ Append(q, x) \in Seq(Nat) /\ Len(Append(q, x)) = Len(q) + 1
      /\ Append(q, x)[Len(q) + 1] = x
      /\ \A k \in 1..Len(q) : Append(q, x)[k] = q[k]
  BY AppendProperties
<1>2. \A k \in 1..Len(t) : t[k] = Append(q, x)[k]
  BY <1>1
<1>. QED  BY <1>1, <1>2, SeqEqual

LEMMA NewLiveIsSuffix ==
  ASSUME NEW live \in Seq(Nat), NEW n \in Nat, NEW d \in 0..Len(live),
         \A i \in 1..Len(live) : live[i] \in 1..n <=> i <= d
  PROVE  /\ NewLive(live, n) \in Seq(Nat)
         /\ Len(NewLive(live, n)) = Len(live) - d
         /\ \A k \in 1..(Len(live) - d) : NewLive(live, n)[k] = live[d + k]
<1>. DEFINE Suffix(i) == IF i <= d THEN <<>> ELSE [k \in 1..(i - d) |-> live[d + k]]
            Turn(f, i) == IF i = 0 THEN <<>>
                          ELSE IF live[i] \in 1..n THEN f[i - 1] ELSE Append(f[i - 1], live[i])
            upTo == CHOOSE f : f = [i \in 0..Len(live) |-> Turn(f, i)]
            F == [i \in 0..Len(live) |-> Suffix(i)]
<1>1. NewLive(live, n) = upTo[Len(live)]
  BY DEF NewLive
<1>2. Len(live) \in Nat /\ \A i \in 1..Len(live) : live[i] \in Nat
  OBVIOUS
<1>3. ASSUME NEW i \in 1..Len(live), i > d
      PROVE  Suffix(i) = Append(Suffix(i - 1), live[i]) /\ Suffix(i) \in Seq(Nat)
  <2>1. /\ i - d \in Nat /\ i - d >= 1 /\ d + (i - d) = i
        /\ (i - 1 > d => i - 1 - d = i - d - 1) /\ (i - 1 <= d => i - d - 1 = 0)
    BY <1>2, <1>3
  <2>2. /\ Suffix(i) \in Seq(Nat) /\ Len(Suffix(i)) = i - d
        /\ \A k \in 1..(i - d) : Suffix(i)[k] = live[d + k]
    BY <1>2, <1>3, <2>1
  <2>3. /\ Suffix(i - 1) \in Seq(Nat) /\ Len(Suffix(i - 1)) = i - d - 1
        /\ \A k \in 1..(i - d - 1) : Suffix(i - 1)[k] = live[d + k]
    <3>1. CASE i - 1 <= d
      BY <2>1, <3>1
    <3>2. CASE i - 1 > d
      BY <1>2, <1>3, <2>1, <3>2
    <3>. QED  BY <1>2, <3>1, <3>2
  <2>. HIDE DEF Suffix
  <2>4. /\ Len(Suffix(i)) = Len(Suffix(i - 1)) + 1
        /\ Suffix(i)[Len(Suffix(i - 1)) + 1] = live[i]
        /\ \A k \in 1..Len(Suffix(i - 1)) : Suffix(i)[k] = Suffix(i - 1)[k]
    <3>1. PICK m \in Nat : i - d = m + 1 /\ i - d - 1 = m
      BY <2>1
    <3>2. /\ Len(Suffix(i)) = m + 1 /\ Len(Suffix(i - 1)) = m
          /\ m + 1 \in 1..(m + 1) /\ d + (m + 1) = i
      BY <2>1, <2>2, <2>3, <3>1
    <3>3. Suffix(i)[m + 1] = live[i]
      BY <2>2, <3>1, <3>2
    <3>4. \A k \in 1..m : Suffix(i)[k] = Suffix(i - 1)[k]
      BY <2>2, <2>3, <3>1
    <3>. QED  BY <3>2, <3>3, <3>4
  <2>5. live[i] \in Nat
    BY <1>2
  <2>. QED  BY <2>2, <2>3, <2>4, <2>5, AppendIs
<1>. HIDE DEF Suffix
<1>4. Suffix(0) = <<>> /\ \A i \in 1..Len(live) : i <= d => Suffix(i) = Suffix(i - 1)
  BY <1>2 DEF Suffix
<1>5. F = [i \in 0..Len(live) |-> Turn(F, i)]
  <2>1. ASSUME NEW i \in 0..Len(live) PROVE Suffix(i) = Turn(F, i)
    <3>1. CASE i = 0
      BY <3>1, <1>4
    <3>2. CASE i # 0
      <4>1. i \in 1..Len(live) /\ i - 1 \in 0..Len(live) /\ F[i - 1] = Suffix(i - 1)
        BY <3>2, <1>2
      <4>. QED  BY <1>2, <1>3, <1>4, <3>2, <4>1
    <3>. QED BY <3>1, <3>2
  <2>. QED BY <2>1
<1>6. upTo = [i \in 0..Len(live) |-> Turn(upTo, i)]
  <2>. HIDE DEF Turn, F
  <2>1. \E f : f = [i \in 0..Len(live) |-> Turn(f, i)]
    BY <1>5
  <2>. QED BY <2>1
<1>. HIDE DEF upTo, F
<1>7. \A i \in 0..Len(live) : upTo[i] = Suffix(i)
  <2>. DEFINE Bad == {i \in 0..Len(live) : upTo[i] # Suffix(i)}
  <2>. SUFFICES ASSUME Bad # {} PROVE FALSE
    OBVIOUS
  <2>0. Bad \subseteq Nat
    BY <1>2
  <2>1. PICK x \in Bad : \A y \in Bad : x <= y
    <3>. HIDE DEF Bad
    <3>. QED  BY <2>0, LeastOf
  <2>2. upTo[x] = Turn(upTo, x)
    BY <1>6
  <2>3. CASE x = 0
    BY <2>2, <2>3, <2>1, <1>4
  <2>4. CASE x # 0
    <3>1. x \in 1..Len(live) /\ x - 1 \in 0..Len(live) /\ x - 1 < x
      BY <2>4, <1>2
    <3>2. x - 1 \notin Bad
      BY <2>1, <3>1
    <3>3. upTo[x - 1] = Suffix(x - 1)
      BY <3>1, <3>2
    <3>4. upTo[x] = Suffix(x)
      BY <1>3, <1>4, <2>2, <3>1, <3>3
    <3>. QED BY <3>4
  <2>. QED BY <2>3, <2>4
<1>8. NewLive(live, n) = Suffix(Len(live))
  BY <1>1, <1>2, <1>7
<1>. QED BY <1>2, <1>8 DEF Suffix
-----------------------------------------------------------------------------
LEMMA PaymentStaysDone ==
  \A a, b \in Written :
    IsValidTransition(a, b) => /\ a # "EXPIRED_NORMAL"
                               /\ StaysPaid(a, b)
<1>1. Steps[1] = "PAID" /\ Steps[2] = "TOKEN_ISSUED" /\ Steps[3] = "TUNNEL_OPEN" /\ Steps[4] = "ACTIVE"
  BY DEF Steps
<1>2. StepsDone("PAID") \cap {1, 2} = {}
  BY <1>1 DEF StepsDone, Terminal
<1>3. StepsDone("TOKEN_ISSUED") \cap {1, 2} = {1}
  BY <1>1 DEF StepsDone, Terminal
<1>4. {1, 2} \subseteq StepsDone("TUNNEL_OPEN")
  BY <1>1 DEF StepsDone, Terminal
<1>5. {1, 2} \subseteq StepsDone("ACTIVE") /\ {1, 2} \subseteq StepsDone("EXPIRED_NORMAL")
  BY DEF StepsDone, Terminal
<1>6. {1, 2} \subseteq StepsDone("RELAY_UNREACHABLE") /\ {1, 2} \subseteq StepsDone("FAILOVER_SELECT")
  BY DEF StepsDone, Terminal
<1>7. Written = {"PAID", "TOKEN_ISSUED", "TUNNEL_OPEN", "ACTIVE", "EXPIRED_NORMAL",
                 "RELAY_UNREACHABLE", "FAILOVER_SELECT"}
  BY DEF Written, States
<1>8. ASSUME NEW a \in Written, NEW b \in Written, IsValidTransition(a, b)
      PROVE  \/ a = "PAID" /\ b = "TOKEN_ISSUED"
             \/ a = "TOKEN_ISSUED" /\ b = "TUNNEL_OPEN"
             \/ a = "TUNNEL_OPEN" /\ b = "ACTIVE"
             \/ a = "ACTIVE" /\ b = "EXPIRED_NORMAL"
             \/ a = "ACTIVE" /\ b = "RELAY_UNREACHABLE"
             \/ a = "RELAY_UNREACHABLE" /\ b = "FAILOVER_SELECT"
             \/ a = "FAILOVER_SELECT" /\ b = "TUNNEL_OPEN"
  BY <1>7, <1>8 DEF IsValidTransition, Transitions
<1>. QED  BY <1>2, <1>3, <1>4, <1>5, <1>6, <1>8 DEF StaysPaid

LEMMA StaysPaidInTurn ==
  \A a, b, c : /\ StaysPaid(a, a)
               /\ StaysPaid(a, b) /\ StaysPaid(b, c) => StaysPaid(a, c)
BY DEF StaysPaid

\* A row that may follow the last one keeps the log a walk.
LEMMA AppendKeepsLog ==
  ASSUME LogInv, NEW row \in Row, row.to \in Written,
         row.to = "EXPIRED_NORMAL" <=> row.relay = Null,
         IF rows = <<>> THEN row.to = "PAID" ELSE IsValidTransition(State(rows), row.to),
         rows' = Append(rows, row)
  PROVE  LogInv' /\ (rows # <<>> => State(rows) # "EXPIRED_NORMAL")
<1>1. /\ rows \in Seq(Row) /\ Len(rows) \in Nat
      /\ rows' \in Seq(Row) /\ Len(rows') = Len(rows) + 1 /\ rows' # <<>>
      /\ rows'[Len(rows) + 1] = row
      /\ \A i \in 1..Len(rows) : rows'[i] = rows[i]
  BY DEF LogInv, LogIsWalk
<1>2. rows = <<>> => Len(rows) = 0
  OBVIOUS
<1>3. rows # <<>> =>
        /\ Len(rows) \in 1..Len(rows) /\ State(rows) = rows[Len(rows)].to
        /\ rows[Len(rows)].to # "EXPIRED_NORMAL"
        /\ StaysPaid(rows[Len(rows)].to, row.to)
  <2>. SUFFICES ASSUME rows # <<>> PROVE /\ Len(rows) \in 1..Len(rows) /\ State(rows) = rows[Len(rows)].to
        /\ rows[Len(rows)].to # "EXPIRED_NORMAL"
        /\ StaysPaid(rows[Len(rows)].to, row.to)
    OBVIOUS
  <2>1. Len(rows) \in 1..Len(rows) /\ State(rows) = rows[Len(rows)].to
    BY <1>1 DEF State
  <2>2. rows[Len(rows)].to \in Written /\ IsValidTransition(rows[Len(rows)].to, row.to)
    BY <2>1 DEF LogInv, LogIsWalk
  <2>. QED  BY <2>1, <2>2, PaymentStaysDone
<1>4. LogIsWalk'
  <2>1. rows'[1].to = "PAID"
    BY <1>1, <1>2 DEF LogInv, LogIsWalk
  <2>2. ASSUME NEW i \in 1..Len(rows')
        PROVE  /\ rows'[i].to \in Written
               /\ rows'[i].to = "EXPIRED_NORMAL" <=> rows'[i].relay = Null
               /\ rows'[i].to = "EXPIRED_NORMAL" => i = Len(rows')
    <3>1. CASE i = Len(rows) + 1
      BY <1>1, <3>1
    <3>2. CASE i \in 1..Len(rows)
      BY <1>1, <1>3, <3>2 DEF LogInv, LogIsWalk
    <3>. QED  BY <1>1, <3>1, <3>2
  <2>. QED  BY <1>1, <2>1, <2>2 DEF LogIsWalk
<1>5. PaidStays'
  <2>1. ASSUME NEW i \in 1..Len(rows'), NEW j \in 1..Len(rows'), i <= j
        PROVE  StaysPaid(rows'[i].to, rows'[j].to)
    <3>1. CASE j \in 1..Len(rows)
      <4>1. i \in 1..Len(rows)
        BY <1>1, <2>1, <3>1
      <4>2. StaysPaid(rows[i].to, rows[j].to)
        BY <2>1, <3>1, <4>1 DEF LogInv, PaidStays
      <4>. QED  BY <1>1, <3>1, <4>1, <4>2
    <3>2. CASE j = Len(rows) + 1 /\ i = Len(rows) + 1
      BY <3>2, StaysPaidInTurn
    <3>3. CASE j = Len(rows) + 1 /\ i \in 1..Len(rows)
      <4>1. StaysPaid(rows[i].to, rows[Len(rows)].to)
        BY <1>1, <3>3 DEF LogInv, PaidStays
      <4>2. StaysPaid(rows[i].to, row.to)
        BY <1>3, <3>3, <4>1, StaysPaidInTurn
      <4>. QED  BY <1>1, <3>3, <4>2
    <3>. QED  BY <1>1, <2>1, <3>1, <3>2, <3>3
  <2>. QED  BY <2>1 DEF PaidStays
<1>. QED  BY <1>3, <1>4, <1>5 DEF LogInv

\* A row joins the log only when the one before was broadcast.
LogGrows == /\ Settled
            /\ \E row \in Row : rows' = Append(rows, row)
            /\ rows # <<>> => State(rows) # "EXPIRED_NORMAL"

LEMMA RecordKeepsLog ==
  ASSUME PageInv, NEW row \in Row, Record(row)
  PROVE  LogInv' /\ LogGrows
<1>1. /\ Settled /\ rows' = Append(rows, row)
      /\ IF rows = <<>> THEN First(row) ELSE MayFollow(rows[Len(rows)], row)
  BY DEF Record, Insert
<1>2. /\ row.to \in Written
      /\ row.to = "EXPIRED_NORMAL" <=> row.relay = Null
  BY <1>1, NullAssumption DEF First, MayFollow, Written, States
<1>3. IF rows = <<>> THEN row.to = "PAID" ELSE IsValidTransition(State(rows), row.to)
  BY <1>1 DEF First, MayFollow, State
<1>. QED  BY <1>1, <1>2, <1>3, AppendKeepsLog DEF PageInv, LogGrows

LEMMA ServeEndKeepsLog ==
  ASSUME PageInv, ServeEnd, rows' # rows
  PROVE  LogInv' /\ LogGrows
<1>. DEFINE row == [to |-> "EXPIRED_NORMAL", relay |-> Null]
<1>1. /\ row \in Row /\ row.to = "EXPIRED_NORMAL" /\ row.relay = Null
      /\ row.to \in Written
  BY DEF Row, Written, States
<1>2. Settled /\ rows' = Append(rows, row) /\ State(rows) = "ACTIVE"
  BY DEF ServeEnd, Insert
<1>3. rows # <<>>
  BY <1>2, NullAssumption DEF State, States
<1>4. IsValidTransition(State(rows), row.to)
  BY <1>1, <1>2 DEF IsValidTransition, Transitions
<1>. HIDE DEF row
<1>. QED  BY <1>1, <1>2, <1>3, <1>4, AppendKeepsLog DEF PageInv, LogGrows

LEMMA SameLog == LogInv /\ UNCHANGED rows => LogInv'
BY DEF LogInv, LogIsWalk, PaidStays

\* What a step does to the log.
LEMMA LogMoves ==
  ASSUME PageInv, [PageNext]_pageVars
  PROVE  LogInv' /\ (rows' = rows \/ LogGrows)
<1>1. CASE \E row \in Row : Record(row)
  BY <1>1, RecordKeepsLog
<1>2. CASE ServeEnd
  BY <1>2, ServeEndKeepsLog, SameLog DEF PageInv
<1>3. CASE \/ Broadcast \/ Register \/ SocketCloses \/ Restart
           \/ Open \/ Take \/ TakeFails \/ Receive \/ Tick
           \/ AskEnd \/ CancelEnd \/ ConfirmEnd \/ EndAnswered
  <2>1. rows' = rows
    BY <1>3 DEF Broadcast, Register, SocketCloses, Restart, Open, Take, TakeFails, Receive,
                Tick, AskEnd, CancelEnd, ConfirmEnd, EndAnswered, log
  <2>. QED  BY <2>1, SameLog DEF PageInv
<1>4. CASE QueryEvents \/ QueryRest \/ UNCHANGED pageVars
  <2>1. rows' = rows
    BY <1>4 DEF QueryEvents, QueryRest, Query, pageVars, log
  <2>. QED  BY <2>1, SameLog DEF PageInv
<1>. QED  BY <1>1, <1>2, <1>3, <1>4 DEF PageNext
-----------------------------------------------------------------------------
LEMMA RecordKeepsFeed ==
  ASSUME PageInv, LogGrows, UNCHANGED <<announced, feed, page>>
  PROVE  FeedInv'
<1>1. Len(rows') = Len(rows) + 1 /\ announced = Len(rows) /\ Len(rows) \in Nat
  BY DEF LogGrows, PageInv, LogInv, LogIsWalk, Settled
<1>. QED  BY <1>1 DEF PageInv, FeedInv, feed

LEMMA OneFurther ==
  \A j, n, m \in Nat : /\ j + n + (m + 1) = (j + n + m) + 1
                        /\ j + (n + 1) + m = (j + n + m) + 1
                        /\ j + (n + 1) = (j + n) + 1
                        /\ j + 0 + 0 = j
OBVIOUS

LEMMA BroadcastKeepsFeed ==
  ASSUME PageInv, Broadcast
  PROVE  FeedInv'
<1>0. LogInv /\ FeedInv
  BY DEF PageInv
<1>1. /\ announced \in Nat /\ joined \in Nat
      /\ wire \in Seq(Nat) /\ page.live \in Seq(Nat)
      /\ joined + Len(page.live) + Len(wire) <= announced
      /\ \A k \in 1..Len(wire) : wire[k] = joined + Len(page.live) + k
  BY <1>0 DEF FeedInv
<1>2. PICK n \in Nat, m \in Nat : n = Len(page.live) /\ m = Len(wire)
  BY <1>1
<1>3. /\ announced' = announced + 1 /\ announced' = Len(rows)
      /\ rows' = rows /\ socket' = socket /\ joined' = joined /\ page' = page
  <2>1. Len(rows) \in Nat /\ announced \in {Len(rows), Len(rows) - 1}
    BY <1>0 DEF LogInv, LogIsWalk, FeedInv
  <2>. QED  BY <2>1 DEF Broadcast, Settled
<1>4. CASE socket = "open"
  <2>1. wire' = Append(wire, announced + 1) /\ joined + n + m = announced
    BY <1>0, <1>2, <1>4 DEF Broadcast, FeedInv
  <2>2. /\ wire' \in Seq(Nat) /\ Len(wire') = m + 1
        /\ wire'[m + 1] = announced + 1
        /\ \A k \in 1..m : wire'[k] = wire[k]
    BY <1>1, <1>2, <2>1
  <2>3. \A k \in 1..(m + 1) : wire'[k] = joined + n + k
    <3>1. \A k \in 1..m : wire'[k] = joined + n + k
      BY <1>1, <1>2, <2>2
    <3>2. wire'[m + 1] = joined + n + (m + 1)
      BY <1>1, <2>1, <2>2, OneFurther
    <3>. QED  BY <1>2, <3>1, <3>2
  <2>4. joined + n + (m + 1) = announced'
    BY <1>1, <1>3, <2>1, OneFurther
  <2>5. /\ joined' + Len(page'.live) + Len(wire') = announced'
        /\ \A k \in 1..Len(wire') : wire'[k] = joined' + Len(page'.live) + k
    <3>1. joined' = joined /\ Len(page'.live) = n /\ Len(wire') = m + 1
      BY <1>2, <1>3, <2>2
    <3>. QED  BY <2>3, <2>4, <3>1
  <2>6. announced' \in Nat
    BY <1>1, <1>3
  <2>7. /\ page'.live \in Seq(Nat)
        /\ \A k \in 1..Len(page'.live) : page'.live[k] = joined' + k
        /\ announced' \in {Len(rows'), Len(rows') - 1}
        /\ joined' \in Nat /\ socket' = "open" /\ wire' \in Seq(Nat)
    BY <1>0, <1>3, <1>4, <2>2 DEF FeedInv
  <2>8. joined' + Len(page'.live) + Len(wire') <= announced'
    BY <2>5, <2>6
  <2>. QED  BY <2>5, <2>6, <2>7, <2>8 DEF FeedInv
<1>5. CASE socket # "open"
  <2>1. wire' = wire
    BY <1>5 DEF Broadcast
  <2>2. joined + Len(page.live) + Len(wire) <= announced'
    BY <1>1, <1>2, <1>3
  <2>. QED  BY <1>0, <1>1, <1>3, <1>5, <2>1, <2>2 DEF FeedInv
<1>. QED  BY <1>4, <1>5

LEMMA ReceiveKeepsFeed ==
  ASSUME PageInv, Receive
  PROVE  FeedInv'
<1>0. LogInv /\ FeedInv /\ page \in Page
  BY DEF PageInv, AnswerInv
<1>1. /\ announced \in Nat /\ joined \in Nat
      /\ wire \in Seq(Nat) /\ page.live \in Seq(Nat) /\ wire # <<>>
      /\ \A k \in 1..Len(page.live) : page.live[k] = joined + k
      /\ \A k \in 1..Len(wire) : wire[k] = joined + Len(page.live) + k
  BY <1>0 DEF FeedInv, Receive
<1>2. PICK n \in Nat, m \in Nat : n = Len(page.live) /\ m + 1 = Len(wire)
  <2>1. Len(page.live) \in Nat /\ Len(wire) \in Nat /\ Len(wire) >= 1
    BY <1>1
  <2>2. Len(wire) - 1 \in Nat /\ Len(wire) - 1 + 1 = Len(wire)
    BY <2>1
  <2>. QED  BY <2>1, <2>2
<1>3. /\ announced' = announced /\ rows' = rows /\ socket' = socket /\ joined' = joined
      /\ wire' = Tail(wire) /\ page'.live = Append(page.live, Head(wire))
  BY <1>0 DEF Receive, log, Page
<1>4. Head(wire) = joined + n + 1 /\ Head(wire) \in Nat
  <2>1. Head(wire) = wire[1] /\ 1 \in 1..Len(wire)
    BY <1>1, <1>2
  <2>. QED  BY <1>1, <1>2, <2>1
<1>5. /\ wire' \in Seq(Nat) /\ Len(wire') = m
      /\ \A k \in 1..m : wire'[k] = wire[k + 1]
  BY <1>1, <1>2, <1>3
<1>6. /\ page'.live \in Seq(Nat) /\ Len(page'.live) = n + 1
      /\ page'.live[n + 1] = Head(wire)
      /\ \A k \in 1..n : page'.live[k] = page.live[k]
  BY <1>1, <1>2, <1>3, <1>4
<1>7. \A k \in 1..(n + 1) : page'.live[k] = joined + k
  <2>1. \A k \in 1..n : page'.live[k] = joined + k
    BY <1>1, <1>2, <1>6
  <2>2. page'.live[n + 1] = joined + (n + 1)
    BY <1>1, <1>2, <1>4, <1>6
  <2>. QED  BY <1>2, <2>1, <2>2
<1>8. \A k \in 1..m : wire'[k] = joined + (n + 1) + k
  <2>1. ASSUME NEW k \in 1..m PROVE wire[k + 1] = joined + n + (k + 1)
    <3>1. k + 1 \in 1..Len(wire)
      BY <1>2
    <3>. QED  BY <1>1, <1>2, <3>1
  <2>2. \A k \in 1..m : joined + n + (k + 1) = joined + (n + 1) + k
    <3>1. \A k \in 1..m : k \in Nat
      OBVIOUS
    <3>. QED  BY <1>1, <3>1, OneFurther
  <2>. QED  BY <1>5, <2>1, <2>2
<1>9. /\ joined + (n + 1) + m <= announced
      /\ socket = "open" => joined + (n + 1) + m = announced
      /\ socket \notin {"none", "connecting"}
  <2>1. /\ joined + n + (m + 1) <= announced
        /\ socket = "open" => joined + n + (m + 1) = announced
        /\ socket \notin {"none", "connecting"}
    <3>1. socket \notin {"none", "connecting"}
      BY <1>0, <1>1 DEF FeedInv
    <3>. QED  BY <1>0, <1>2, <3>1 DEF FeedInv
  <2>. QED  BY <1>1, <2>1, OneFurther
<1>. QED  BY <1>0, <1>1, <1>3, <1>5, <1>6, <1>7, <1>8, <1>9 DEF FeedInv

\* A step that moves neither rows nor socket.
LEMMA SameFeed ==
  ASSUME PageInv, UNCHANGED <<rows, announced, socket, joined, wire>>, page'.live = page.live
  PROVE  FeedInv'
BY DEF PageInv, FeedInv

LEMMA FeedMoves ==
  ASSUME PageInv, [PageNext]_pageVars
  PROVE  FeedInv'
<1>0. LogInv /\ FeedInv /\ AnswerInv /\ page \in Page
  BY DEF PageInv, AnswerInv
<1>1. CASE \E row \in Row : Record(row)
  <2>1. UNCHANGED <<announced, feed, page>> /\ LogGrows
    BY <1>1, RecordKeepsLog DEF Record
  <2>. QED  BY <2>1, RecordKeepsFeed
<1>2. CASE ServeEnd
  <2>1. UNCHANGED <<announced, feed, page>>
    BY <1>2 DEF ServeEnd
  <2>2. CASE rows' = rows
    BY <2>1, <2>2, SameFeed DEF feed
  <2>3. CASE rows' # rows
    BY <1>2, <2>1, <2>3, ServeEndKeepsLog, RecordKeepsFeed
  <2>. QED  BY <2>2, <2>3
<1>3. CASE Register
  <2>1. /\ joined' = announced /\ socket' = "open" /\ page.live = <<>> /\ wire = <<>>
        /\ UNCHANGED <<rows, announced, wire, page>>
    BY <1>0, <1>3 DEF Register, FeedInv, log
  <2>2. Len(page.live) = 0 /\ Len(wire) = 0
    BY <2>1
  <2>3. announced \in Nat /\ announced' + 0 + 0 = announced
    BY <1>0, <2>1, OneFurther DEF FeedInv
  <2>4. /\ joined' + Len(page'.live) + Len(wire') <= announced'
        /\ joined' + Len(page'.live) + Len(wire') = announced'
    BY <2>1, <2>2, <2>3
  <2>5. /\ wire' = <<>> /\ page'.live = <<>>
        /\ \A k \in 1..Len(page'.live) : page'.live[k] = joined' + k
        /\ \A k \in 1..Len(wire') : wire'[k] = joined' + Len(page'.live) + k
    BY <2>1, <2>2
  <2>6. /\ announced' \in {Len(rows'), Len(rows') - 1} /\ joined' \in Nat /\ announced' \in Nat
        /\ wire' \in Seq(Nat) /\ page'.live \in Seq(Nat)
    BY <1>0, <2>1 DEF FeedInv
  <2>. QED  BY <2>1, <2>4, <2>5, <2>6 DEF FeedInv
<1>4. CASE SocketCloses
  BY <1>0, <1>4 DEF SocketCloses, FeedInv, log
<1>5. CASE Restart
  <2>1. /\ announced' = Len(rows) /\ announced' >= announced /\ announced' \in Nat
        /\ socket' # "open" /\ socket' \in {"none", "closed"}
        /\ (socket' = "none" => socket = "none")
        /\ UNCHANGED <<rows, joined, wire, page>>
    BY <1>0, <1>5 DEF Restart, FeedInv, LogInv, LogIsWalk
  <2>2. joined + Len(page.live) + Len(wire) <= announced'
    BY <1>0, <2>1 DEF FeedInv
  <2>. QED  BY <1>0, <2>1, <2>2 DEF FeedInv
<1>6. CASE Open
  <2>1. /\ socket = "none" /\ socket' = "connecting" /\ page'.live = page.live
        /\ UNCHANGED <<rows, announced, joined, wire>>
    BY <1>0, <1>6 DEF Open, AnswerInv, Page, log
  <2>. QED  BY <1>0, <2>1 DEF FeedInv
<1>7. CASE \/ Take \/ TakeFails \/ Tick \/ AskEnd \/ CancelEnd \/ ConfirmEnd \/ EndAnswered
           \/ QueryEvents \/ QueryRest \/ UNCHANGED pageVars
  <2>1. UNCHANGED <<rows, announced, socket, joined, wire>>
    BY <1>7 DEF Take, TakeFails, Tick, AskEnd, CancelEnd, ConfirmEnd, EndAnswered,
                QueryEvents, QueryRest, Query, pageVars, log, feed
  <2>2. page'.live = page.live
    BY <1>0, <1>7 DEF Take, TakeFails, Tick, AskEnd, CancelEnd, ConfirmEnd, EndAnswered,
                      QueryEvents, QueryRest, Query, pageVars, Page
  <2>. QED  BY <2>1, <2>2, SameFeed
<1>. QED
  BY <1>1, <1>2, <1>3, <1>4, <1>5, <1>6, <1>7, BroadcastKeepsFeed, ReceiveKeepsFeed DEF PageNext

LEMMA AnswerMoves ==
  ASSUME PageInv, [PageNext]_pageVars
  PROVE  AnswerInv'
<1>0. /\ announced \in Nat /\ Len(rows) \in Nat /\ announced <= Len(rows)
      /\ Len(rows) <= announced + 1
      /\ wire \in Seq(Nat) /\ page.live \in Seq(Nat) /\ page \in Page /\ answer \in Answer
      /\ answer.events \in Nat /\ answer.events <= announced /\ AnswerInv
      /\ answer.stage \in {"none", "events", "rest", "sent", "taken", "failed"}
  BY DEF PageInv, FeedInv, AnswerInv, LogInv, LogIsWalk, Answer
<1>1. CASE \/ \E row \in Row : Record(row)
           \/ ServeEnd \/ Register \/ SocketCloses \/ UNCHANGED pageVars
  <2>1. UNCHANGED <<announced, answer, page>>
    BY <1>1 DEF Record, ServeEnd, Register, SocketCloses, pageVars, log
  <2>2. request' \in {"none", "sent", "recorded", "accepted", "refused"}
    BY <1>0, <1>1 DEF Record, ServeEnd, Register, SocketCloses, pageVars, AnswerInv
  <2>3. ~page.open => socket' = "none"
    BY <1>0, <1>1 DEF Record, ServeEnd, Register, SocketCloses, pageVars, feed, AnswerInv
  <2>. QED  BY <1>0, <2>1, <2>2, <2>3 DEF AnswerInv
<1>2. CASE Broadcast
  BY <1>0, <1>2 DEF Broadcast, AnswerInv
<1>3. CASE Restart
  BY <1>0, <1>3 DEF Restart, AnswerInv, Answer
<1>4. CASE QueryEvents
  <2>1. CASE rows = <<>>
    BY <1>0, <1>4, <2>1 DEF QueryEvents, Query, AnswerInv, Answer, Settled, log, feed
  <2>2. CASE rows # <<>>
    <3>1. Len(rows) >= 1
      BY <1>0, <2>2 DEF PageInv, LogInv, LogIsWalk
    <3>. QED  BY <1>0, <1>4, <2>2, <3>1 DEF QueryEvents, Query, AnswerInv, Answer, Settled, log, feed
  <2>. QED  BY <2>1, <2>2
<1>5. CASE QueryRest
  BY <1>0, <1>5 DEF QueryRest, Query, AnswerInv, Answer, log, feed
<1>6. CASE Open
  BY <1>0, <1>6 DEF Open, AnswerInv, Answer, Page, log
<1>7. CASE Take
  BY <1>0, <1>7 DEF Take, AnswerInv, Answer, Page, log, feed
<1>8. CASE TakeFails \/ Tick \/ AskEnd \/ CancelEnd \/ ConfirmEnd \/ EndAnswered
  BY <1>0, <1>8 DEF TakeFails, Tick, AskEnd, CancelEnd, ConfirmEnd, EndAnswered, AnswerInv,
                    Page, log, feed
<1>9. CASE Receive
  <2>1. Append(page.live, Head(wire)) \in Seq(Nat)
    BY <1>0, <1>9 DEF Receive
  <2>2. page' \in Page /\ page'.open = page.open
    BY <1>0, <1>9, <2>1 DEF Receive, Page
  <2>. QED  BY <1>0, <1>9, <2>2 DEF Receive, AnswerInv, log
<1>. QED  BY <1>1, <1>2, <1>3, <1>4, <1>5, <1>6, <1>7, <1>8, <1>9 DEF PageNext

LEMMA PageInvHolds == PageSpec => []PageInv
<1>1. PageInit => PageInv
  <2>. SUFFICES ASSUME PageInit PROVE PageInv
    OBVIOUS
  <2>1. LogInv
    BY DEF PageInit, LogInv, LogIsWalk, PaidStays
  <2>2. FeedInv
    BY DEF PageInit, FeedInv
  <2>3. AnswerInv
    BY DEF PageInit, AnswerInv, Answer, Page
  <2>. QED  BY <2>1, <2>2, <2>3 DEF PageInv
<1>2. PageInv /\ [PageNext]_pageVars => PageInv'
  BY LogMoves, FeedMoves, AnswerMoves DEF PageInv
<1>. QED  BY <1>1, <1>2, PTL DEF PageSpec
-----------------------------------------------------------------------------
\* Rows received from the (j + 1)-th on.
Follows(live, j) == \A k \in 1..Len(live) : live[k] = j + k

Merged(e, live) == [i \in 1..e |-> i] \o NewLive(live, e)

\* Rows 1 to e and j + 1 to j + l, each once: one run from row 1 unless e < j.
Runs(all, e, j, l) ==
  /\ all \in Seq(Nat)
  /\ j + l <= e => Len(all) = e /\ \A k \in 1..e : all[k] = k
  /\ j <= e /\ e < j + l => Len(all) = j + l /\ \A k \in 1..(j + l) : all[k] = k
  /\ e < j => /\ Len(all) = e + l
              /\ \A k \in 1..e : all[k] = k
              /\ \A k \in 1..l : all[e + k] = j + k

\* The snapshot's rows 1 to e followed by what is new in rows j + 1, j + 2 ...
LEMMA MergedRows ==
  ASSUME NEW e \in Nat, NEW j \in Nat, NEW live \in Seq(Nat), NEW l \in Nat, l = Len(live),
         Follows(live, j), NEW all, all = Merged(e, live)
  PROVE  Runs(all, e, j, l)
<1>. DEFINE snapshot == [i \in 1..e |-> i]
            new == NewLive(live, e)
<1>1. /\ snapshot \in Seq(Nat) /\ Len(snapshot) = e
      /\ \A k \in 1..e : snapshot[k] = k
  OBVIOUS
<1>2. ASSUME NEW d \in 0..l, \A k \in 1..l : j + k <= e <=> k <= d
      PROVE  /\ all \in Seq(Nat) /\ Len(all) = e + (l - d)
             /\ \A k \in 1..e : all[k] = k
             /\ \A k \in 1..(l - d) : all[e + k] = j + (d + k)
  <2>1. \A k \in 1..l : live[k] \in 1..e <=> k <= d
    <3>1. ASSUME NEW k \in 1..l PROVE live[k] \in 1..e <=> j + k <= e
      <4>1. live[k] = j + k /\ j + k >= 1 /\ j + k \in Nat
        BY DEF Follows
      <4>. QED  BY <4>1
    <3>. QED  BY <1>2, <3>1
  <2>2. /\ new \in Seq(Nat) /\ Len(new) = l - d
        /\ \A k \in 1..(l - d) : new[k] = live[d + k]
    BY <2>1, NewLiveIsSuffix
  <2>3. \A k \in 1..(l - d) : d + k \in 1..l /\ new[k] = j + (d + k)
    <3>1. ASSUME NEW k \in 1..(l - d) PROVE d + k \in 1..l
      BY <1>2
    <3>. QED  BY <2>2, <3>1 DEF Follows
  <2>. HIDE DEF snapshot, new
  <2>4. all = snapshot \o new
    BY DEF Merged, snapshot, new
  <2>5. /\ all \in Seq(Nat) /\ Len(all) = e + (l - d)
        /\ \A k \in 1..Len(snapshot) : all[k] = snapshot[k]
        /\ \A k \in 1..Len(new) : all[e + k] = new[k]
    <3>1. /\ Len(snapshot \o new) = Len(snapshot) + Len(new)
          /\ snapshot \o new \in Seq(Nat)
          /\ \A k \in 1..(Len(snapshot) + Len(new)) :
               (snapshot \o new)[k] = IF k <= Len(snapshot) THEN snapshot[k]
                                      ELSE new[k - Len(snapshot)]
      BY <1>1, <2>2, ConcatProperties
    <3>2. \A k \in 1..(l - d) : e + k \in 1..(e + (l - d)) /\ ~ (e + k <= e) /\ e + k - e = k
      BY <1>2
    <3>3. \A k \in 1..e : k \in 1..(e + (l - d)) /\ k <= e
      BY <1>2
    <3>4. all \in Seq(Nat) /\ Len(all) = e + (l - d)
      BY <1>1, <2>2, <2>4, <3>1
    <3>5. \A k \in 1..e : all[k] = snapshot[k]
      BY <1>1, <2>2, <2>4, <3>1, <3>3
    <3>6. \A k \in 1..(l - d) : all[e + k] = new[k]
      <4>1. ASSUME NEW k \in 1..(l - d) PROVE all[e + k] = new[e + k - e]
        <5>1. e + k \in 1..(Len(snapshot) + Len(new)) /\ ~ (e + k <= Len(snapshot))
          BY <1>1, <2>2, <3>2
        <5>. QED  BY <1>1, <2>4, <3>1, <5>1
      <4>. QED  BY <3>2, <4>1
    <3>. QED  BY <1>1, <2>2, <3>4, <3>5, <3>6
  <2>. QED  BY <1>1, <2>2, <2>3, <2>5
<1>3. CASE j + l <= e
  <2>1. \A k \in 1..l : j + k <= e <=> k <= l
    BY <1>3
  <2>2. l - l = 0 /\ e + 0 = e /\ l \in 0..l
    OBVIOUS
  <2>3. all \in Seq(Nat) /\ Len(all) = e /\ \A k \in 1..e : all[k] = k
    BY <1>2, <2>1, <2>2
  <2>. QED  BY <1>3, <2>3 DEF Runs
<1>4. CASE j <= e /\ e < j + l
  <2>1. PICK d \in 0..l : e = j + d
    <3>1. e - j \in 0..l /\ e = j + (e - j)
      BY <1>4
    <3>. QED  BY <3>1
  <2>2. \A k \in 1..l : j + k <= e <=> k <= d
    BY <2>1
  <2>3. /\ all \in Seq(Nat) /\ Len(all) = e + (l - d)
        /\ \A k \in 1..e : all[k] = k
        /\ \A k \in 1..(l - d) : all[e + k] = j + (d + k)
    BY <1>2, <2>2
  <2>4. e + (l - d) = j + l
    BY <2>1
  <2>5. ASSUME NEW k \in 1..(j + l) PROVE all[k] = k
    <3>1. CASE k <= e
      BY <2>3, <3>1
    <3>2. CASE k > e
      <4>1. PICK i \in 1..(l - d) : k = e + i
        <5>1. k - e \in 1..(l - d) /\ k = e + (k - e)
          BY <2>1, <3>2
        <5>. QED  BY <5>1
      <4>2. j + (d + i) = e + i
        BY <2>1
      <4>3. all[e + i] = j + (d + i)
        BY <2>3
      <4>. QED  BY <4>1, <4>2, <4>3
    <3>. QED  BY <3>1, <3>2
  <2>. QED  BY <1>4, <2>3, <2>4, <2>5 DEF Runs
<1>5. CASE e < j
  <2>1. \A k \in 1..l : j + k <= e <=> k <= 0
    BY <1>5
  <2>2. l - 0 = l /\ 0 \in 0..l /\ \A k \in 1..l : 0 + k = k
    OBVIOUS
  <2>3. /\ all \in Seq(Nat) /\ Len(all) = e + (l - 0)
        /\ \A k \in 1..e : all[k] = k
        /\ \A k \in 1..(l - 0) : all[e + k] = j + (0 + k)
    BY <1>2, <2>1, <2>2
  <2>4. Len(all) = e + l /\ \A k \in 1..l : all[e + k] = j + k
    BY <2>2, <2>3
  <2>. QED  BY <1>5, <2>3, <2>4 DEF Runs
<1>. QED  BY <1>3, <1>4, <1>5

\* The last row of the snapshot and the rows received after it.
LastRow(e, j, l) == IF l = 0 \/ j + l <= e THEN e ELSE j + l

\* The last row of the merged ones, and that they are in the log's order.
LEMMA MergedRowsAscend ==
  ASSUME NEW e \in Nat, e >= 1, NEW j \in Nat, NEW l \in Nat, NEW all, Runs(all, e, j, l)
  PROVE  /\ all \in Seq(Nat) /\ Len(all) \in Nat /\ Len(all) >= 1
         /\ all[Len(all)] = LastRow(e, j, l)
         /\ \A k \in 1..Len(all) : all[k] \in Nat /\ all[k] >= 1 /\ all[k] <= all[Len(all)]
         /\ \A i, k \in 1..Len(all) : i < k => all[i] < all[k]
<1>0. all \in Seq(Nat)
  BY DEF Runs
<1>1. CASE j + l <= e
  <2>1. Len(all) = e /\ \A k \in 1..e : all[k] = k
    BY <1>1 DEF Runs
  <2>2. e \in 1..e
    OBVIOUS
  <2>. QED  BY <1>0, <1>1, <2>1, <2>2 DEF LastRow
<1>2. CASE j <= e /\ e < j + l
  <2>1. Len(all) = j + l /\ \A k \in 1..(j + l) : all[k] = k
    BY <1>2 DEF Runs
  <2>2. j + l \in 1..(j + l) /\ l # 0
    BY <1>2
  <2>. QED  BY <1>0, <1>2, <2>1, <2>2 DEF LastRow
<1>3. CASE e < j /\ l = 0
  <2>1. Len(all) = e /\ \A k \in 1..e : all[k] = k
    BY <1>3 DEF Runs
  <2>2. e \in 1..e
    OBVIOUS
  <2>. QED  BY <1>0, <1>3, <2>1, <2>2 DEF LastRow
<1>4. CASE e < j /\ l # 0
  <2>1. /\ Len(all) = e + l
        /\ \A k \in 1..e : all[k] = k
        /\ \A k \in 1..l : all[e + k] = j + k
    BY <1>4 DEF Runs
  <2>2. ASSUME NEW k \in 1..(e + l), k > e
        PROVE  \E i \in 1..l : k = e + i /\ all[k] = j + i
    <3>1. k - e \in 1..l /\ k = e + (k - e)
      BY <2>2
    <3>. QED  BY <2>1, <3>1
  <2>3. all[e + l] = j + l
    BY <1>4, <2>1
  <2>4. ASSUME NEW k \in 1..(e + l) PROVE all[k] \in Nat /\ all[k] >= 1 /\ all[k] <= j + l
    <3>1. CASE k <= e
      <4>1. k \in 1..e
        BY <3>1
      <4>2. all[k] = k
        BY <2>1, <4>1
      <4>. QED  BY <1>4, <4>1, <4>2
    <3>2. CASE k > e
      BY <2>2, <3>2
    <3>. QED  BY <3>1, <3>2
  <2>5. ASSUME NEW i \in 1..(e + l), NEW k \in 1..(e + l), i < k PROVE all[i] < all[k]
    <3>1. CASE k <= e
      <4>1. i \in 1..e /\ k \in 1..e
        BY <2>5, <3>1
      <4>. QED  BY <2>1, <2>5, <4>1
    <3>2. CASE k > e
      <4>1. PICK m \in 1..l : k = e + m /\ all[k] = j + m
        BY <2>2, <3>2
      <4>2. CASE i <= e
        <5>1. i \in 1..e
          BY <4>2
        <5>2. all[i] = i
          BY <2>1, <5>1
        <5>3. i < j + m
          BY <1>4, <4>2
        <5>. QED  BY <4>1, <5>2, <5>3
      <4>3. CASE i > e
        <5>1. PICK h \in 1..l : i = e + h /\ all[i] = j + h
          BY <2>2, <4>3
        <5>2. e + h < e + m
          BY <2>5, <4>1, <5>1
        <5>3. j + h < j + m
          BY <5>2
        <5>. QED  BY <4>1, <5>1, <5>3
      <4>. QED  BY <4>2, <4>3
    <3>. QED  BY <3>1, <3>2
  <2>. QED  BY <1>0, <1>4, <2>1, <2>3, <2>4, <2>5 DEF LastRow
<1>. QED  BY <1>1, <1>2, <1>3, <1>4
-----------------------------------------------------------------------------
LEMMA InRange ==
  ASSUME NEW s \in Seq(Nat), NEW n \in Nat, \A k \in 1..Len(s) : s[k] \in 1..n
  PROVE  s \in Seq(1..n)
BY SeqDef

\* Types of the page's state, the feed's bounds included: no row is announced,
\* sent, received or read before it was recorded.
THEOREM PageTypeCorrect == PageSpec => []PageTypeOK
<1>1. PageInv => PageTypeOK
  <2>. SUFFICES ASSUME PageInv PROVE PageTypeOK
    OBVIOUS
  <2>0. LogInv /\ FeedInv /\ AnswerInv
    BY DEF PageInv
  <2>1. PICK n \in Nat, m \in Nat : n = Len(page.live) /\ m = Len(wire)
    BY <2>0 DEF FeedInv
  <2>2. /\ rows \in Seq(Row) /\ Len(rows) \in Nat /\ announced \in 0..Len(rows)
        /\ joined \in Nat /\ joined + n + m <= announced /\ announced \in Nat
    BY <2>0, <2>1 DEF LogInv, LogIsWalk, FeedInv
  <2>3. page.live \in Seq(1..announced)
    <3>1. \A k \in 1..Len(page.live) : page.live[k] \in 1..announced
      BY <2>0, <2>1, <2>2 DEF FeedInv
    <3>. QED  BY <2>0, <2>2, <3>1, InRange DEF FeedInv
  <2>4. wire \in Seq(1..announced)
    <3>1. \A k \in 1..Len(wire) : wire[k] = joined + n + k
      BY <2>0, <2>1 DEF FeedInv
    <3>2. \A k \in 1..m : joined + n + k \in 1..announced
      BY <2>2
    <3>3. \A k \in 1..Len(wire) : wire[k] \in 1..announced
      BY <2>1, <3>1, <3>2
    <3>. QED  BY <2>0, <2>2, <3>3, InRange DEF FeedInv
  <2>5. joined \in 0..announced /\ answer.events \in 0..Len(rows)
    BY <2>0, <2>1, <2>2 DEF AnswerInv, Answer
  <2>6. socket \in {"none", "connecting", "open", "closed"}
    BY <2>0 DEF FeedInv
  <2>. QED  BY <2>0, <2>2, <2>3, <2>4, <2>5, <2>6 DEF PageTypeOK, AnswerInv
<1>. QED  BY <1>1, PageInvHolds, PTL
-----------------------------------------------------------------------------
\* What the page merges once it has the snapshot.
LEMMA LoadedRows ==
  ASSUME PageInv, Loaded
  PROVE  /\ answer.events \in Nat /\ answer.events >= 1 /\ answer.events <= announced
         /\ joined \in Nat /\ announced \in Nat /\ announced <= Len(rows) /\ Len(rows) \in Nat
         /\ page.live \in Seq(Nat) /\ Len(page.live) \in Nat
         /\ joined + Len(page.live) <= announced
         /\ Follows(page.live, joined)
         /\ AllEvents = Merged(answer.events, page.live)
         /\ Runs(AllEvents, answer.events, joined, Len(page.live))
<1>0. LogInv /\ FeedInv /\ AnswerInv
  BY DEF PageInv
<1>1. /\ answer.events \in Nat /\ answer.events >= 1 /\ answer.events <= announced
  BY <1>0 DEF AnswerInv, Answer, Loaded
<1>2. /\ joined \in Nat /\ announced \in Nat /\ announced <= Len(rows) /\ Len(rows) \in Nat
      /\ page.live \in Seq(Nat) /\ Len(page.live) \in Nat /\ Len(wire) \in Nat
      /\ joined + Len(page.live) + Len(wire) <= announced
  BY <1>0 DEF FeedInv, LogInv, LogIsWalk
<1>3. joined + Len(page.live) <= announced
  BY <1>2
<1>4. Follows(page.live, joined)
  BY <1>0 DEF FeedInv, Follows
<1>5. AllEvents = Merged(answer.events, page.live)
  BY DEF AllEvents, Merged
<1>6. Runs(AllEvents, answer.events, joined, Len(page.live))
  BY <1>1, <1>2, <1>4, <1>5, MergedRows
<1>. QED  BY <1>1, <1>2, <1>3, <1>4, <1>5, <1>6

\* A row of the snapshot or of the live ones is among the merged ones.
LEMMA RowIsMerged ==
  ASSUME NEW e \in Nat, NEW j \in Nat, NEW l \in Nat, NEW all, Runs(all, e, j, l),
         NEW i \in Nat, i >= 1, i <= e \/ (j < i /\ i <= j + l)
  PROVE  all \in Seq(Nat) /\ \E k \in 1..Len(all) : all[k] = i
<1>0. all \in Seq(Nat)
  BY DEF Runs
<1>1. CASE j + l <= e
  <2>1. i \in 1..e
    BY <1>1
  <2>. QED  BY <1>0, <1>1, <2>1 DEF Runs
<1>2. CASE j <= e /\ e < j + l
  <2>1. i \in 1..(j + l)
    BY <1>2
  <2>. QED  BY <1>0, <1>2, <2>1 DEF Runs
<1>3. CASE e < j
  <2>1. /\ Len(all) = e + l
        /\ \A k \in 1..e : all[k] = k
        /\ \A k \in 1..l : all[e + k] = j + k
    BY <1>3 DEF Runs
  <2>2. CASE i <= e
    <3>1. i \in 1..e /\ i \in 1..(e + l)
      BY <2>2
    <3>. QED  BY <1>0, <2>1, <3>1
  <2>3. CASE j < i /\ i <= j + l
    <3>1. PICK k \in 1..l : i = j + k
      <4>1. i - j \in 1..l /\ i = j + (i - j)
        BY <2>3
      <4>. QED  BY <4>1
    <3>2. e + k \in 1..(e + l)
      BY <3>1
    <3>. QED  BY <1>0, <2>1, <3>1, <3>2
  <2>. QED  BY <2>2, <2>3
<1>. QED  BY <1>1, <1>2, <1>3

\* Snapshot and feed together miss no row but the ones of the gap, and show
\* none twice: the merge of useLiveEvents' rows into the snapshot's.
THEOREM FeedCompletes == PageSpec => []FeedIsComplete
<1>1. PageInv => FeedIsComplete
  <2>. SUFFICES ASSUME PageInv, Loaded, socket = "open"
                PROVE  /\ \A i \in 1..announced : \/ i \in (answer.events + 1)..joined
                                                  \/ \E k \in DOMAIN AllEvents : AllEvents[k] = i
                                                  \/ \E k \in DOMAIN wire : wire[k] = i
                       /\ \A j, k \in DOMAIN AllEvents : j < k => AllEvents[j] < AllEvents[k]
    BY DEF FeedIsComplete
  <2>1. PICK e \in Nat, j \in Nat, l \in Nat, m \in Nat :
          e = answer.events /\ j = joined /\ l = Len(page.live) /\ m = Len(wire)
    <3>1. wire \in Seq(Nat) /\ page.live \in Seq(Nat)
      BY DEF PageInv, FeedInv
    <3>2. Len(wire) \in Nat /\ Len(page.live) \in Nat
      BY <3>1
    <3>. QED  BY <3>2, LoadedRows
  <2>2. /\ wire \in Seq(Nat) /\ announced \in Nat /\ j + l + m = announced
        /\ \A k \in 1..m : wire[k] = j + l + k
    BY <2>1 DEF PageInv, FeedInv
  <2>3. AllEvents \in Seq(Nat) /\ Runs(AllEvents, e, j, l)
    BY <2>1, LoadedRows DEF Runs
  <2>4. ASSUME NEW i \in 1..announced, i \notin (e + 1)..j
        PROVE  \/ \E k \in 1..Len(AllEvents) : AllEvents[k] = i
               \/ \E k \in 1..m : wire[k] = i
    <3>1. CASE i <= e \/ (j < i /\ i <= j + l)
      <4>1. i \in Nat /\ i >= 1
        BY <2>2
      <4>2. \E k \in 1..Len(AllEvents) : AllEvents[k] = i
        BY <2>3, <3>1, <4>1, RowIsMerged
      <4>. QED  BY <4>2
    <3>2. CASE j + l < i
      <4>1. i - (j + l) \in 1..m /\ i = j + l + (i - (j + l))
        BY <2>1, <2>2, <3>2
      <4>. QED  BY <2>2, <4>1
    <3>. QED  BY <2>1, <2>2, <2>4, <3>1, <3>2
  <2>5. \A i, k \in 1..Len(AllEvents) : i < k => AllEvents[i] < AllEvents[k]
    <3>1. e >= 1
      BY <2>1, LoadedRows
    <3>. QED  BY <2>3, <3>1, MergedRowsAscend
  <2>6. DOMAIN AllEvents = 1..Len(AllEvents) /\ DOMAIN wire = 1..m
    BY <2>1, <2>2, <2>3
  <2>. QED  BY <2>1, <2>4, <2>5, <2>6
<1>. QED  BY <1>1, PageInvHolds, PTL
-----------------------------------------------------------------------------
\* The row shown last.
LastShown == LastRow(answer.events, joined, Len(page.live))

\* Of what is shown the heading depends on the last row, whatever came before.
LEMMA ShownRows ==
  PageInv /\ Loaded => /\ AllEvents[Len(AllEvents)] = LastShown
                       /\ LastShown \in 1..announced /\ LastShown \in 1..Len(rows)
                       /\ CurrentState = rows[LastShown].to
<1>. SUFFICES ASSUME PageInv, Loaded,
                     NEW l \in Nat, l = Len(page.live), NEW last, last = LastShown
              PROVE  /\ AllEvents[Len(AllEvents)] = last
                     /\ last \in 1..announced /\ last \in 1..Len(rows)
                     /\ CurrentState = rows[last].to
  BY LoadedRows
<1>1. PICK e \in Nat, j \in Nat, n \in Nat :
        /\ e = answer.events /\ j = joined /\ n = Len(AllEvents)
        /\ e >= 1 /\ Runs(AllEvents, e, j, l)
        /\ e <= announced /\ j + l <= announced
        /\ announced \in Nat /\ announced <= Len(rows) /\ Len(rows) \in Nat
  <2>1. AllEvents \in Seq(Nat)
    BY LoadedRows DEF Runs
  <2>2. Len(AllEvents) \in Nat
    BY <2>1
  <2>. QED  BY <2>2, LoadedRows
<1>2. /\ AllEvents \in Seq(Nat) /\ n >= 1
      /\ AllEvents[n] = last
      /\ \A k \in 1..n : AllEvents[k] \in Nat /\ AllEvents[k] >= 1 /\ AllEvents[k] <= last
  <2>1. /\ AllEvents \in Seq(Nat) /\ Len(AllEvents) >= 1
        /\ AllEvents[Len(AllEvents)] = LastRow(e, j, l)
        /\ \A k \in 1..Len(AllEvents) : /\ AllEvents[k] \in Nat /\ AllEvents[k] >= 1
                                       /\ AllEvents[k] <= AllEvents[Len(AllEvents)]
    <3>1. e >= 1 /\ Runs(AllEvents, e, j, l)
      BY <1>1
    <3>. QED  BY <3>1, MergedRowsAscend
  <2>2. last = LastRow(e, j, l)
    BY <1>1 DEF LastShown
  <2>. QED  BY <1>1, <2>1, <2>2
<1>3. last \in 1..announced /\ last \in 1..Len(rows)
  <2>1. last \in Nat /\ last >= 1 /\ last <= announced
    BY <1>1 DEF LastShown, LastRow
  <2>. QED  BY <1>1, <2>1
<1>4. CurrentState = rows[last].to
  <2>1. /\ DOMAIN AllEvents = 1..n
        /\ \A k \in 1..n : AllEvents[k] \in 1..Len(rows)
    BY <1>1, <1>2, <1>3
  <2>2. rows \in Seq(Row)
    BY DEF PageInv, LogInv, LogIsWalk
  <2>3. Shown = [k \in 1..n |-> rows[AllEvents[k]]]
    BY <2>1 DEF Shown
  <2>4. \A k \in 1..n : rows[AllEvents[k]] \in Row
    BY <2>1, <2>2
  <2>. HIDE DEF Shown
  <2>5. Shown \in Seq(Row) /\ Len(Shown) = n /\ Shown[n] = rows[last]
    BY <1>1, <1>2, <2>3, <2>4
  <2>6. Shown # <<>>
    BY <1>1, <1>2, <2>5
  <2>. QED  BY <2>5, <2>6 DEF CurrentState, State
<1>. QED  BY <1>1, <1>2, <1>3, <1>4

\* Once everything sent has arrived the heading is the session's state and
\* relay; only a row lost in the gap may hide them, the state until the next
\* row comes.
THEOREM ShowsCurrent == PageSpec => []ShownIsCurrent
<1>1. PageInv => ShownIsCurrent
  <2>. SUFFICES ASSUME PageInv, Loaded, socket = "open", Settled, wire = <<>>
                PROVE  /\ ~Gap \/ joined < Len(rows) => Header.state = State(rows)
                       /\ ~Gap => Header.relay = Relay(rows)
    BY DEF ShownIsCurrent
  <2>1. PICK e \in Nat, j \in Nat, l \in Nat, n \in Nat :
          e = answer.events /\ j = joined /\ l = Len(page.live) /\ n = Len(rows)
    BY LoadedRows
  <2>2. /\ j + l = n /\ e <= n /\ e >= 1
        /\ rows \in Seq(Row)
    <3>1. announced = n /\ Len(wire) = 0 /\ joined + Len(page.live) + Len(wire) = announced
      BY <2>1 DEF PageInv, FeedInv, Settled
    <3>2. e <= announced /\ e >= 1
      BY <2>1, LoadedRows
    <3>. QED  BY <2>1, <3>1, <3>2 DEF PageInv, LogInv, LogIsWalk
  <2>3. rows # <<>> /\ n >= 1
    BY <2>1, <2>2
  <2>4. CASE ~Gap
    <3>1. j <= e
      BY <2>1, <2>4 DEF Gap
    <3>2. /\ AllEvents \in Seq(Nat) /\ Len(AllEvents) = n
          /\ \A k \in 1..n : AllEvents[k] = k
      <4>1. Runs(AllEvents, e, j, l)
        BY <2>1, LoadedRows
      <4>2. CASE j + l <= e
        <5>1. e = n
          BY <2>2, <4>2
        <5>. QED  BY <4>1, <4>2, <5>1 DEF Runs
      <4>3. CASE e < j + l
        BY <2>2, <3>1, <4>1, <4>3 DEF Runs
      <4>. QED  BY <4>2, <4>3
    <3>3. Shown = rows
      <4>1. DOMAIN AllEvents = 1..n
        BY <3>2
      <4>2. Shown = [k \in 1..n |-> rows[k]]
        BY <3>2, <4>1 DEF Shown
      <4>3. rows = [k \in 1..n |-> rows[k]]
        BY <2>1, <2>2
      <4>. QED  BY <4>2, <4>3
    <3>. QED  BY <3>3 DEF Header, CurrentState, CurrentRelay
  <2>5. CASE Gap /\ joined < Len(rows)
    <3>1. LastRow(e, j, l) = n
      BY <2>1, <2>2, <2>5 DEF LastRow
    <3>2. CurrentState = rows[n].to
      BY <2>1, <3>1, ShownRows DEF LastShown
    <3>3. State(rows) = rows[n].to
      BY <2>1, <2>3 DEF State
    <3>. QED  BY <2>5, <3>2, <3>3 DEF Header
  <2>. QED  BY <2>4, <2>5
<1>. QED  BY <1>1, PageInvHolds, PTL
-----------------------------------------------------------------------------
\* A page that has its snapshot keeps it, and its feed moves on: it is only
\* registered while nothing was received.
LEMMA LoadedMoves ==
  ASSUME PageInv, Loaded, [PageNext]_pageVars
  PROVE  /\ answer' = answer
         /\ \/ Len(page.live) = 0
            \/ joined' = joined /\ Len(page'.live) = Len(page.live)
            \/ joined' = joined /\ Len(page'.live) = Len(page.live) + 1
<1>0. /\ page \in Page /\ page.open /\ answer.stage = "taken"
      /\ page.live \in Seq(Nat) /\ wire \in Seq(Nat)
      /\ socket \in {"none", "connecting"} => page.live = <<>>
  BY DEF PageInv, FeedInv, AnswerInv, Loaded
<1>1. CASE Receive
  <2>1. page'.live = Append(page.live, Head(wire)) /\ UNCHANGED <<joined, answer>>
    BY <1>0, <1>1 DEF Receive, Page
  <2>2. Head(wire) \in Nat
    BY <1>0, <1>1 DEF Receive
  <2>. QED  BY <1>0, <2>1, <2>2
<1>2. CASE Register
  BY <1>0, <1>2 DEF Register
<1>3. CASE \/ \E row \in Row : Record(row)
           \/ Broadcast \/ SocketCloses \/ Restart \/ ServeEnd \/ UNCHANGED pageVars
  <2>1. UNCHANGED <<joined, page, answer>>
    BY <1>0, <1>3 DEF Record, Broadcast, SocketCloses, Restart, ServeEnd, pageVars, feed
  <2>. QED  BY <2>1
<1>4. CASE TakeFails \/ Tick \/ AskEnd \/ CancelEnd \/ ConfirmEnd \/ EndAnswered
  <2>1. UNCHANGED <<joined, answer>> /\ page'.live = page.live
    BY <1>0, <1>4 DEF TakeFails, Tick, AskEnd, CancelEnd, ConfirmEnd, EndAnswered, feed, Page
  <2>. QED  BY <2>1
<1>5. ~ (QueryEvents \/ QueryRest \/ Open \/ Take)
  BY <1>0 DEF QueryEvents, QueryRest, Query, Open, Take
<1>. QED  BY <1>1, <1>2, <1>3, <1>4, <1>5 DEF PageNext

\* The row a loaded page shows last is never followed by an earlier one, an
\* ended session stays ended and what is paid stays paid, although the
\* snapshot, the feed and restarts of the orchestrator race.
THEOREM NeverGoesBack == PageSpec => ShownNeverGoesBack
<1>1. (PageInv /\ Loaded => /\ AllEvents[Len(AllEvents)] = LastShown
                            /\ LastShown \in 1..announced /\ LastShown \in 1..Len(rows)
                            /\ CurrentState = rows[LastShown].to)'
  BY ShownRows, PTL
<1>2. ASSUME PageInv, PageInv', Loaded, [PageNext]_pageVars
      PROVE  /\ AllEvents[Len(AllEvents)] <= AllEvents'[Len(AllEvents')]
             /\ Countdown = "Ended" => Countdown' = "Ended"
             /\ StepsDone(CurrentState) \cap {1, 2} \subseteq StepsDone(CurrentState')
  <2>1. answer' = answer /\ Loaded'
    BY <1>2, LoadedMoves DEF Loaded
  <2>2. PICK a \in Nat, b \in Nat :
          /\ a = LastShown /\ b = LastShown'
          /\ AllEvents[Len(AllEvents)] = a /\ AllEvents'[Len(AllEvents')] = b
          /\ a \in 1..Len(rows) /\ CurrentState = rows[a].to
          /\ b \in 1..Len(rows') /\ CurrentState' = rows'[b].to
    <3>1. /\ LastShown \in 1..Len(rows) /\ AllEvents[Len(AllEvents)] = LastShown
          /\ CurrentState = rows[LastShown].to
      BY <1>2, ShownRows
    <3>2. /\ LastShown' \in 1..Len(rows') /\ AllEvents'[Len(AllEvents')] = LastShown'
          /\ CurrentState' = rows'[LastShown'].to
      BY <1>1, <1>2, <2>1
    <3>3. LastShown \in Nat /\ LastShown' \in Nat
      BY <3>1, <3>2
    <3>. QED  BY <3>1, <3>2, <3>3
  <2>3. a <= b
    <3>1. PICK e \in Nat, j \in Nat, l \in Nat :
            /\ e = answer.events /\ j = joined /\ l = Len(page.live)
            /\ a = LastRow(e, j, l)
      BY <1>2, <2>2, LoadedRows DEF LastShown
    <3>2. PICK i \in Nat, k \in Nat :
            /\ i = joined' /\ k = Len(page'.live)
            /\ b = LastRow(e, i, k)
      <4>1. joined' \in Nat /\ page'.live \in Seq(Nat)
        BY <1>2 DEF PageInv, FeedInv
      <4>2. Len(page'.live) \in Nat /\ answer'.events = e
        BY <2>1, <3>1, <4>1
      <4>. QED  BY <2>2, <4>1, <4>2 DEF LastShown
    <3>3. l = 0 \/ (i = j /\ k = l) \/ (i = j /\ k = l + 1)
      <4>1. \/ Len(page.live) = 0
            \/ joined' = joined /\ Len(page'.live) = Len(page.live)
            \/ joined' = joined /\ Len(page'.live) = Len(page.live) + 1
        BY <1>2, LoadedMoves
      <4>. QED  BY <3>1, <3>2, <4>1
    <3>. QED  BY <3>1, <3>2, <3>3 DEF LastRow
  <2>4. /\ LogInv /\ LogInv' /\ Len(rows) \in Nat
        /\ rows' = rows \/ LogGrows
    BY <1>2, LogMoves DEF PageInv, LogInv, LogIsWalk
  <2>5. Countdown = "Ended" => Countdown' = "Ended"
    <3>. SUFFICES ASSUME Countdown = "Ended" PROVE Countdown' = "Ended"
      OBVIOUS
    <3>1. CurrentState \in Terminal
      BY DEF Countdown
    <3>2. rows[a].to = "EXPIRED_NORMAL" /\ a = Len(rows)
      BY <2>2, <2>4, <3>1 DEF LogInv, LogIsWalk, Written, Terminal
    <3>3. rows' = rows
      <4>1. rows # <<>> /\ State(rows) = "EXPIRED_NORMAL"
        BY <2>2, <3>2 DEF State
      <4>. QED  BY <2>4, <4>1 DEF LogGrows
    <3>4. b = a
      BY <2>2, <2>3, <3>2, <3>3
    <3>5. CurrentState' \in Terminal'
      BY <2>2, <3>1, <3>3, <3>4 DEF Terminal
    <3>. QED  BY <3>5 DEF Countdown
  <2>6. StaysPaid(CurrentState, CurrentState')
    <3>1. rows'[a] = rows[a] /\ a \in 1..Len(rows')
      <4>1. CASE rows' = rows
        BY <2>2, <4>1
      <4>2. CASE LogGrows
        <5>1. PICK row \in Row : rows' = Append(rows, row)
          BY <4>2 DEF LogGrows
        <5>2. rows \in Seq(Row)
          BY <2>4 DEF LogInv, LogIsWalk
        <5>. QED  BY <2>2, <2>4, <5>1, <5>2, AppendProperties
      <4>. QED  BY <2>4, <4>1, <4>2
    <3>2. StaysPaid(rows'[a].to, rows'[b].to)
      BY <2>2, <2>3, <2>4, <3>1 DEF LogInv, PaidStays
    <3>. QED  BY <2>2, <3>1, <3>2
  <2>. QED  BY <2>2, <2>3, <2>5, <2>6 DEF StaysPaid
<1>. QED  BY <1>2, PageInvHolds, PTL DEF PageSpec, ShownNeverGoesBack
=============================================================================
