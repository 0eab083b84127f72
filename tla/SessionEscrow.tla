--------------------------- MODULE SessionEscrow ---------------------------
(***************************************************************************)
(* contracts/arc/src/SessionEscrow.sol: purchases are paid into the        *)
(* contract; the admin refunds one or pays an operator out.                *)
(*                                                                         *)
(* Both outgoing transfers are low-level calls that hand control to the    *)
(* recipient in the middle of the function.  A recipient with code may     *)
(* call the escrow again before it returns, and may fail; then the         *)
(* function reverts and the EVM undoes everything since it was entered.    *)
(* So the functions in progress form a stack, each with the state it would *)
(* revert to.  A call that reverts before its transfer changes nothing and *)
(* is not an action.  Session ids count from 1 here, from 0 in the code;   *)
(* hours_, tier and time of a purchase are not read by the contract again  *)
(* and are kept only as the amount.                                        *)
(***************************************************************************)
EXTENDS Naturals, Sequences, FiniteSets

CONSTANTS
  Accounts,
  Admin,         \* ADMIN
  Contracts,     \* accounts whose code runs when they are paid
  HoursAsked,    \* inputs: hours_ of a purchase
  Values,        \* inputs: msg.value of a purchase, in units of 0.05 USDC
  Amounts,       \* inputs: amount of a payout
  MaxSessions,   \* bound of the checks: purchases on record
  MaxDepth       \* bound of the checks: functions in progress at once

ASSUME AccountsAssumption == Admin \in Accounts /\ Contracts \subseteq Accounts
ASSUME InputsAssumption == HoursAsked \cup Values \cup Amounts \subseteq Nat
ASSUME BoundsAssumption == MaxSessions \in Nat /\ MaxDepth \in Nat

VARIABLES
  sessions,   \* sessions, in id order
  balance,    \* address(this).balance
  paidOut,    \* history: sum of the payouts
  returned,   \* history: amount sent back for each session
  frames      \* functions whose transfer has not returned, innermost last

vars == <<sessions, balance, paidOut, returned, frames>>

Session == [payer : Accounts, paidAmount : Nat, refunded : BOOLEAN]

\* What a revert restores.
World == [sessions : Seq(Session), balance : Nat, paidOut : Nat, returned : Seq(Nat)]

Frame == [to : Accounts, before : World]

Here == [sessions |-> sessions, balance |-> balance, paidOut |-> paidOut,
         returned |-> returned]

Init == sessions = <<>> /\ balance = 0 /\ paidOut = 0 /\ returned = <<>> /\ frames = <<>>

Innermost == frames[Len(frames)]

\* Who can be msg.sender: anyone in a transaction of its own, and contracts
\* while the recipient of a transfer runs.
MayCall(who) == frames # <<>> => {who, Innermost.to} \subseteq Contracts
-----------------------------------------------------------------------------
Tiers == {"Lite", "Standard", "Turbo"}

MaxHours == 24

\* In units of 0.05 USDC: 0.1, 0.35 and 1 USDC.
RatePerHour == [Lite |-> 2, Standard |-> 7, Turbo |-> 20]

Price(tier, hours) == RatePerHour[tier] * hours

\* As PurchaseSession, but the id of the latest session is used again.
PurchaseSessionSameId(who, tier, hours, value) ==
  /\ MayCall(who)
  /\ hours # 0 /\ hours <= MaxHours
  /\ value = Price(tier, hours)
  /\ Len(sessions) < MaxSessions
  /\ LET session == [payer |-> who, paidAmount |-> value, refunded |-> FALSE]
     IN IF sessions = <<>>
        THEN sessions' = <<session>> /\ returned' = <<0>>
        ELSE /\ sessions' = [sessions EXCEPT ![Len(sessions)] = session]
             /\ UNCHANGED returned
  /\ balance' = balance + value
  /\ UNCHANGED <<paidOut, frames>>

PurchaseSession(who, tier, hours, value) ==
  /\ MayCall(who)
  /\ hours # 0 /\ hours <= MaxHours
  /\ value = Price(tier, hours)
  /\ Len(sessions) < MaxSessions
  /\ sessions' = Append(sessions, [payer |-> who, paidAmount |-> value, refunded |-> FALSE])
  /\ returned' = Append(returned, 0)
  /\ balance' = balance + value
  /\ UNCHANGED <<paidOut, frames>>
-----------------------------------------------------------------------------
\* recipient.call{value: amount}(""): the balance moves and the recipient runs.
Transfer(to, amount) ==
  /\ Len(frames) < MaxDepth
  /\ amount <= balance
  /\ balance' = balance - amount
  /\ frames' = Append(frames, [to |-> to, before |-> Here])

PayoutOperator(who, relayPayoutAddress, amount) ==
  /\ MayCall(who)
  /\ who = Admin
  /\ Transfer(relayPayoutAddress, amount)
  /\ paidOut' = paidOut + amount
  /\ UNCHANGED <<sessions, returned>>

\* As RefundSession, but a session that was refunded is refunded again.
RefundSessionAgain(who, sid) ==
  /\ MayCall(who)
  /\ who = Admin
  /\ sid \in DOMAIN sessions
  /\ Transfer(sessions[sid].payer, sessions[sid].paidAmount)
  /\ sessions' = [sessions EXCEPT ![sid].refunded = TRUE]
  /\ returned' = [returned EXCEPT ![sid] = @ + sessions[sid].paidAmount]
  /\ UNCHANGED paidOut

RefundSession(who, sid) ==
  /\ MayCall(who)
  /\ who = Admin
  /\ sid \in DOMAIN sessions
  /\ ~sessions[sid].refunded
  /\ Transfer(sessions[sid].payer, sessions[sid].paidAmount)
  /\ sessions' = [sessions EXCEPT ![sid].refunded = TRUE]
  /\ returned' = [returned EXCEPT ![sid] = @ + sessions[sid].paidAmount]
  /\ UNCHANGED paidOut

\* The innermost transfer succeeds and its function ends.
TransferReturns ==
  /\ frames # <<>>
  /\ frames' = SubSeq(frames, 1, Len(frames) - 1)
  /\ UNCHANGED <<sessions, balance, paidOut, returned>>

\* As TransferFailed, but the result of the transfer is not tested: what
\* the function did stays, and the money is back.
TransferFailedIgnored ==
  /\ frames # <<>>
  /\ Innermost.to \in Contracts
  /\ balance' = Innermost.before.balance
  /\ paidOut' = Innermost.before.paidOut
  /\ returned' = Innermost.before.returned
  /\ frames' = SubSeq(frames, 1, Len(frames) - 1)
  /\ UNCHANGED sessions

\* The innermost recipient fails, and the function reverts TransferFailed.
TransferFailed ==
  /\ frames # <<>>
  /\ Innermost.to \in Contracts
  /\ sessions' = Innermost.before.sessions
  /\ balance' = Innermost.before.balance
  /\ paidOut' = Innermost.before.paidOut
  /\ returned' = Innermost.before.returned
  /\ frames' = SubSeq(frames, 1, Len(frames) - 1)
-----------------------------------------------------------------------------
Next == \/ \E who \in Accounts :
             \/ \E tier \in Tiers, hours \in HoursAsked, value \in Values :
                  PurchaseSession(who, tier, hours, value)
             \/ \E to \in Accounts, amount \in Amounts : PayoutOperator(who, to, amount)
             \/ \E sid \in DOMAIN sessions : RefundSession(who, sid)
        \/ TransferReturns
        \/ TransferFailed

Spec == Init /\ [][Next]_vars
-----------------------------------------------------------------------------
(* Properties.                                                             *)

TypeOK == /\ Here \in World
          /\ Len(returned) = Len(sessions)
          /\ frames \in Seq(Frame)

\* What the sessions not refunded paid, unit by unit of 0.05 USDC.
UnitsHeld(ss) ==
  UNION {{sid} \X (1..ss[sid].paidAmount) : sid \in {i \in DOMAIN ss : ~ss[i].refunded}}

(* A session's payer is sent exactly what the session cost if and only if  *)
(* the session is marked refunded, at every moment of every nesting of     *)
(* calls and after any of them failed: no payer is refunded twice, and no  *)
(* session is marked without its money having been sent.                   *)
RefundedOnce ==
  \A sid \in DOMAIN sessions :
    returned[sid] = IF sessions[sid].refunded THEN sessions[sid].paidAmount ELSE 0

(* The escrow holds the payments of all sessions not refunded, less the    *)
(* payouts.  So refundSession can fail for want of money only after a      *)
(* payout took more than the refunded sessions' share, and a payout that   *)
(* fails or is nested in a refund leaves no trace in the books.            *)
BooksBalance == balance + paidOut = Cardinality(UnitsHeld(sessions))

\* What the chain shows between transactions.
Committed == IF frames = <<>> THEN Here ELSE frames[1].before

Extends(is, was) ==
  /\ Len(was.sessions) <= Len(is.sessions)
  /\ \A sid \in DOMAIN was.sessions :
       /\ is.sessions[sid].payer = was.sessions[sid].payer
       /\ is.sessions[sid].paidAmount = was.sessions[sid].paidAmount
       /\ was.sessions[sid].refunded => is.sessions[sid].refunded

(* From one transaction to the next no session id is given to another      *)
(* purchase and no refund is taken back, whatever the functions nested in  *)
(* them did and undid.                                                     *)
HistoryIsKept == [][Extends(Committed', Committed)]_vars
=============================================================================
