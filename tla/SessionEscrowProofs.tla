------------------------ MODULE SessionEscrowProofs ------------------------
(***************************************************************************)
(* What SessionEscrow guarantees for any accounts, any recipients and any  *)
(* depth of nested calls.                                                  *)
(*                                                                         *)
(* A revert restores a state saved earlier, so the invariant speaks of the *)
(* current state and of every saved one: each has its refunds accounted    *)
(* for and its books balanced, and each extends the ones saved before it.  *)
(***************************************************************************)
EXTENDS SessionEscrow, SequenceTheorems, FiniteSetTheorems, TLAPS

Accounted(w) ==
  \A sid \in DOMAIN w.sessions :
    w.returned[sid] = IF w.sessions[sid].refunded THEN w.sessions[sid].paidAmount ELSE 0

Paired(w) == Len(w.returned) = Len(w.sessions)

Balanced(w) == /\ IsFiniteSet(UnitsHeld(w.sessions))
               /\ w.balance + w.paidOut = Cardinality(UnitsHeld(w.sessions))

Good(w) == w \in World /\ Paired(w) /\ Accounted(w) /\ Balanced(w)

Inv == /\ Good(Here)
       /\ frames \in Seq(Frame)
       /\ \A i \in 1..Len(frames) : Good(frames[i].before)

Nested == /\ \A i \in 1..Len(frames) : Extends(Here, frames[i].before)
          /\ \A i, j \in 1..Len(frames) :
               i <= j => Extends(frames[j].before, frames[i].before)
-----------------------------------------------------------------------------
LEMMA ExtendsItself ==
  ASSUME NEW w \in World
  PROVE  Extends(w, w)
BY DEF Extends, World

LEMMA ExtendsInTurn ==
  ASSUME NEW u \in World, NEW v \in World, NEW w \in World,
         Extends(w, v), Extends(v, u)
  PROVE  Extends(w, u)
<1>1. DOMAIN u.sessions \subseteq DOMAIN v.sessions
  BY DEF Extends, World
<1>. QED  BY <1>1 DEF Extends, World

\* Popping the stack keeps the frames below the last.
LEMMA Popped ==
  ASSUME NEW S, NEW q \in Seq(S), q # <<>>,
         NEW r, r = SubSeq(q, 1, Len(q) - 1)
  PROVE  /\ Len(q) \in Nat /\ Len(q) >= 1
         /\ r \in Seq(S)
         /\ Len(r) = Len(q) - 1
         /\ \A i \in 1..(Len(q) - 1) : r[i] = q[i]
<1>1. Len(q) \in Nat /\ Len(q) >= 1 /\ \A i \in 1..Len(q) : q[i] \in S
  OBVIOUS
<1>2. PICK n \in Nat : n = Len(q) - 1
  BY <1>1
<1>3. /\ r \in Seq(S)
      /\ Len(r) = IF 1 <= n THEN n - 1 + 1 ELSE 0
      /\ \A i \in 1..(n - 1 + 1) : r[i] = q[1 + i - 1]
  <2>1. \A i \in 1..n : q[i] \in S
    BY <1>1, <1>2
  <2>. QED  BY <1>2, <2>1, SubSeqProperties
<1>4. Len(r) = n
  BY <1>3
<1>5. \A i \in 1..n : r[i] = q[i]
  BY <1>3
<1>. QED  BY <1>1, <1>2, <1>3, <1>4, <1>5

\* The units one session paid.
LEMMA UnitsOfOne ==
  ASSUME NEW sid, NEW n \in Nat
  PROVE  IsFiniteSet({sid} \X (1..n)) /\ Cardinality({sid} \X (1..n)) = n
<1>1. IsFiniteSet({sid}) /\ Cardinality({sid}) = 1
  BY FS_Singleton
<1>2. IsFiniteSet(1..n) /\ Cardinality(1..n) = n
  BY FS_Interval
<1>3. /\ IsFiniteSet({sid} \X (1..n))
      /\ Cardinality({sid} \X (1..n)) = Cardinality({sid}) * Cardinality(1..n)
  BY <1>1, <1>2, FS_Product, Zenon
<1>4. 1 * n = n
  OBVIOUS
<1>. QED  BY <1>1, <1>2, <1>3, <1>4, Zenon

\* A unit is held for the session that paid it.
LEMMA UnitsHeldMembers ==
  ASSUME NEW ss, NEW u
  PROVE  u \in UnitsHeld(ss) <=>
           \E sid \in DOMAIN ss : ~ss[sid].refunded /\ u \in {sid} \X (1..ss[sid].paidAmount)
BY DEF UnitsHeld

LEMMA UnitsHeldAppend ==
  ASSUME NEW ss \in Seq(Session), NEW new \in Session, ~new.refunded,
         IsFiniteSet(UnitsHeld(ss))
  PROVE  /\ IsFiniteSet(UnitsHeld(Append(ss, new)))
         /\ Cardinality(UnitsHeld(Append(ss, new))) =
              Cardinality(UnitsHeld(ss)) + new.paidAmount
<1>. DEFINE more == {Len(ss) + 1} \X (1..new.paidAmount)
            longer == Append(ss, new)
<1>1. /\ DOMAIN longer = DOMAIN ss \cup {Len(ss) + 1}
      /\ longer[Len(ss) + 1] = new
      /\ \A sid \in DOMAIN ss : longer[sid] = ss[sid] /\ sid # Len(ss) + 1
  BY AppendProperties
<1>2. new.paidAmount \in Nat
  BY DEF Session
<1>. HIDE DEF longer
<1>3. UnitsHeld(longer) = UnitsHeld(ss) \cup more
  <2>1. ASSUME NEW u PROVE u \in UnitsHeld(longer) <=> u \in UnitsHeld(ss) \/ u \in more
    BY <1>1, UnitsHeldMembers
  <2>. QED  BY <2>1
<1>4. UnitsHeld(ss) \cap more = {}
  BY <1>1, UnitsHeldMembers
<1>5. IsFiniteSet(more) /\ Cardinality(more) = new.paidAmount
  BY <1>2, UnitsOfOne
<1>. HIDE DEF more
<1>6. Cardinality(UnitsHeld(ss)) \in Nat
  BY FS_CardinalityType
<1>7. /\ IsFiniteSet(UnitsHeld(longer))
      /\ Cardinality(UnitsHeld(longer)) =
           Cardinality(UnitsHeld(ss)) + Cardinality(more) - Cardinality(UnitsHeld(ss) \cap more)
  BY <1>3, <1>5, FS_Union, Zenon
<1>8. Cardinality(UnitsHeld(ss) \cap more) = 0
  BY <1>4, FS_EmptySet, Zenon
<1>9. Cardinality(UnitsHeld(longer)) = Cardinality(UnitsHeld(ss)) + new.paidAmount
  BY <1>2, <1>5, <1>6, <1>7, <1>8
<1>. QED  BY <1>7, <1>9 DEF longer

LEMMA UnitsHeldRefund ==
  ASSUME NEW ss, NEW tt, NEW sid \in DOMAIN ss, DOMAIN tt = DOMAIN ss,
         ~ss[sid].refunded, ss[sid].paidAmount \in Nat, tt[sid].refunded,
         \A i \in DOMAIN ss \ {sid} : tt[i] = ss[i],
         IsFiniteSet(UnitsHeld(ss))
  PROVE  /\ IsFiniteSet(UnitsHeld(tt))
         /\ Cardinality(UnitsHeld(tt)) = Cardinality(UnitsHeld(ss)) - ss[sid].paidAmount
<1>. DEFINE less == {sid} \X (1..ss[sid].paidAmount)
<1>1. UnitsHeld(tt) = UnitsHeld(ss) \ less
  <2>1. ASSUME NEW u PROVE u \in UnitsHeld(tt) <=> u \in UnitsHeld(ss) /\ u \notin less
    BY UnitsHeldMembers
  <2>. QED  BY <2>1
<1>2. UnitsHeld(ss) \cap less = less
  BY UnitsHeldMembers
<1>3. IsFiniteSet(less) /\ Cardinality(less) = ss[sid].paidAmount
  BY UnitsOfOne
<1>. HIDE DEF less
<1>4. /\ IsFiniteSet(UnitsHeld(ss) \ less)
      /\ Cardinality(UnitsHeld(ss) \ less) =
           Cardinality(UnitsHeld(ss)) - Cardinality(UnitsHeld(ss) \cap less)
  BY FS_Difference, Zenon
<1>. QED  BY <1>1, <1>2, <1>3, <1>4, Zenon

\* A purchase appends a session to which nothing was sent back.
LEMMA PurchaseExtends ==
  ASSUME Inv, NEW who \in Accounts, NEW tier \in Tiers, NEW hours \in HoursAsked,
         NEW value \in Values, PurchaseSession(who, tier, hours, value)
  PROVE  frames' = frames /\ Good(Here') /\ Extends(Here', Here)
<1>. DEFINE new == [payer |-> who, paidAmount |-> value, refunded |-> FALSE]
<1>t. /\ sessions \in Seq(Session) /\ returned \in Seq(Nat)
      /\ balance \in Nat /\ paidOut \in Nat
      /\ Len(returned) = Len(sessions)
  BY DEF Inv, Good, Paired, Here, World
<1>a. \A sid \in DOMAIN sessions :
        returned[sid] = IF sessions[sid].refunded THEN sessions[sid].paidAmount ELSE 0
  BY DEF Inv, Good, Accounted, Here
<1>1. value \in Nat
  BY InputsAssumption
<1>2. new \in Session /\ ~ new.refunded
  BY <1>1 DEF Session
<1>3. /\ sessions' = Append(sessions, new) /\ returned' = Append(returned, 0)
      /\ balance' = balance + value /\ paidOut' = paidOut /\ frames' = frames
  BY DEF PurchaseSession
<1>. HIDE DEF new
<1>4. Here' \in World /\ Paired(Here')
  BY <1>t, <1>1, <1>2, <1>3 DEF Here, World, Paired
<1>5. /\ \A sid \in 1..Len(sessions) :
           sessions'[sid] = sessions[sid] /\ returned'[sid] = returned[sid]
      /\ sessions'[Len(sessions) + 1] = new /\ returned'[Len(sessions) + 1] = 0
      /\ DOMAIN sessions' = 1..(Len(sessions) + 1) /\ Len(sessions') = Len(sessions) + 1
  BY <1>t, <1>2, <1>3
<1>6. Accounted(Here')
  BY <1>t, <1>a, <1>2, <1>5 DEF Accounted, Here
<1>7. Extends(Here', Here)
  BY <1>t, <1>5 DEF Extends, Here
<1>8. Balanced(Here')
  <2>1. new.paidAmount = value
    BY DEF new
  <2>2. /\ IsFiniteSet(UnitsHeld(sessions))
        /\ balance + paidOut = Cardinality(UnitsHeld(sessions))
    BY DEF Inv, Good, Balanced, Here
  <2>3. /\ IsFiniteSet(UnitsHeld(sessions'))
        /\ Cardinality(UnitsHeld(sessions')) = Cardinality(UnitsHeld(sessions)) + value
    BY <1>t, <1>2, <1>3, <2>1, <2>2, UnitsHeldAppend
  <2>4. balance' + paidOut' = Cardinality(UnitsHeld(sessions'))
    BY <1>t, <1>1, <1>3, <2>2, <2>3
  <2>. QED  BY <2>3, <2>4 DEF Balanced, Here
<1>. QED  BY <1>3, <1>4, <1>6, <1>7, <1>8 DEF Good

\* A payout pushes the state it found, and leaves the sessions alone.
LEMMA PayoutExtends ==
  ASSUME Inv, NEW who \in Accounts, NEW to \in Accounts, NEW amount \in Amounts,
         PayoutOperator(who, to, amount)
  PROVE  /\ \E r \in Accounts : frames' = Append(frames, [to |-> r, before |-> Here])
         /\ Good(Here') /\ Extends(Here', Here)
<1>t. /\ sessions \in Seq(Session) /\ returned \in Seq(Nat)
      /\ balance \in Nat /\ paidOut \in Nat /\ amount \in Nat
  BY InputsAssumption DEF Inv, Good, Here, World
<1>1. /\ sessions' = sessions /\ returned' = returned
      /\ balance' \in Nat /\ paidOut' \in Nat
      /\ balance' + paidOut' = balance + paidOut
      /\ frames' = Append(frames, [to |-> to, before |-> Here])
  BY <1>t DEF PayoutOperator, Transfer
<1>2. Good(Here')
  BY <1>t, <1>1 DEF Inv, Good, Here, World, Paired, Accounted, Balanced
<1>3. Extends(Here', Here)
  BY <1>t, <1>1 DEF Extends, Here
<1>. QED  BY <1>1, <1>2, <1>3

\* A refund pushes the state it found, and marks and sends in one step.
LEMMA RefundExtends ==
  ASSUME Inv, NEW who \in Accounts, NEW sid \in DOMAIN sessions,
         RefundSession(who, sid)
  PROVE  /\ \E r \in Accounts : frames' = Append(frames, [to |-> r, before |-> Here])
         /\ Good(Here') /\ Extends(Here', Here)
<1>t. /\ sessions \in Seq(Session) /\ returned \in Seq(Nat)
      /\ balance \in Nat /\ paidOut \in Nat
      /\ Len(returned) = Len(sessions)
  BY DEF Inv, Good, Paired, Here, World
<1>a. \A i \in DOMAIN sessions :
        returned[i] = IF sessions[i].refunded THEN sessions[i].paidAmount ELSE 0
  BY DEF Inv, Good, Accounted, Here
<1>. DEFINE old == sessions[sid]
            new == [old EXCEPT !.refunded = TRUE]
<1>1. sid \in 1..Len(sessions) /\ old \in Session
  BY <1>t
<1>2. old.payer \in Accounts /\ old.paidAmount \in Nat
  BY <1>1 DEF Session
<1>3. returned[sid] = 0
  BY <1>a DEF RefundSession
<1>4. /\ new \in Session /\ new.refunded
      /\ new.payer = old.payer /\ new.paidAmount = old.paidAmount
  BY <1>1 DEF Session
<1>5. sessions' = [sessions EXCEPT ![sid] = new]
  BY DEF RefundSession
<1>6. /\ balance' \in Nat /\ paidOut' = paidOut
      /\ balance' = balance - old.paidAmount
      /\ returned' = [returned EXCEPT ![sid] = returned[sid] + old.paidAmount]
      /\ frames' = Append(frames, [to |-> old.payer, before |-> Here])
  BY <1>t, <1>2 DEF RefundSession, Transfer
<1>. HIDE DEF new, old
<1>7. /\ sessions' \in Seq(Session) /\ Len(sessions') = Len(sessions)
      /\ sessions'[sid] = new
      /\ \A i \in DOMAIN sessions \ {sid} : sessions'[i] = sessions[i]
  BY <1>t, <1>1, <1>4, <1>5
<1>8. /\ returned' \in Seq(Nat) /\ Len(returned') = Len(returned)
      /\ returned'[sid] = old.paidAmount
      /\ \A i \in DOMAIN returned \ {sid} : returned'[i] = returned[i]
  BY <1>t, <1>1, <1>2, <1>3, <1>6
<1>9. ASSUME NEW i \in DOMAIN sessions'
      PROVE  returned'[i] = IF sessions'[i].refunded THEN sessions'[i].paidAmount ELSE 0
  <2>1. CASE i = sid
    BY <1>4, <1>7, <1>8, <2>1
  <2>2. CASE i # sid
    <3>1. i \in DOMAIN sessions \ {sid} /\ i \in DOMAIN returned \ {sid}
      BY <1>t, <1>7, <2>2
    <3>. QED  BY <1>a, <1>7, <1>8, <3>1
  <2>. QED  BY <2>1, <2>2
<1>10. Extends(Here', Here)
  <2>1. ASSUME NEW i \in DOMAIN sessions
        PROVE  /\ sessions'[i].payer = sessions[i].payer
               /\ sessions'[i].paidAmount = sessions[i].paidAmount
               /\ sessions[i].refunded => sessions'[i].refunded
    <3>1. CASE i = sid
      BY <1>4, <1>7, <3>1 DEF old
    <3>2. CASE i # sid
      BY <1>7, <3>2
    <3>. QED  BY <3>1, <3>2
  <2>2. Len(sessions') = Len(sessions) /\ Len(sessions) \in Nat
    BY <1>t, <1>7
  <2>. QED  BY <2>1, <2>2 DEF Extends, Here
<1>11. Here' \in World /\ Paired(Here')
  BY <1>t, <1>6, <1>7, <1>8 DEF Here, World, Paired
<1>12. Accounted(Here')
  BY <1>9 DEF Accounted, Here
<1>13. Balanced(Here')
  <2>1. /\ IsFiniteSet(UnitsHeld(sessions))
        /\ balance + paidOut = Cardinality(UnitsHeld(sessions))
    BY DEF Inv, Good, Balanced, Here
  <2>2. DOMAIN sessions' = DOMAIN sessions /\ ~sessions[sid].refunded
    BY <1>t, <1>7 DEF RefundSession
  <2>3. /\ IsFiniteSet(UnitsHeld(sessions'))
        /\ Cardinality(UnitsHeld(sessions')) =
             Cardinality(UnitsHeld(sessions)) - old.paidAmount
    BY <1>2, <1>4, <1>7, <2>1, <2>2, UnitsHeldRefund DEF old
  <2>4. balance' + paidOut' = Cardinality(UnitsHeld(sessions'))
    BY <1>t, <1>2, <1>6, <2>1, <2>3
  <2>. QED  BY <2>3, <2>4 DEF Balanced, Here
<1>. QED  BY <1>2, <1>6, <1>10, <1>11, <1>12, <1>13 DEF Good

\* A step either leaves the stack alone, pushes the present state, or pops.
LEMMA StackMoves ==
  ASSUME Inv, [Next]_vars
  PROVE  \/ frames' = frames /\ Good(Here') /\ Extends(Here', Here)
         \/ /\ \E to \in Accounts : frames' = Append(frames, [to |-> to, before |-> Here])
            /\ Good(Here') /\ Extends(Here', Here)
         \/ /\ frames # <<>>
            /\ frames' = SubSeq(frames, 1, Len(frames) - 1)
            /\ Here' = Here \/ Here' = Innermost.before
<1>1. CASE TransferReturns
  BY <1>1 DEF TransferReturns, Here
<1>2. CASE TransferFailed
  <2>1. Innermost \in Frame
    BY <1>2 DEF TransferFailed, Innermost, Inv
  <2>2. Here' = Innermost.before
    BY <1>2, <2>1 DEF TransferFailed, Here, Frame, World
  <2>. QED  BY <1>2, <2>2 DEF TransferFailed
<1>3. CASE UNCHANGED vars
  BY <1>3, ExtendsItself DEF vars, Here, Inv, Good
<1>. QED
  BY <1>1, <1>2, <1>3, PurchaseExtends, PayoutExtends, RefundExtends DEF Next
-----------------------------------------------------------------------------
LEMMA InvHolds == Spec => []Inv
<1>1. Init => Inv
  <2>. SUFFICES ASSUME Init PROVE Inv
    OBVIOUS
  <2>1. UnitsHeld(sessions) = {}
    BY DEF Init, UnitsHeld
  <2>2. Balanced(Here)
    BY <2>1, FS_EmptySet DEF Init, Here, Balanced
  <2>. QED  BY <2>2 DEF Init, Inv, Good, Here, World, Paired, Accounted
<1>2. Inv /\ [Next]_vars => Inv'
  <2>. SUFFICES ASSUME Inv, [Next]_vars PROVE Inv'
    OBVIOUS
  <2>0. Here \in World /\ frames \in Seq(Frame)
    BY DEF Inv, Good
  <2>1. CASE frames' = frames /\ Good(Here')
    BY <2>1 DEF Inv
  <2>2. ASSUME NEW to \in Accounts, Good(Here'),
               frames' = Append(frames, [to |-> to, before |-> Here])
        PROVE  Inv'
    BY <2>0, <2>2 DEF Inv, Frame
  <2>3. CASE /\ frames # <<>>
             /\ frames' = SubSeq(frames, 1, Len(frames) - 1)
             /\ Here' = Here \/ Here' = Innermost.before
    BY <2>0, <2>3 DEF Inv, Innermost
  <2>. QED  BY <2>1, <2>2, <2>3, StackMoves
<1>. QED  BY <1>1, <1>2, PTL DEF Spec

LEMMA NestedHolds == Spec => []Nested
<1>1. Init => Nested
  BY DEF Init, Nested
<1>2. Inv /\ Nested /\ [Next]_vars => Nested'
  <2>. SUFFICES ASSUME Inv, Nested, [Next]_vars PROVE Nested'
    OBVIOUS
  <2>0. /\ Here \in World /\ frames \in Seq(Frame)
        /\ \A i \in 1..Len(frames) : frames[i].before \in World
    BY DEF Inv, Good
  <2>1. CASE frames' = frames /\ Good(Here') /\ Extends(Here', Here)
    BY <2>0, <2>1, ExtendsInTurn DEF Nested, Good
  <2>2. ASSUME NEW to \in Accounts, Good(Here'), Extends(Here', Here),
               frames' = Append(frames, [to |-> to, before |-> Here])
        PROVE  Nested'
    <3>1. /\ Len(frames') = Len(frames) + 1
          /\ \A i \in 1..Len(frames) : frames'[i] = frames[i]
          /\ frames'[Len(frames) + 1].before = Here
      BY <2>0, <2>2 DEF Frame
    <3>2. Here' \in World
      BY <2>2 DEF Good
    <3>3. ASSUME NEW i \in 1..Len(frames')
          PROVE  Extends(Here', frames'[i].before)
      <4>1. CASE i \in 1..Len(frames)
        BY <2>0, <2>2, <3>1, <3>2, <4>1, ExtendsInTurn DEF Nested
      <4>2. CASE i = Len(frames) + 1
        BY <2>2, <3>1, <4>2
      <4>. QED  BY <2>0, <3>1, <4>1, <4>2
    <3>4. ASSUME NEW i \in 1..Len(frames'), NEW j \in 1..Len(frames'), i <= j
          PROVE  Extends(frames'[j].before, frames'[i].before)
      <4>1. CASE j \in 1..Len(frames)
        BY <2>0, <3>1, <3>4, <4>1 DEF Nested
      <4>2. CASE j = Len(frames) + 1 /\ i \in 1..Len(frames)
        BY <2>0, <3>1, <4>2 DEF Nested
      <4>3. CASE j = Len(frames) + 1 /\ i = Len(frames) + 1
        BY <2>0, <3>1, <4>3, ExtendsItself
      <4>. QED  BY <2>0, <3>1, <4>1, <4>2, <4>3
    <3>. QED  BY <3>3, <3>4 DEF Nested
  <2>3. CASE /\ frames # <<>>
             /\ frames' = SubSeq(frames, 1, Len(frames) - 1)
             /\ Here' = Here \/ Here' = Innermost.before
    <3>1. /\ Len(frames') = Len(frames) - 1 /\ Len(frames) \in 1..Len(frames)
          /\ \A i \in 1..(Len(frames) - 1) : frames'[i] = frames[i]
      <4>1. Len(frames) \in Nat /\ Len(frames) >= 1
        BY <2>0, <2>3, Popped
      <4>2. /\ Len(frames') = Len(frames) - 1
            /\ \A i \in 1..(Len(frames) - 1) : frames'[i] = frames[i]
        BY <2>0, <2>3, Popped, Zenon
      <4>. QED  BY <4>1, <4>2
    <3>. QED  BY <2>0, <2>3, <3>1 DEF Nested, Innermost
  <2>. QED  BY <2>1, <2>2, <2>3, StackMoves
<1>. QED  BY <1>1, <1>2, InvHolds, PTL DEF Spec
-----------------------------------------------------------------------------
(* Every variable of the escrow keeps its type: the balance in particular  *)
(* never goes negative, and each session has one refund account.           *)
THEOREM EscrowTypeCorrect == Spec => []TypeOK
<1>1. Inv => TypeOK
  BY DEF Inv, Good, Paired, TypeOK, Here
<1>. QED  BY <1>1, InvHolds, PTL

(* However deep transfers call back into the escrow and however many of    *)
(* them fail, a payer is sent back exactly what a refunded session cost,   *)
(* and nothing for one that is not.                                        *)
THEOREM EscrowRefundsOnce == Spec => []RefundedOnce
<1>1. Inv => RefundedOnce
  BY DEF Inv, Good, Accounted, RefundedOnce, Here
<1>. QED  BY <1>1, InvHolds, PTL

(* The money in the contract and the payouts together are what the         *)
(* sessions not refunded paid, for any number of sessions, prices and      *)
(* payouts, in the middle of a nest of transfers too: a transfer that      *)
(* fails puts back books that balanced.                                    *)
THEOREM EscrowBooksBalance == Spec => []BooksBalance
<1>1. Inv => BooksBalance
  BY DEF Inv, Good, Balanced, BooksBalance, Here
<1>. QED  BY <1>1, InvHolds, PTL

(* What the chain shows between transactions only grows: purchases stay    *)
(* under their id and refunds stay made.                                   *)
THEOREM EscrowKeepsHistory == Spec => HistoryIsKept
<1>1. Inv /\ Nested /\ [Next]_vars => Extends(Committed', Committed)
  <2>. SUFFICES ASSUME Inv, Nested, [Next]_vars
                PROVE  Extends(Committed', Committed)
    OBVIOUS
  <2>0. /\ Here \in World /\ frames \in Seq(Frame)
        /\ \A i \in 1..Len(frames) : frames[i].before \in World
    BY DEF Inv, Good
  <2>1. CASE frames' = frames /\ Extends(Here', Here)
    <3>1. CASE frames = <<>>
      BY <2>1, <3>1 DEF Committed
    <3>2. CASE frames # <<>>
      <4>1. Committed' = Committed /\ Committed = frames[1].before /\ 1 \in 1..Len(frames)
        BY <2>0, <2>1, <3>2 DEF Committed
      <4>. QED  BY <2>0, <4>1, ExtendsItself
    <3>. QED  BY <3>1, <3>2
  <2>2. ASSUME NEW to \in Accounts, frames' = Append(frames, [to |-> to, before |-> Here])
        PROVE  Extends(Committed', Committed)
    <3>1. Committed' = Committed /\ Committed \in World
      BY <2>0, <2>2 DEF Committed, Frame
    <3>. QED  BY <3>1, ExtendsItself
  <2>3. CASE /\ frames # <<>>
             /\ frames' = SubSeq(frames, 1, Len(frames) - 1)
             /\ Here' = Here \/ Here' = Innermost.before
    <3>1. 1 \in 1..Len(frames) /\ Committed = frames[1].before /\ Committed \in World
      BY <2>0, <2>3 DEF Committed
    <3>2. CASE Len(frames) = 1
      <4>1. Committed' = Here'
        BY <2>0, <2>3, <3>2 DEF Committed
      <4>. QED  BY <2>3, <3>1, <3>2, <4>1, ExtendsItself DEF Nested, Innermost
    <3>3. CASE Len(frames) # 1
      <4>1. Committed' = frames[1].before
        <5>1. Len(frames') = Len(frames) - 1 /\ frames'[1] = frames[1]
          <6>1. /\ Len(frames') = Len(frames) - 1
                /\ \A i \in 1..(Len(frames) - 1) : frames'[i] = frames[i]
            BY <2>0, <2>3, Popped, Zenon
          <6>2. Len(frames) \in Nat /\ Len(frames) >= 1
            BY <2>0, <2>3, Popped
          <6>3. 1 \in 1..(Len(frames) - 1)
            <7>1. \A n \in Nat : n >= 1 /\ n # 1 => 1 \in 1..(n - 1)
              OBVIOUS
            <7>. QED  BY <3>3, <6>2, <7>1
          <6>. QED  BY <6>1, <6>3
        <5>2. frames' # <<>>
          <6>1. Len(frames') # 0
            BY <2>0, <3>1, <3>3, <5>1
          <6>. QED  BY <6>1
        <5>. QED  BY <5>1, <5>2 DEF Committed
      <4>. QED  BY <3>1, <4>1, ExtendsItself
    <3>. QED  BY <3>2, <3>3
  <2>. QED  BY <2>1, <2>2, <2>3, StackMoves
<1>2. Inv /\ Nested /\ [Next]_vars => [Extends(Committed', Committed)]_vars
  BY <1>1
<1>. QED  BY <1>2, InvHolds, NestedHolds, PTL DEF HistoryIsKept, Spec
=============================================================================
