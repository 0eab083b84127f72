---------------------------- MODULE PurchaseProofs ----------------------------
(***************************************************************************)
(* Proofs about Purchase, for any number of clicks, any answers of         *)
(* GET /tiers, any numbers typed and any number of reloads.                *)
(***************************************************************************)
EXTENDS Purchase, TLAPS

(* The price survives its display: quote, order summary and escrow agree   *)
(* for every tier and every number of hours the slider allows.             *)
LEMMA PricesAgree ==
  ASSUME NEW order \in Orders
  PROVE  /\ UsdcPrice(PriceDisplay(order.tier, order.hours)) = Rate[order.tier] * order.hours
         /\ Total(order) = Rate[order.tier] * order.hours
         /\ Rate[order.tier] = EscrowRate[order.tier]
         /\ Rate[order.tier] * order.hours \in Nat
<1>1. order.tier \in Tiers /\ order.hours \in 1..24
  BY DEF Orders, MinHours, MaxHours
<1>2. CASE order.tier = "lite"
  <2>1. Rate[order.tier] = 10 /\ EscrowRate[order.tier] = 10
    BY <1>2 DEF Rate, EscrowRate
  <2>2. /\ UsdcPrice(PriceDisplay(order.tier, order.hours)) = 10 * order.hours
        /\ UsdcPrice(PriceDisplay(order.tier, 1)) = 10
    BY <1>1, <2>1 DEF UsdcPrice, PriceDisplay
  <2> QED BY <1>1, <2>1, <2>2 DEF Total
<1>3. CASE order.tier = "standard"
  <2>1. Rate[order.tier] = 35 /\ EscrowRate[order.tier] = 35
    BY <1>3 DEF Rate, EscrowRate
  <2>2. /\ UsdcPrice(PriceDisplay(order.tier, order.hours)) = 35 * order.hours
        /\ UsdcPrice(PriceDisplay(order.tier, 1)) = 35
    BY <1>1, <2>1 DEF UsdcPrice, PriceDisplay
  <2> QED BY <1>1, <2>1, <2>2 DEF Total
<1>4. CASE order.tier = "turbo"
  <2>1. Rate[order.tier] = 100 /\ EscrowRate[order.tier] = 100
    BY <1>4 DEF Rate, EscrowRate
  <2>2. /\ UsdcPrice(PriceDisplay(order.tier, order.hours)) = 100 * order.hours
        /\ UsdcPrice(PriceDisplay(order.tier, 1)) = 100
    BY <1>1, <2>1 DEF UsdcPrice, PriceDisplay
  <2> QED BY <1>1, <2>1, <2>2 DEF Total
<1> QED BY <1>1, <1>2, <1>3, <1>4 DEF Tiers

(* Whatever is typed, the slider keeps a number of hours the escrow sells. *)
LEMMA ClampInRange ==
  ASSUME NEW v \in Typed
  PROVE  Clamp(v) \in MinHours..MaxHours
BY TypedAssumption DEF Clamp, MinHours, MaxHours
-----------------------------------------------------------------------------
(* The invariant.                                                          *)

\* Nothing was asked of the wallet before the chain was switched.
NothingAsked ==
  \A f \in Flows : flow[f].stage \in {"unused", "quoting", "switching"} => tx[f] = "none"

\* A flow that was pushed away or lost belongs to no page that is shown.
GoneFlows ==
  \A f \in Flows : flow[f].stage \in {"over", "lost", "unused"} => ~flow[f].here

OneInFlight ==
  \A f, g \in Flows :
    /\ flow[f].here /\ flow[g].here
    /\ flow[f].stage \in InFlight /\ flow[g].stage \in InFlight
    => f = g

\* A payment is mined for the price of the order, and served only then.
PaidPrice ==
  /\ \A f \in Flows : tx[f] = "mined" =>
       flow[f].amount = EscrowRate[flow[f].order.tier] * flow[f].order.hours
  /\ \A f \in served : tx[f] = "mined"

Remembered ==
  /\ \A e \in history : e.flow \in served /\ e.order = flow[e.flow].order
  /\ \A f \in Flows : flow[f].stage \in {"done", "over"} => \E e \in history : e.flow = f
  /\ \A e \in history : loads = 0 => e.flow \in tokens
  /\ page.listed \subseteq history

PageInv == NothingAsked /\ GoneFlows /\ OneInFlight
MoneyInv == PaidPrice /\ Remembered
Inv == TypeOK /\ PageInv /\ MoneyInv
-----------------------------------------------------------------------------
LEMMA DefaultOrder == Default \in Orders
BY DEF Default, Orders, Tiers, MinHours, MaxHours

LEMMA PageAtType ==
  ASSUME history \in SUBSET Entry, NEW path \in {"purchase", "account", "session"}
  PROVE  PageAt(path) \in Page /\ PageAt(path).listed \subseteq history
<1>1. Listed(path) \in SUBSET Entry /\ Listed(path) \subseteq history
  BY DEF Listed
<1> QED BY <1>1, DefaultOrder DEF PageAt, Page

THEOREM Initially == Init => Inv
<1> SUFFICES ASSUME Init PROVE Inv
  OBVIOUS
<1>1. page \in Page /\ Unused \in Flow
  BY PageAtType, DefaultOrder DEF Init, Unused, Flow
<1>2. TypeOK
  <2>1. flow \in [Flows -> Flow] /\ tx \in [Flows -> TxStatus]
    BY <1>1 DEF Init, TxStatus
  <2>2. connected \in BOOLEAN
    BY Zenon DEF Init
  <2>3. loads \in 0..MaxLoads
    BY MaxLoadsAssumption DEF Init
  <2> QED BY <1>1, <2>1, <2>2, <2>3 DEF Init, TypeOK
<1>3. PageInv
  BY DEF Init, PageInv, NothingAsked, GoneFlows, OneInFlight, Unused, InFlight
<1>4. MoneyInv
  BY DEF Init, MoneyInv, PaidPrice, Remembered, Unused, PageAt, Listed
<1> QED BY <1>2, <1>3, <1>4 DEF Inv
-----------------------------------------------------------------------------
(* Steps that change one flow only.                                        *)

\* Flow f becomes k.
Becomes(f, k) == flow' = [flow EXCEPT ![f] = k]

LEMMA GotoBecomes ==
  ASSUME TypeOK, NEW f \in Flows, NEW stage, Goto(f, stage)
  PROVE  Becomes(f, [flow[f] EXCEPT !.stage = stage])
BY DEF Goto, Becomes

\* What a flow that changes must keep for the invariant about the page.
LEMMA PageInvKept ==
  ASSUME TypeOK, PageInv, NEW f \in Flows, NEW k \in Flow, Becomes(f, k),
         tx' \in [Flows -> TxStatus], \A g \in Flows \ {f} : tx'[g] = tx[g],
         k.stage \in {"unused", "quoting", "switching"} => tx'[f] = "none",
         k.stage \in {"over", "lost", "unused"} => ~k.here,
         k.here /\ k.stage \in InFlight =>
           \/ flow[f].here /\ flow[f].stage \in InFlight
           \/ \A g \in Flows : ~(flow[g].here /\ flow[g].stage \in InFlight)
  PROVE  PageInv'
<1>1. /\ flow'[f] = k
      /\ \A g \in Flows \ {f} : flow'[g] = flow[g]
  BY DEF Becomes, TypeOK
<1>2. NothingAsked'
  BY <1>1 DEF PageInv, NothingAsked
<1>3. GoneFlows'
  BY <1>1 DEF PageInv, GoneFlows
<1>4. OneInFlight'
  BY <1>1 DEF PageInv, OneInFlight
<1> QED BY <1>2, <1>3, <1>4 DEF PageInv

\* What it must keep for the invariant about money.
LEMMA MoneyInvKept ==
  ASSUME TypeOK, MoneyInv, NEW f \in Flows, NEW k \in Flow, Becomes(f, k),
         UNCHANGED <<served, history, tokens, loads, page>>,
         tx' \in [Flows -> TxStatus], \A g \in Flows \ {f} : tx'[g] = tx[g],
         \/ /\ k.order = flow[f].order /\ k.amount = flow[f].amount
            /\ tx'[f] = tx[f]
         \/ tx[f] = "none" /\ tx'[f] # "mined",
         k.stage \in {"done", "over"} => flow[f].stage \in {"done", "over"}
  PROVE  MoneyInv'
<1>1. /\ flow'[f] = k
      /\ \A g \in Flows \ {f} : flow'[g] = flow[g]
  BY DEF Becomes, TypeOK
<1>2. \A g \in Flows : tx[g] = "mined" \/ tx'[g] = "mined" =>
        /\ flow'[g].order = flow[g].order /\ flow'[g].amount = flow[g].amount
        /\ tx'[g] = tx[g]
  BY <1>1
<1>3. PaidPrice'
  BY <1>2 DEF MoneyInv, PaidPrice, TypeOK
<1>4. Remembered'
  <2>1. \A e \in history : flow'[e.flow].order = flow[e.flow].order
    BY <1>2 DEF MoneyInv, PaidPrice, Remembered, TypeOK
  <2>2. \A g \in Flows : flow'[g].stage \in {"done", "over"} => flow[g].stage \in {"done", "over"}
    BY <1>1
  <2> QED BY <2>1, <2>2 DEF MoneyInv, Remembered
<1> QED BY <1>3, <1>4 DEF MoneyInv

\* A page is replaced by another: stages may only move to "over" and "lost".
LEMMA ShowKeeps ==
  ASSUME Inv, NEW path \in {"purchase", "account", "session"}, NEW fs \in [Flows -> Flow],
         Show(PageAt(path), fs),
         \A f \in Flows : /\ fs[f].order = flow[f].order /\ fs[f].amount = flow[f].amount
                          /\ \/ fs[f].stage = flow[f].stage
                             \/ fs[f].stage = "lost"
                             \/ fs[f].stage = "over" /\ flow[f].stage = "done",
         UNCHANGED <<tx, served, history>>,
         loads' \in 0..MaxLoads, loads' = 0 => loads = 0 /\ tokens' = tokens
  PROVE  page' \in Page /\ flow' \in [Flows -> Flow] /\ PageInv' /\ MoneyInv'
<1>1. /\ page' \in Page
      /\ page'.listed \subseteq history
  BY PageAtType DEF Show, Inv, TypeOK
<1>2. \A f \in Flows : /\ flow'[f] = [fs[f] EXCEPT !.here = FALSE]
                       /\ flow'[f] \in Flow /\ ~flow'[f].here
                       /\ flow'[f].order = fs[f].order /\ flow'[f].amount = fs[f].amount
                       /\ flow'[f].stage = fs[f].stage
  BY DEF Show, Flow
<1>3. flow' \in [Flows -> Flow]
  BY <1>2 DEF Show
<1>4. UNCHANGED tx /\ UNCHANGED served /\ UNCHANGED history
  OBVIOUS
<1>5. \A f \in Flows :
        /\ flow'[f].stage \in {"unused", "quoting", "switching"} => flow'[f].stage = flow[f].stage
        /\ flow'[f].stage \in {"done", "over"} => flow[f].stage \in {"done", "over"}
        /\ flow'[f].order = flow[f].order /\ flow'[f].amount = flow[f].amount
  BY <1>2
<1>6. PageInv'
  <2>1. NothingAsked'
    BY <1>4, <1>5 DEF Inv, PageInv, NothingAsked
  <2>2. GoneFlows' /\ OneInFlight'
    BY <1>2 DEF GoneFlows, OneInFlight
  <2> QED BY <2>1, <2>2 DEF PageInv
<1>7. MoneyInv'
  <2>1. PaidPrice'
    BY <1>4, <1>5 DEF Inv, MoneyInv, PaidPrice
  <2>2. \A e \in history : e.flow \in Flows
    BY DEF Inv, TypeOK, Entry
  <2>3. \A e \in history : e.flow \in served /\ e.order = flow'[e.flow].order
    BY <1>5, <2>2 DEF Inv, MoneyInv, Remembered
  <2>4. \A f \in Flows : flow'[f].stage \in {"done", "over"} => \E e \in history : e.flow = f
    BY <1>5 DEF Inv, MoneyInv, Remembered
  <2>5. \A e \in history : loads' = 0 => e.flow \in tokens'
    BY DEF Inv, MoneyInv, Remembered
  <2>6. Remembered'
    BY <1>1, <1>4, <2>3, <2>4, <2>5 DEF Remembered
  <2> QED BY <2>1, <2>6 DEF MoneyInv
<1> QED BY <1>1, <1>3, <1>6, <1>7
-----------------------------------------------------------------------------
(* The steps.                                                              *)

\* Only the page or the connection to the wallet changes.
LEMMA PageStep ==
  ASSUME Inv, connected' \in BOOLEAN, page' \in Page, page'.listed \subseteq history,
         UNCHANGED <<flow, tx, served, history, tokens, loads>>
  PROVE  Inv'
<1>1. TypeOK'
  BY DEF Inv, TypeOK
<1>2. PageInv'
  BY DEF Inv, PageInv, NothingAsked, GoneFlows, OneInFlight
<1>3. MoneyInv'
  BY DEF Inv, MoneyInv, PaidPrice, Remembered
<1> QED BY <1>1, <1>2, <1>3 DEF Inv

LEMMA TiersLoadedStep ==
  ASSUME Inv, NEW offered \in Offers, TiersLoaded(offered)
  PROVE  Inv'
<1>1. page' \in Page /\ page'.listed = page.listed
  BY OffersAssumption DEF TiersLoaded, Inv, TypeOK, Page
<1>2. page'.listed \subseteq history
  BY <1>1 DEF Inv, MoneyInv, Remembered
<1>3. connected' \in BOOLEAN
  BY Zenon DEF TiersLoaded, Inv, TypeOK
<1> QED BY <1>1, <1>2, <1>3, PageStep DEF TiersLoaded

LEMMA ChooseStep ==
  ASSUME Inv, NEW order \in Orders, Choose(order)
  PROVE  Inv'
<1>1. page' \in Page /\ page'.listed = page.listed
  BY DEF Choose, Inv, TypeOK, Page
<1>2. page'.listed \subseteq history
  BY <1>1 DEF Inv, MoneyInv, Remembered
<1>3. connected' \in BOOLEAN
  BY Zenon DEF Choose, Inv, TypeOK
<1> QED BY <1>1, <1>2, <1>3, PageStep DEF Choose

LEMMA OrderSelected ==
  ASSUME Inv
  PROVE  /\ \A tier \in Tiers : [page.order EXCEPT !.tier = tier] \in Orders
         /\ \A v \in Typed : [page.order EXCEPT !.hours = Clamp(v)] \in Orders
<1>1. page.order \in Orders
  BY DEF Inv, TypeOK, Page
<1>2. \A v \in Typed : Clamp(v) \in MinHours..MaxHours
  BY ClampInRange
<1> QED BY <1>1, <1>2 DEF Orders

LEMMA WalletChangesStep ==
  ASSUME Inv, WalletChanges
  PROVE  Inv'
<1>1. connected' \in BOOLEAN
  BY Zenon DEF WalletChanges, Inv, TypeOK
<1>2. page' \in Page /\ page'.listed \subseteq history
  BY DEF WalletChanges, Inv, TypeOK, MoneyInv, Remembered
<1> QED BY <1>1, <1>2, PageStep DEF WalletChanges

\* A flow moves on, and nothing but its own payment with it.
LEMMA FlowMoves ==
  ASSUME Inv, NEW f \in Flows, NEW k \in Flow, Becomes(f, k),
         UNCHANGED <<connected, served, history, tokens, loads, page>>,
         tx' \in [Flows -> TxStatus], \A g \in Flows \ {f} : tx'[g] = tx[g],
         \/ /\ k.order = flow[f].order /\ k.amount = flow[f].amount
            /\ tx'[f] = tx[f]
         \/ tx[f] = "none" /\ tx'[f] # "mined",
         k.stage \in {"unused", "quoting", "switching"} => tx'[f] = "none",
         k.stage \notin {"done", "over", "lost", "unused"},
         k.here /\ k.stage \in InFlight =>
           \/ flow[f].here /\ flow[f].stage \in InFlight
           \/ \A g \in Flows : ~(flow[g].here /\ flow[g].stage \in InFlight)
  PROVE  Inv'
<1>1. connected' \in BOOLEAN
  BY Zenon DEF Inv, TypeOK
<1>2. flow' \in [Flows -> Flow]
  BY DEF Inv, TypeOK, Becomes
<1>3. TypeOK'
  BY <1>1, <1>2 DEF Inv, TypeOK
<1>4. PageInv'
  BY PageInvKept DEF Inv
<1>5. MoneyInv'
  BY MoneyInvKept DEF Inv
<1> QED BY <1>3, <1>4, <1>5 DEF Inv

LEMMA BuyStep ==
  ASSUME Inv, NEW f \in Flows, Buy(f)
  PROVE  Inv'
<1> DEFINE k == [stage |-> "quoting", here |-> TRUE, order |-> page.order, amount |-> 0]
<1>1. k \in Flow
  BY DEF Inv, TypeOK, Page, Flow, InFlight
<1>2. Becomes(f, k) /\ k.stage = "quoting"
  BY DEF Buy, Becomes
<1>3. tx[f] = "none" /\ tx' = tx
  BY DEF Buy, Inv, PageInv, NothingAsked
<1>4. \A g \in Flows : ~(flow[g].here /\ flow[g].stage \in InFlight)
  BY Zenon DEF Buy, Busy
<1>5. tx' \in [Flows -> TxStatus]
  BY <1>3 DEF Inv, TypeOK
<1>6. UNCHANGED <<connected, served, history, tokens, loads, page>>
  BY DEF Buy
<1> HIDE DEF k
<1> QED BY <1>1, <1>2, <1>3, <1>4, <1>5, <1>6, FlowMoves

LEMMA QuotedStep ==
  ASSUME Inv, NEW f \in Flows, Quoted(f)
  PROVE  Inv'
<1> DEFINE price == UsdcPrice(PriceDisplay(flow[f].order.tier, flow[f].order.hours))
           k == [flow[f] EXCEPT !.stage = "switching", !.amount = price]
<1>1. flow[f] \in Flow /\ price \in Nat
  BY PricesAgree DEF Inv, TypeOK, Flow
<1>2. k \in Flow /\ k.stage = "switching" /\ k.here = flow[f].here
  BY <1>1 DEF Flow, InFlight
<1>3. Becomes(f, k)
  BY DEF Quoted, Becomes, Inv, TypeOK
<1>4. tx[f] = "none" /\ tx' = tx
  BY DEF Quoted, Inv, PageInv, NothingAsked
<1>5. flow[f].stage \in InFlight
  BY DEF Quoted, InFlight
<1>6. tx' \in [Flows -> TxStatus]
  BY <1>4 DEF Inv, TypeOK
<1>7. UNCHANGED <<connected, served, history, tokens, loads, page>>
  BY DEF Quoted
<1> HIDE DEF k
<1> QED BY <1>2, <1>3, <1>4, <1>5, <1>6, <1>7, FlowMoves

\* A flow goes to a later stage, its payment as it was.
LEMMA StageStep ==
  ASSUME Inv, NEW f \in Flows, NEW stage \in {"mining", "confirming", "failed"},
         flow[f].stage \in InFlight, Goto(f, stage),
         UNCHANGED <<connected, page, tx, served, history, tokens, loads>>
  PROVE  Inv'
<1> DEFINE k == [flow[f] EXCEPT !.stage = stage]
<1>1. flow[f] \in Flow
  BY DEF Inv, TypeOK
<1>2. /\ k \in Flow /\ k.stage = stage /\ k.here = flow[f].here
      /\ k.order = flow[f].order /\ k.amount = flow[f].amount
  BY <1>1 DEF Flow, InFlight
<1>3. Becomes(f, k)
  BY GotoBecomes DEF Inv
<1>4. tx' \in [Flows -> TxStatus]
  BY DEF Inv, TypeOK
<1> HIDE DEF k
<1> QED BY <1>2, <1>3, <1>4, FlowMoves

LEMMA SwitchedStep ==
  ASSUME Inv, NEW f \in Flows, Switched(f)
  PROVE  Inv'
<1> DEFINE k == [flow[f] EXCEPT !.stage = "paying"]
<1>1. flow[f] \in Flow /\ flow[f].stage \in InFlight
  BY DEF Inv, TypeOK, Switched, InFlight
<1>2. k \in Flow /\ k.stage = "paying" /\ k.here = flow[f].here
  BY <1>1 DEF Flow, InFlight
<1>3. Becomes(f, k)
  BY GotoBecomes DEF Switched, Inv
<1>4. tx[f] = "none"
  BY DEF Switched, Inv, PageInv, NothingAsked
<1>5. /\ tx' \in [Flows -> TxStatus] /\ tx'[f] = "asked"
      /\ \A g \in Flows \ {f} : tx'[g] = tx[g]
  BY DEF Switched, Inv, TypeOK, TxStatus
<1>6. UNCHANGED <<connected, served, history, tokens, loads, page>>
  BY DEF Switched
<1> HIDE DEF k
<1> QED BY <1>1, <1>2, <1>3, <1>4, <1>5, <1>6, FlowMoves

\* The answer of the confirm: the session is remembered for what was paid.
LEMMA ConfirmedStep ==
  ASSUME Inv, NEW f \in Flows, Confirmed(f)
  PROVE  Inv'
<1> DEFINE k == [flow[f] EXCEPT !.stage = "done"]
           e == [flow |-> f, order |-> flow[f].order]
<1>1. flow[f] \in Flow /\ flow[f].stage = "confirming" /\ f \in served
  BY DEF Inv, TypeOK, Confirmed, Served
<1>2. /\ k \in Flow /\ k.stage = "done" /\ k.here = flow[f].here
      /\ k.order = flow[f].order /\ k.amount = flow[f].amount
  BY <1>1 DEF Flow
<1>3. e \in Entry /\ e.flow = f /\ e.order = flow[f].order
  BY <1>1 DEF Entry, Flow
<1>4. Becomes(f, k)
  BY GotoBecomes DEF Confirmed, Inv
<1> HIDE DEF k, e
<1>5. /\ flow' \in [Flows -> Flow]
      /\ flow'[f] = k
      /\ \A g \in Flows \ {f} : flow'[g] = flow[g]
  BY <1>2, <1>4 DEF Inv, TypeOK, Becomes
<1>6. history' = history \cup {e} /\ tokens' = tokens \cup {f}
  BY DEF Confirmed, Remember, e
<1>7. connected' \in BOOLEAN
  BY Zenon DEF Inv, TypeOK, Confirmed
<1>8. UNCHANGED <<page, tx, served, loads>>
  BY DEF Confirmed
<1>9. TypeOK'
  BY <1>3, <1>5, <1>6, <1>7, <1>8 DEF Inv, TypeOK
<1>10. PageInv'
  <2>1. tx' \in [Flows -> TxStatus] /\ \A g \in Flows \ {f} : tx'[g] = tx[g]
    BY <1>8 DEF Inv, TypeOK
  <2> QED BY <1>2, <1>4, <2>1, PageInvKept DEF Inv, InFlight
<1>11. MoneyInv'
  <2>1. \A g \in Flows : flow'[g].order = flow[g].order /\ flow'[g].amount = flow[g].amount
    BY <1>2, <1>5
  <2>2. PaidPrice'
    BY <2>1, <1>8 DEF Inv, MoneyInv, PaidPrice
  <2>3. \A d \in history : d.flow \in Flows
    BY DEF Inv, TypeOK, Entry
  <2>4. \A d \in history' : d.flow \in served' /\ d.order = flow'[d.flow].order
    BY <1>1, <1>3, <1>6, <1>8, <2>1, <2>3 DEF Inv, MoneyInv, Remembered
  <2>5. \A g \in Flows : flow'[g].stage \in {"done", "over"} =>
          \E d \in history' : d.flow = g
    BY <1>3, <1>5, <1>6 DEF Inv, MoneyInv, Remembered
  <2>6. \A d \in history' : loads' = 0 => d.flow \in tokens'
    BY <1>3, <1>6, <1>8 DEF Inv, MoneyInv, Remembered
  <2>7. page'.listed \subseteq history'
    BY <1>6, <1>8 DEF Inv, MoneyInv, Remembered
  <2> QED BY <2>2, <2>4, <2>5, <2>6, <2>7 DEF MoneyInv, Remembered
<1> QED BY <1>9, <1>10, <1>11 DEF Inv

\* The wallet, the chain and the orchestrator: flows and browser stay.
LEMMA OutsideStep ==
  ASSUME Inv, tx' \in [Flows -> TxStatus], served' \in SUBSET Flows,
         UNCHANGED <<connected, page, flow, history, tokens, loads>>,
         \A f \in Flows : tx[f] \in {"none", "mined"} => tx'[f] = tx[f],
         \A f \in Flows : tx'[f] = "mined" =>
           \/ tx[f] = "mined"
           \/ flow[f].amount = EscrowRate[flow[f].order.tier] * flow[f].order.hours,
         served \subseteq served', \A f \in served' : f \in served \/ tx[f] = "mined"
  PROVE  Inv'
<1>1. connected' \in BOOLEAN
  BY Zenon DEF Inv, TypeOK
<1>2. TypeOK'
  BY <1>1 DEF Inv, TypeOK
<1>3. flow' = flow /\ history' = history /\ page' = page /\ tokens' = tokens /\ loads' = loads
  OBVIOUS
<1>4. PageInv'
  BY <1>3 DEF Inv, PageInv, NothingAsked, GoneFlows, OneInFlight
<1>5. PaidPrice'
  BY <1>3 DEF Inv, TypeOK, MoneyInv, PaidPrice
<1>6. Remembered'
  BY <1>3 DEF Inv, MoneyInv, Remembered
<1> QED BY <1>2, <1>4, <1>5, <1>6 DEF Inv, MoneyInv

LEMMA WalletStep ==
  ASSUME Inv, NEW f \in Flows, WalletSends(f) \/ WalletRefuses(f) \/ Mined(f)
  PROVE  Inv'
<1>1. PICK status \in {"sent", "refused", "mined", "reverted"} :
        /\ tx' = [tx EXCEPT ![f] = status]
        /\ status = "mined" =>
             flow[f].amount = EscrowRate[flow[f].order.tier] * flow[f].order.hours
  BY DEF WalletSends, WalletRefuses, Mined
<1>2. tx[f] \in {"asked", "sent"}
  BY DEF WalletSends, WalletRefuses, Mined
<1>3. UNCHANGED <<connected, page, flow, served, history, tokens, loads>>
  BY DEF WalletSends, WalletRefuses, Mined
<1>4. /\ tx \in [Flows -> TxStatus] /\ served \in SUBSET Flows
      /\ tx' \in [Flows -> TxStatus]
  BY <1>1 DEF Inv, TypeOK, TxStatus
<1>5. tx'[f] = status /\ \A g \in Flows \ {f} : tx'[g] = tx[g]
  BY <1>1, <1>4
<1>6. \A g \in Flows : tx[g] \in {"none", "mined"} => tx'[g] = tx[g]
  BY <1>2, <1>5
<1>7. \A g \in Flows : tx'[g] = "mined" =>
        \/ tx[g] = "mined"
        \/ flow[g].amount = EscrowRate[flow[g].order.tier] * flow[g].order.hours
  BY <1>1, <1>5
<1> QED BY <1>3, <1>4, <1>6, <1>7, OutsideStep

LEMMA ServeStep ==
  ASSUME Inv, NEW f \in Flows, Serve(f)
  PROVE  Inv'
<1>1. tx' = tx /\ tx \in [Flows -> TxStatus]
  BY DEF Serve, Inv, TypeOK
<1>2. served' = served \cup {f} /\ tx[f] = "mined" /\ served \in SUBSET Flows
  BY DEF Serve, Inv, TypeOK
<1>3. UNCHANGED <<connected, page, flow, history, tokens, loads>>
  BY DEF Serve
<1> QED BY <1>1, <1>2, <1>3, OutsideStep

\* What a replaced page keeps is ShowKeeps; types remain.
LEMMA ShowStep ==
  ASSUME Inv, NEW path \in {"purchase", "account", "session"}, NEW fs \in [Flows -> Flow],
         Show(PageAt(path), fs),
         \A f \in Flows : /\ fs[f].order = flow[f].order /\ fs[f].amount = flow[f].amount
                          /\ \/ fs[f].stage = flow[f].stage
                             \/ fs[f].stage = "lost"
                             \/ fs[f].stage = "over" /\ flow[f].stage = "done",
         UNCHANGED <<tx, served, history>>, connected' \in BOOLEAN,
         tokens' \in {tokens, {}},
         loads' \in 0..MaxLoads, loads' = 0 => loads = 0 /\ tokens' = tokens
  PROVE  Inv'
<1>1. page' \in Page /\ flow' \in [Flows -> Flow] /\ PageInv' /\ MoneyInv'
  BY ShowKeeps
<1>2. tokens' \in SUBSET Flows
  BY DEF Inv, TypeOK
<1>3. TypeOK'
  BY <1>1, <1>2 DEF Inv, TypeOK
<1> QED BY <1>1, <1>3 DEF Inv

LEMMA OpenStep ==
  ASSUME Inv, NEW path \in {"purchase", "account", "session"}, Open(path)
  PROVE  Inv'
<1>1. connected' \in BOOLEAN
  BY Zenon DEF Inv, TypeOK, Open
<1>2. flow \in [Flows -> Flow] /\ loads \in 0..MaxLoads
  BY DEF Inv, TypeOK
<1>3. loads' = loads /\ tokens' = tokens /\ UNCHANGED <<tx, served, history>>
  BY DEF Open
<1>4. Show(PageAt(path), flow)
  BY DEF Open
<1> QED BY <1>1, <1>2, <1>3, <1>4, ShowStep

LEMMA PushedStep ==
  ASSUME Inv, NEW f \in Flows, Pushed(f)
  PROVE  Inv'
<1> DEFINE fs == [flow EXCEPT ![f].stage = "over"]
<1>1. connected' \in BOOLEAN
  BY Zenon DEF Inv, TypeOK, Pushed
<1>2. flow \in [Flows -> Flow] /\ loads \in 0..MaxLoads /\ flow[f].stage = "done"
  BY DEF Inv, TypeOK, Pushed
<1>3. fs \in [Flows -> Flow]
  BY <1>2 DEF Flow
<1>4. \A g \in Flows : /\ fs[g].order = flow[g].order /\ fs[g].amount = flow[g].amount
                       /\ \/ fs[g].stage = flow[g].stage
                          \/ fs[g].stage = "over" /\ flow[g].stage = "done"
  BY <1>2 DEF Flow
<1>5. loads' = loads /\ tokens' = tokens /\ UNCHANGED <<tx, served, history>>
  BY DEF Pushed
<1>6. Show(PageAt("session"), fs)
  BY DEF Pushed
<1> HIDE DEF fs
<1> QED BY <1>1, <1>2, <1>3, <1>4, <1>5, <1>6, ShowStep

LEMMA ReloadStep ==
  ASSUME Inv, Reload
  PROVE  Inv'
<1> DEFINE fs == [f \in Flows |->
             IF flow[f].stage \in InFlight THEN [flow[f] EXCEPT !.stage = "lost"]
             ELSE IF flow[f].stage = "done" THEN [flow[f] EXCEPT !.stage = "over"]
             ELSE flow[f]]
<1>1. connected' \in BOOLEAN
  BY Zenon DEF Reload
<1>2. flow \in [Flows -> Flow] /\ page.path \in {"purchase", "account", "session"}
  BY DEF Inv, TypeOK, Page
<1>3. \A f \in Flows : /\ fs[f] \in Flow
                       /\ fs[f].order = flow[f].order /\ fs[f].amount = flow[f].amount
                       /\ \/ fs[f].stage = flow[f].stage
                          \/ fs[f].stage = "lost"
                          \/ fs[f].stage = "over" /\ flow[f].stage = "done"
  BY <1>2 DEF Flow
<1>4. fs \in [Flows -> Flow]
  BY <1>3
<1>5. loads' \in 0..MaxLoads /\ loads' # 0
  BY MaxLoadsAssumption DEF Reload, Inv, TypeOK
<1>6. tokens' \in {tokens, {}} /\ UNCHANGED <<tx, served, history>>
  BY DEF Reload
<1>7. Show(PageAt(page.path), fs)
  BY DEF Reload
<1> HIDE DEF fs
<1> QED BY <1>1, <1>2, <1>3, <1>4, <1>5, <1>6, <1>7, ShowStep
-----------------------------------------------------------------------------
(* No step leaves the invariant.                                           *)
LEMMA Step == Inv /\ [Next]_vars => Inv'
<1> SUFFICES ASSUME Inv, [Next]_vars PROVE Inv'
  OBVIOUS
<1>1. CASE WalletChanges
  BY <1>1, WalletChangesStep
<1>2. CASE \E path \in {"purchase", "account", "session"} : Open(path)
  BY <1>2, OpenStep
<1>3. CASE \E offered \in Offers : TiersLoaded(offered)
  BY <1>3, TiersLoadedStep
<1>4. CASE \/ \E tier \in Tiers : SelectTier(tier)
           \/ \E v \in Typed : SelectHours(v)
  BY <1>4, OrderSelected, ChooseStep DEF SelectTier, SelectHours
<1>5. ASSUME NEW f \in Flows, Buy(f) \/ FlowStep(f) PROVE Inv'
  <2>1. CASE Buy(f)
    BY <2>1, BuyStep
  <2>2. CASE Quoted(f)
    BY <2>2, QuotedStep
  <2>3. CASE Switched(f)
    BY <2>3, SwitchedStep
  <2>4. CASE Sent(f) \/ Receipt(f) \/ FlowFails(f)
    <3>1. flow[f].stage \in InFlight
      BY <2>4 DEF Sent, Receipt, FlowFails, InFlight
    <3>2. /\ Goto(f, "mining") \/ Goto(f, "confirming") \/ Goto(f, "failed")
          /\ UNCHANGED <<connected, page, tx, served, history, tokens, loads>>
      BY <2>4 DEF Sent, Receipt, FlowFails
    <3> QED BY <3>1, <3>2, StageStep
  <2>5. CASE Confirmed(f)
    BY <2>5, ConfirmedStep
  <2>6. CASE Pushed(f)
    BY <2>6, PushedStep
  <2> QED BY <1>5, <2>1, <2>2, <2>3, <2>4, <2>5, <2>6 DEF FlowStep
<1>6. CASE Reload
  BY <1>6, ReloadStep
<1>7. CASE \E f \in Flows : WalletSends(f) \/ WalletRefuses(f) \/ Mined(f) \/ Serve(f)
  BY <1>7, WalletStep, ServeStep
<1>8. CASE UNCHANGED vars
  <2>1. connected' \in BOOLEAN
    BY <1>8, Zenon DEF vars, Inv, TypeOK
  <2>2. page' \in Page /\ page'.listed \subseteq history
    BY <1>8 DEF vars, Inv, TypeOK, MoneyInv, Remembered
  <2> QED BY <1>8, <2>1, <2>2, PageStep DEF vars
<1> QED BY <1>1, <1>2, <1>3, <1>4, <1>5, <1>6, <1>7, <1>8 DEF Next

LEMMA Invariance == Spec => []Inv
<1>1. Init => Inv
  BY Initially
<1>2. Inv /\ [Next]_vars => Inv'
  BY Step
<1> QED BY <1>1, <1>2, PTL DEF Spec

(* Whatever is clicked, typed, connected, mined or reloaded, every variable *)
(* has its type: no selection leaves the tiers and hours the escrow sells.  *)
THEOREM TypeCorrect == Spec => []TypeOK
<1>1. Inv => TypeOK
  BY DEF Inv
<1> QED BY <1>1, Invariance, PTL

(* One page never has two payments open, for any number of clicks and       *)
(* page changes: the button's guard reads the state of the page, but a flow *)
(* outlives its page, so what is shown is that at most one flow of the page *)
(* that is shown is under way (OneInFlight), and that whatever left is not. *)
THEOREM PaysOnceHolds == Spec => []PaysOnce
<1>1. Inv => PaysOnce
  <2> SUFFICES ASSUME Inv, NEW f \in Flows, NEW g \in Flows, f # g,
                      flow[f].here, flow[g].here,
                      flow[f].stage \notin {"done", "failed"},
                      flow[g].stage \notin {"done", "failed"}
               PROVE  FALSE
    BY DEF PaysOnce
  <2>1. flow[f].stage \in InFlight /\ flow[g].stage \in InFlight
    BY DEF Inv, TypeOK, Flow, PageInv, GoneFlows
  <2> QED BY <2>1 DEF Inv, PageInv, OneInFlight
<1> QED BY <1>1, Invariance, PTL

(* What the browser remembers is what was paid, shown and served, for every *)
(* order: the history entry is the order of the click, and the price        *)
(* survives the display it is parsed back from (PricesAgree).               *)
THEOREM HistoryIsServedHolds == Spec => []HistoryIsServed
<1>1. Inv => HistoryIsServed
  <2> SUFFICES ASSUME Inv PROVE HistoryIsServed
    OBVIOUS
  <2>1. ASSUME NEW e \in history
        PROVE  /\ e.flow \in served /\ tx[e.flow] = "mined"
               /\ e.order = flow[e.flow].order
               /\ flow[e.flow].amount = EscrowRate[e.order.tier] * e.order.hours
               /\ flow[e.flow].amount = Total(e.order)
    <3>1. e.flow \in Flows /\ e.order \in Orders
      BY DEF Inv, TypeOK, Entry
    <3>2. e.flow \in served /\ e.order = flow[e.flow].order
      BY DEF Inv, MoneyInv, Remembered
    <3>3. tx[e.flow] = "mined"
      BY <3>2 DEF Inv, MoneyInv, PaidPrice
    <3>4. flow[e.flow].amount = EscrowRate[e.order.tier] * e.order.hours
      BY <3>1, <3>2, <3>3 DEF Inv, MoneyInv, PaidPrice
    <3>5. Total(e.order) = EscrowRate[e.order.tier] * e.order.hours
      BY <3>1, PricesAgree
    <3> QED BY <3>2, <3>3, <3>4, <3>5
  <2> QED BY <2>1 DEF HistoryIsServed, Inv, MoneyInv, Remembered
<1> QED BY <1>1, Invariance, PTL
=============================================================================
