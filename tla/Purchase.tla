------------------------------ MODULE Purchase ------------------------------
(***************************************************************************)
(* apps/web: one browser tab that buys sessions.  The purchase page        *)
(* (app/purchase/page.tsx) quotes an order, asks the wallet to send the    *)
(* payment, waits until it is mined, confirms it with the orchestrator,    *)
(* and only then records the session in the browser.                       *)
(*                                                                         *)
(* Each click on "Buy session" starts a flow (handleBuy) of its own, which *)
(* works on with the order, wallet and account of the click whatever the   *)
(* user selects, connects or opens meanwhile; a page that is opened again  *)
(* knows nothing of the flows of the one before.  Loading the tab again    *)
(* ends its flows, but not what was already asked of the wallet.  A        *)
(* payment sent by a flow purchases one session, so a flow stands for its  *)
(* transaction and its session.  Of module Wallet, only whether an account *)
(* is connected matters here, and it may change at any time.               *)
(***************************************************************************)
EXTENDS Integers

CONSTANTS
  Flows,         \* clicks on "Buy session"
  Offers,        \* answers of GET /tiers: the tiers with an eligible relay
  Typed,         \* bounds of the checks: numbers entered as hours,
  MaxLoads       \* and times the tab is loaded again

Tiers == {"lite", "standard", "turbo"}

ASSUME OffersAssumption == Offers \subseteq SUBSET Tiers
ASSUME TypedAssumption == Typed \subseteq Int
ASSUME MaxLoadsAssumption == MaxLoads \in Nat

VARIABLES
  connected,     \* whether the page has a wallet and an account (module Wallet)
  page,          \* the page shown: its path, and what is selected on it
  flow,          \* the local state of every handleBuy
  tx,            \* the payment of each flow, in the wallet and on chain
  served,        \* orchestrator: payments a session was recorded for
  history,       \* localStorage "dvod-session-history"
  tokens,        \* sessionStorage: sessions whose token is kept
  loads

vars == <<connected, page, flow, tx, served, history, tokens, loads>>
-----------------------------------------------------------------------------
MinHours == 1
MaxHours == 24

Clamp(v) == IF v < MinHours THEN MinHours ELSE IF v > MaxHours THEN MaxHours ELSE v

Orders == [tier : Tiers, hours : MinHours..MaxHours]

Default == [tier |-> "standard", hours |-> 1]

InFlight == {"quoting", "switching", "paying", "mining", "confirming"}

\* here: the page that started the flow is still the one shown.
Flow == [stage : InFlight \cup {"unused", "done", "over", "failed", "lost"}, here : BOOLEAN,
         order : Orders, amount : Nat]

Unused == [stage |-> "unused", here |-> FALSE, order |-> Default, amount |-> 0]

Entry == [flow : Flows, order : Orders]

\* The account page lists the sessions that were recorded when it was opened.
Listed(path) == IF path = "account" THEN history ELSE {}

\* offered: the tiers whose buttons are enabled.
Page == [path : {"purchase", "account", "session"}, loaded : BOOLEAN,
         offered : SUBSET Tiers, order : Orders, listed : SUBSET Entry]

PageAt(path) == [path |-> path, loaded |-> FALSE, offered |-> {}, order |-> Default,
                 listed |-> Listed(path)]

TxStatus == {"none", "asked", "refused", "sent", "mined", "reverted"}

Init == /\ connected = FALSE
        /\ flow = [f \in Flows |-> Unused]
        /\ tx = [f \in Flows |-> "none"]
        /\ served = {}
        /\ history = {}
        /\ page = PageAt("purchase")
        /\ tokens = {}
        /\ loads = 0

\* In cents per hour: pricing.ts and SessionEscrow.sol.
Rate == [lite |-> 10, standard |-> 35, turbo |-> 100]
EscrowRate == [lite |-> 10, standard |-> 35, turbo |-> 100]

\* priceDisplay: dollars and cents, as in "$0.35".
PriceDisplay(tier, hours) ==
  [dollars |-> (Rate[tier] * hours) \div 100, cents |-> (Rate[tier] * hours) % 100]

\* usdcPriceToWei, in cents.
UsdcPrice(display) == 100 * display.dollars + display.cents

\* What the order summary shows: the tier's displayed rate times the hours.
Total(order) == UsdcPrice(PriceDisplay(order.tier, 1)) * order.hours

Goto(f, stage) == flow' = [flow EXCEPT ![f].stage = stage]

\* The page goes away, and with it the state its flows would set.
Show(newPage, flows) == /\ page' = newPage
                        /\ flow' = [f \in Flows |-> [flows[f] EXCEPT !.here = FALSE]]
-----------------------------------------------------------------------------
(* The purchase page.                                                      *)

Open(path) == /\ Show(PageAt(path), flow)
              /\ UNCHANGED <<connected, tx, served, history, tokens, loads>>

\* GET /tiers is answered.
TiersLoaded(offered) ==
  /\ page.path = "purchase"
  /\ ~page.loaded
  /\ page' = [page EXCEPT !.loaded = TRUE, !.offered = offered]
  /\ UNCHANGED <<connected, flow, tx, served, history, tokens, loads>>

Choose(order) == /\ page.path = "purchase"
                 /\ page' = [page EXCEPT !.order = order]
                 /\ UNCHANGED <<connected, flow, tx, served, history, tokens, loads>>

\* The buttons of tiers without an eligible relay are disabled.
SelectTier(tier) == /\ tier \in page.offered
                    /\ Choose([page.order EXCEPT !.tier = tier])

\* The slider, or the number beside it.
SelectHours(v) == Choose([page.order EXCEPT !.hours = Clamp(v)])

\* As Busy, but not while a payment is being verified.
BusyUntilPaid == \E f \in Flows : flow[f].here /\ flow[f].stage \in {"quoting", "switching", "paying"}

Busy == \E f \in Flows : flow[f].here /\ flow[f].stage \in InFlight

\* "Buy session": enabled once tiers are loaded, the selected one offered or
\* not, unless a flow of this page is under way; one that is done does not
\* disable it.
Buy(f) ==
  /\ flow[f].stage = "unused"
  /\ page.path = "purchase" /\ page.loaded
  /\ connected
  /\ ~Busy
  /\ flow' = [flow EXCEPT ![f] = [stage |-> "quoting", here |-> TRUE,
                                  order |-> page.order, amount |-> 0]]
  /\ UNCHANGED <<connected, page, tx, served, history, tokens, loads>>

\* 402 with the price; the wallet is asked to switch to the chain.
Quoted(f) ==
  /\ flow[f].stage = "quoting"
  /\ flow' = [flow EXCEPT
       ![f].stage = "switching",
       ![f].amount = UsdcPrice(PriceDisplay(flow[f].order.tier, flow[f].order.hours))]
  /\ UNCHANGED <<connected, page, tx, served, history, tokens, loads>>

\* It did, and is asked to send the price to the escrow.
Switched(f) ==
  /\ flow[f].stage = "switching"
  /\ Goto(f, "paying")
  /\ tx' = [tx EXCEPT ![f] = "asked"]
  /\ UNCHANGED <<connected, page, served, history, tokens, loads>>

\* The wallet returned the hash of the transaction it broadcast.
Sent(f) ==
  /\ flow[f].stage = "paying"
  /\ tx[f] \in {"sent", "mined", "reverted"}
  /\ Goto(f, "mining")
  /\ UNCHANGED <<connected, page, tx, served, history, tokens, loads>>

\* The receipt arrives, and is not looked at.
Receipt(f) ==
  /\ flow[f].stage = "mining"
  /\ tx[f] \in {"mined", "reverted"}
  /\ Goto(f, "confirming")
  /\ UNCHANGED <<connected, page, tx, served, history, tokens, loads>>

\* confirmSession returns.
Served(f) == flow[f].stage = "confirming" /\ f \in served

\* recordSessionPurchase
Remember(f, order) == history' = history \cup {[flow |-> f, order |-> order]}

\* As Confirmed, but what is selected by now is recorded.
ConfirmedSelected(f) ==
  /\ Served(f)
  /\ tokens' = tokens \cup {f}
  /\ Remember(f, page.order)
  /\ Goto(f, "done")
  /\ UNCHANGED <<connected, page, tx, served, loads>>

\* The confirm is answered with a token: it is stored, the session recorded,
\* and the browser sent to the session's page.
Confirmed(f) ==
  /\ Served(f)
  /\ tokens' = tokens \cup {f}
  /\ Remember(f, flow[f].order)
  /\ Goto(f, "done")
  /\ UNCHANGED <<connected, page, tx, served, loads>>

\* router.push, wherever the user is by now.
Pushed(f) ==
  /\ flow[f].stage = "done"
  /\ Show(PageAt("session"), [flow EXCEPT ![f].stage = "over"])
  /\ UNCHANGED <<connected, tx, served, history, tokens, loads>>

\* Any step rejects: the quote is refused, the wallet declines or cannot
\* switch chains, the receipt or an answer does not come, the confirm is not
\* accepted.  The page is ready for another purchase.
FlowFails(f) ==
  /\ \/ flow[f].stage \in {"quoting", "switching", "mining", "confirming"}
     \/ flow[f].stage = "paying" /\ tx[f] = "refused"
  /\ Goto(f, "failed")
  /\ UNCHANGED <<connected, page, tx, served, history, tokens, loads>>

\* The tab is loaded again or closed: its flows are gone, in the latter case
\* sessionStorage too.
Reload ==
  /\ loads < MaxLoads
  /\ loads' = loads + 1
  /\ connected' = FALSE
  /\ Show(PageAt(page.path),
          [f \in Flows |-> IF flow[f].stage \in InFlight THEN [flow[f] EXCEPT !.stage = "lost"]
                          ELSE IF flow[f].stage = "done" THEN [flow[f] EXCEPT !.stage = "over"]
                          ELSE flow[f]])
  /\ tokens' \in {tokens, {}}
  /\ UNCHANGED <<tx, served, history>>
-----------------------------------------------------------------------------
(* The wallet, its popup, the chain and the orchestrator.                  *)

WalletChanges == /\ connected' = ~connected
                 /\ UNCHANGED <<page, flow, tx, served, history, tokens, loads>>

\* The user confirms or rejects the payment, also when the page is gone.
WalletSends(f) == /\ tx[f] = "asked"
                  /\ tx' = [tx EXCEPT ![f] = "sent"]
                  /\ UNCHANGED <<connected, page, flow, served, history, tokens, loads>>

WalletRefuses(f) == /\ tx[f] = "asked"
                    /\ tx' = [tx EXCEPT ![f] = "refused"]
                    /\ UNCHANGED <<connected, page, flow, served, history, tokens, loads>>

\* purchaseSession reverts unless it is sent the exact price.
Mined(f) ==
  /\ tx[f] = "sent"
  /\ \/ /\ flow[f].amount = EscrowRate[flow[f].order.tier] * flow[f].order.hours
        /\ tx' = [tx EXCEPT ![f] = "mined"]
     \/ tx' = [tx EXCEPT ![f] = "reverted"]
  /\ UNCHANGED <<connected, page, flow, served, history, tokens, loads>>

\* The orchestrator verifies the payment and records the session.
Serve(f) == /\ flow[f].stage = "confirming"
            /\ tx[f] = "mined"
            /\ f \notin served
            /\ served' = served \cup {f}
            /\ UNCHANGED <<connected, page, flow, tx, history, tokens, loads>>

FlowStep(f) == \/ Quoted(f) \/ Switched(f) \/ Sent(f) \/ Receipt(f) \/ Confirmed(f)
               \/ Pushed(f) \/ FlowFails(f)

Next ==
  \/ WalletChanges
  \/ \E path \in {"purchase", "account", "session"} : Open(path)
  \/ \E offered \in Offers : TiersLoaded(offered)
  \/ \E tier \in Tiers : SelectTier(tier)
  \/ \E v \in Typed : SelectHours(v)
  \/ \E f \in Flows : Buy(f) \/ FlowStep(f)
  \/ Reload
  \/ \E f \in Flows : WalletSends(f) \/ WalletRefuses(f) \/ Mined(f) \/ Serve(f)

Spec == Init /\ [][Next]_vars
-----------------------------------------------------------------------------
(* Properties.                                                             *)

TypeOK == /\ connected \in BOOLEAN
          /\ page \in Page
          /\ flow \in [Flows -> Flow]
          /\ tx \in [Flows -> TxStatus]
          /\ served \in SUBSET Flows
          /\ history \in SUBSET Entry
          /\ tokens \in SUBSET Flows
          /\ loads \in 0..MaxLoads

(* One page never has two payments open: until a purchase is recorded or    *)
(* given up, the user is not asked to pay for another, whatever is         *)
(* selected, connected or answered in between.                             *)
PaysOnce ==
  \A f, g \in Flows :
    /\ f # g
    /\ flow[f].here /\ flow[g].here
    /\ tx[f] \notin {"none", "refused"} /\ tx[g] \notin {"none", "refused"}
    => \/ flow[f].stage \in {"done", "failed"}
       \/ flow[g].stage \in {"done", "failed"}

(* What the browser remembers of a session is what was paid for it on      *)
(* chain, shown as its total and recorded by the orchestrator, whatever    *)
(* the user selected, opened or bought meanwhile; every confirmed purchase *)
(* is remembered, its token is at hand until the tab goes away, and no     *)
(* account page lists a session that is not.                               *)
HistoryIsServed ==
  /\ \A e \in history :
       /\ e.flow \in served
       /\ tx[e.flow] = "mined"
       /\ e.order = flow[e.flow].order
       /\ flow[e.flow].amount = EscrowRate[e.order.tier] * e.order.hours
       /\ flow[e.flow].amount = Total(e.order)
  /\ \A f \in Flows : flow[f].stage \in {"done", "over"} =>
                         \E e \in history : e.flow = f
  /\ \A e \in history : loads = 0 => e.flow \in tokens
  /\ page.listed \subseteq history
=============================================================================
