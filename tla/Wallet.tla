------------------------------- MODULE Wallet -------------------------------
(***************************************************************************)
(* apps/web/src/lib/WalletContext.tsx: which wallet one page of the web    *)
(* client is connected to.  Wallets announce themselves (EIP-6963), the    *)
(* one used last is asked silently for its account (eth_accounts), the     *)
(* user connects one by hand (eth_requestAccounts), disconnects, or        *)
(* changes accounts inside the wallet.                                     *)
(*                                                                         *)
(* Requests to a wallet are answered later, in any order.  React runs the  *)
(* effects of a state change after the change: until then the listener of  *)
(* the previous wallet is still attached and that of the new one is not.   *)
(* A wallet delivers its answers and its accountsChanged events in order,  *)
(* so an answer carries the account the wallet exposes when it arrives.    *)
(***************************************************************************)
EXTENDS Naturals

CONSTANTS
  Wallets,       \* installed wallets (uuid and rdns identify the same one)
  Accounts,      \* Accounts[w]: the accounts of wallet w
  None,          \* null
  MaxMoves,      \* bounds of the checks: changes made inside the wallets,
  MaxLoads       \* and times the page is loaded again

ASSUME NoWalletAssumption == /\ {None, "none", "nothing"} \cap Wallets = {}
                             /\ \A w \in Wallets : None \notin Accounts[w]
ASSUME BoundsAssumption == MaxMoves \in Nat /\ MaxLoads \in Nat

VARIABLES
  context,       \* state of the WalletProvider, and what it waits for
  lastWallet,    \* localStorage "dvod-last-wallet-rdns"
  exposed,       \* in the wallets: the account each exposes to this site
  moves,         \* changes made inside the wallets so far
  loads,         \* times the page was loaded again so far
  said           \* history: the user's last word, and what it raced with

vars == <<context, lastWallet, exposed, moves, loads, said>>
-----------------------------------------------------------------------------
AllAccounts == UNION {Accounts[w] : w \in Wallets}

\* asking: the wallet whose eth_requestAccounts is pending (connecting);
\* silent[w]: pending eth_accounts requests; effectsDue: the state changed
\* and its effects have not run; listening: the wallet whose accountsChanged
\* listener is attached.
Context == [providers : SUBSET Wallets,
            connected : Wallets \cup {None}, account : AllAccounts \cup {None},
            modalOpen : BOOLEAN, asking : Wallets \cup {None},
            silent : [Wallets -> Nat],
            effectsDue : BOOLEAN, listening : Wallets \cup {None}]

\* choice: the wallet picked, "none" once disconnected, "nothing" before;
\* late: a silent request was pending then; torn: since then a wallet changed
\* while effects were due.
Said == [choice : Wallets \cup {"none", "nothing"}, late : BOOLEAN, torn : BOOLEAN]

\* The context of a page that is being loaded.
NewContext == [providers |-> {}, connected |-> None, account |-> None,
               modalOpen |-> FALSE, asking |-> None, silent |-> [w \in Wallets |-> 0],
               effectsDue |-> FALSE, listening |-> None]

NothingSaid == [choice |-> "nothing", late |-> FALSE, torn |-> FALSE]

Init == /\ context = NewContext
        /\ lastWallet \in Wallets \cup {None}
        /\ exposed \in [Wallets -> AllAccounts \cup {None}]
        /\ \A w \in Wallets : exposed[w] \in Accounts[w] \cup {None}
        /\ moves = 0
        /\ loads = 0
        /\ said = NothingSaid

\* The user says which wallet, if any, the page should use.
Say(w) == said' = [choice |-> w, torn |-> FALSE,
                   late |-> \E v \in Wallets : context.silent[v] > 0]

\* setConnectedProvider and setAccount; a changed provider has effects.
Use(c, w, a) == [c EXCEPT !.connected = w, !.account = a,
                          !.effectsDue = @ \/ w # c.connected]
-----------------------------------------------------------------------------
(* Discovery and the effects.                                              *)

\* setProviders: a wallet that is known already changes nothing.
Added(w) == [context EXCEPT !.providers = @ \cup {w},
                            !.effectsDue = @ \/ w \notin context.providers]

\* A wallet announces itself, once or more often.
Announce(w) == /\ context' = Added(w)
               /\ UNCHANGED <<lastWallet, exposed, moves, loads, said>>

ReconnectDue == /\ lastWallet # None /\ lastWallet \in context.providers
                /\ context.connected = None

\* The effects of a change of providers or connectedProvider: the wallet
\* used last is asked, and the accountsChanged listener is moved.
RunEffects ==
  /\ context.effectsDue
  /\ context' = [context EXCEPT
       !.effectsDue = FALSE,
       !.listening = context.connected,
       !.silent = IF ReconnectDue THEN [@ EXCEPT ![lastWallet] = context.silent[lastWallet] + 1]
                  ELSE @]
  /\ UNCHANGED <<lastWallet, exposed, moves, loads, said>>

\* eth_accounts is answered: nothing happens when it is rejected or empty.
SilentAnswer(w) ==
  LET c == [context EXCEPT !.silent[w] = @ - 1]
  IN /\ context.silent[w] > 0
     /\ \/ context' = c
        \/ exposed[w] # None /\ context' = Use(c, w, exposed[w])
     /\ UNCHANGED <<lastWallet, exposed, moves, loads, said>>
-----------------------------------------------------------------------------
(* The wallet dialog and the wallet buttons.                               *)

OpenModal == /\ ~context.modalOpen
             /\ context' = [context EXCEPT !.modalOpen = TRUE]
             /\ UNCHANGED <<lastWallet, exposed, moves, loads, said>>

CloseModal == /\ context.modalOpen
              /\ context' = [context EXCEPT !.modalOpen = FALSE]
              /\ UNCHANGED <<lastWallet, exposed, moves, loads, said>>

\* The buttons of the dialog are disabled while a wallet is being asked.
Connect(w) == /\ context.modalOpen
              /\ w \in context.providers
              /\ context.asking = None
              /\ context' = [context EXCEPT !.asking = w]
              /\ UNCHANGED <<lastWallet, exposed, moves, loads, said>>

\* The user approves in the wallet: the page connects, remembers the wallet
\* and closes the dialog.
Approve(a) ==
  LET w == context.asking
  IN /\ w # None
     /\ a \in Accounts[w]
     /\ exposed' = [exposed EXCEPT ![w] = a]
     /\ context' = [Use(context, w, a) EXCEPT !.modalOpen = FALSE, !.asking = None]
     /\ lastWallet' = w
     /\ Say(w)
     /\ UNCHANGED <<moves, loads>>

\* The user refuses.
Refuse == /\ context.asking # None
          /\ context' = [context EXCEPT !.asking = None]
          /\ UNCHANGED <<lastWallet, exposed, moves, loads, said>>

\* As Forget, but the wallet is still remembered.
ForgetUnsaved == context' = Use(context, None, None) /\ UNCHANGED lastWallet

Forget == context' = Use(context, None, None) /\ lastWallet' = None

\* What the wallet button offers; the account page offers the same, and to
\* switch.
Offers == IF context.account = None THEN {"connect"} ELSE {"disconnect"}

Disconnect == /\ "disconnect" \in Offers
              /\ Forget
              /\ Say("none")
              /\ UNCHANGED <<exposed, moves, loads>>

\* As AccountsChanged, but a withdrawn permission leaves the account.
AccountsChangedKept(a) ==
  IF a # None THEN /\ context' = [context EXCEPT !.account = a]
                   /\ UNCHANGED lastWallet
              ELSE UNCHANGED <<context, lastWallet>>

\* The listener does not ask which wallet is connected by now.
AccountsChanged(a) ==
  IF a # None THEN /\ context' = [context EXCEPT !.account = a]
                   /\ UNCHANGED lastWallet
              ELSE Forget

\* Inside wallet w the user exposes account a instead, or none any more.
WalletMoves(w, a) ==
  /\ moves < MaxMoves
  /\ moves' = moves + 1
  /\ a # exposed[w]
  /\ exposed' = [exposed EXCEPT ![w] = a]
  /\ UNCHANGED loads
  /\ IF context.listening = w THEN AccountsChanged(a) ELSE UNCHANGED <<context, lastWallet>>
  /\ IF context.effectsDue THEN said' = [said EXCEPT !.torn = TRUE]
     ELSE IF context.listening = w /\ a = None THEN Say("none")
     ELSE UNCHANGED said

\* The page is loaded again: localStorage and the wallets remain.
Reload == /\ loads < MaxLoads
          /\ loads' = loads + 1
          /\ context' = NewContext
          /\ said' = NothingSaid
          /\ UNCHANGED <<lastWallet, exposed, moves>>

Next ==
  \/ RunEffects
  \/ \E w \in Wallets : Announce(w) \/ SilentAnswer(w) \/ Connect(w)
  \/ OpenModal
  \/ CloseModal
  \/ \E a \in AllAccounts : Approve(a)
  \/ Refuse
  \/ Disconnect
  \/ \E w \in Wallets : \E a \in Accounts[w] \cup {None} : WalletMoves(w, a)
  \/ Reload

Spec == Init /\ [][Next]_vars
-----------------------------------------------------------------------------
(* Properties.                                                             *)

TypeOK == /\ context \in Context
          /\ lastWallet \in Wallets \cup {None}
          /\ exposed \in [Wallets -> AllAccounts \cup {None}]
          /\ moves \in 0..MaxMoves
          /\ loads \in 0..MaxLoads
          /\ said \in Said

(* What the page shows as connected, and will ask for payments, is the     *)
(* account its wallet exposes now, however silent and asked-for            *)
(* connections interleave.  Only a change inside a wallet that comes       *)
(* before the page moved its listener is missed, or taken for the other    *)
(* wallet's.                                                               *)
AccountIsExposed ==
  ~said.torn => /\ (context.connected = None) <=> (context.account = None)
                /\ context.connected # None =>
                     context.account = exposed[context.connected]

(* The wallet the user picked stays, and once disconnected the page stays  *)
(* so, unless a silent reconnect was already on its way.                   *)
ChoiceHolds ==
  ~said.late /\ ~said.torn =>
    /\ said.choice \in Wallets => context.connected = said.choice
    /\ said.choice = "none" => context.connected = None
=============================================================================
