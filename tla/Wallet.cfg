\* Two wallets, changes inside them, and a page that is loaded again.
SPECIFICATION Spec
CONSTANTS
  metamask = metamask
  phantom = phantom
  a1 = a1
  a2 = a2
  p1 = p1
  Wallets = {metamask, phantom}
  Accounts <- AccountsOf
  None = None
  MaxMoves = 2
  MaxLoads = 1
INVARIANTS
  AccountIsExposed
  ChoiceHolds
