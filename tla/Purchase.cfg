\* Two clicks on "Buy session" in one tab that is loaded again once.
SPECIFICATION Spec
CONSTANTS
  Flows = {f1, f2}
  Offers <- SomeOffers
  Typed <- SomeHours
  MaxLoads = 1
SYMMETRY Symmetry
INVARIANTS
  PaysOnce
  HistoryIsServed
