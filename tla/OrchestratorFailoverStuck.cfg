\* A failover finds no other relay for a moment.
SPECIFICATION FairSpec
CONSTANTS
  Sessions = {s1}
  Handlers = {h1}
  Tiers = {t1}
  Relays = {r1, r2}
  r1 = r1
  r2 = r2
  t1 = t1
  t2 = t2
  Offers <- MCOffers
  None = None
  MayFail = FALSE
  MaxRows = 9
PROPERTY FailoverCompletes
