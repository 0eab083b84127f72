\* Liveness without failures: two requests in flight, one of which may fail over.
SPECIFICATION FairSpec
CONSTANTS
  Sessions = {s1}
  Handlers = {h1, h2}
  Tiers = {t1}
  Relays = {r1}
  r1 = r1
  r2 = r2
  t1 = t1
  t2 = t2
  Offers <- MCOffers
  None = None
  MayFail = FALSE
  MaxRows = 5
PROPERTIES
  EveryCallAnswered
  PaidIsServed
