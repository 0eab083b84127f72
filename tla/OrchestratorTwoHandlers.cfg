\* Two requests in flight on one session, with failures and restarts.
SPECIFICATION Spec
CONSTANTS
  Sessions = {s1}
  Handlers = {h1, h2}
  Tiers = {t1}
  Relays = {r1, r2}
  r1 = r1
  r2 = r2
  t1 = t1
  t2 = t2
  Offers <- MCOffers
  None = None
  MayFail = TRUE
  MaxRows = 5
SYMMETRY HandlerSymmetry
INVARIANTS
  TypeOK
  AuditTrail
  PathUnlessOverlapped
  OneTokenUnlessOverlapped
  LateConfirmWritesNothing
