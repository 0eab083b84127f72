\* Two calls in flight over one relay, with failures.
CONSTANTS
  bob = bob
  charlie = charlie
  p = p
  q = q
  None = None
  Relays = {bob}
  Tiers = {"lite", "turbo"}
  Callers = {p, q}
  TTL = 3
  FetchTime = 2
  MayFail = TRUE
SPECIFICATION Spec
INVARIANTS
  TypeOK
  StaleIsBounded
  RevokedStaysUnlessOverlapped
SYMMETRY CallerSymmetry
