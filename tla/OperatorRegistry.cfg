\* The script run twice for one operator, with stops, checks and refreshes.
SPECIFICATION Spec
CONSTANTS
  Operators = {bob}
  Builds = {stub, fresh}
  StubBuild = stub
  FreshBuild = fresh
  None = None
  MaxRuns = 2
  MaxChecks = 2
INVARIANTS
  TypeOK
  ListedIsComplete
  MatchingReportRevokesNobody
PROPERTIES
  RevokedIsFinal
  ListedBecomesRevocable
