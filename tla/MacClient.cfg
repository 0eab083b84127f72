\* Instances that come and go on a machine with two network services.
SPECIFICATION Spec
CONSTANTS
  Instances = {p1, p2, p3}
  Services = {wifi, ethernet}
  wifi = wifi
  ethernet = ethernet
  NoService = NoService
  MaxConnects = 2
  MaxFailures = 1
  MaxMoves = 1
CHECK_DEADLOCK FALSE
INVARIANTS
  ProxyFollowsConnection
  HistoryFollowsConnection
  
PROPERTY ClosedStaysClosed
SYMMETRY Symmetry
