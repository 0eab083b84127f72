\* A browser's connection through the application to the servers of two relays.
SPECIFICATION FairTunnelSpec
CONSTANTS
  Relays = {bob, charlie}
  Issuer = bob
  Conns = {c1}
  MaxChunks = 2
INVARIANTS
  OpensThenCloses
  
  
PROPERTIES
  
  BridgeEnds
\* Every request was made and every socket is closed.
CHECK_DEADLOCK FALSE
