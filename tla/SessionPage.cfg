\* A page opened at any moment of a session with one failover.
SPECIFICATION FairPageSpec
CONSTANTS
  Relays = {bob, charlie}
  Null = Null
  HasToken = TRUE
  MaxRows = 5
INVARIANTS
  PageTypeOK
  
  
PROPERTIES
  ShownNeverGoesBack
  
