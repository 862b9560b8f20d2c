\* Three threads share a client; on_closed uses it or throws.
CONSTANTS
  Users = {u1, u2, u3}
  Creator = u1
  Configured = {"onConnected", "onClosed"}
  CheckConnection = TRUE
  OnClosedDoes = {"State", "Close", "throw"}
SPECIFICATION FairSpec
CHECK_DEADLOCK FALSE
INVARIANTS NoOrphan
PROPERTIES ImplementsContract CallsReturn
