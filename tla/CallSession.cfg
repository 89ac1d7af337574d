SPECIFICATION FairSpec
CONSTANTS
  c1 = c1
  c2 = c2
  p1 = p1
  Calls <- TwoCalls
  Peers <- OnePeer
  NoPeer = NoPeer
CHECK_DEADLOCK FALSE
INVARIANTS IndexMatchesStore PendingCanSettle ClosedHoldsNothing
PROPERTIES DisconnectEndsCalls PromiseSettles ImplementsContract
