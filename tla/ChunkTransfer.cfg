SPECIFICATION FairSpec
CONSTANTS
  m1 = m1 m2 = m2 session = session
  NoMessage = NoMessage
  Messages <- TwoReplies
  Key <- Shared
  Keys <- OneSession
  Sessions <- OneSession
  Chunks = 3
  Limit = 2
  MaxHurt = 1
INVARIANTS WholeMessages FailsForAReason OnlyFaultsLeak
PROPERTIES TransferEnds DeliveryImplemented
CHECK_DEADLOCK FALSE
