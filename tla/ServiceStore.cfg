SPECIFICATION StoreSpec
CONSTANTS
  a = a x = x y = y f = f g = g h = h p1 = p1 p2 = p2
  Registered <- OneService
  Rintfs <- TwoRintfs
  Callables <- Functions3
  Peers <- TwoPeers
  Offers <- Shared
  NoCaller = NoCaller
  Absent = Absent
INVARIANTS RintfIndexed NoGhost
CHECK_DEADLOCK FALSE
