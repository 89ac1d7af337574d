SPECIFICATION Spec
CONSTANTS
  a = a f = f u1 = u1 u2 = u2 r1 = r1 r2 = r2 m1 = m1 m2 = m2
  Registered <- OneService
  Rintfs <- NoRintf
  Callables <- OneFunction
  Peers <- NoPeers
  Offers <- OneVersion
  NoCaller = NoCaller
  Absent = Absent
  Users <- OneUser
  Reporters <- TwoReporters
  Connector = connector
  Managers <- TwoManagers
  NoTask = NoTask
  NoManager = NoManager
  MaxErrors = 0
  MaxLosses = 1
SYMMETRY Symmetry
CHECK_DEADLOCK FALSE
INVARIANTS ProxyFresh

