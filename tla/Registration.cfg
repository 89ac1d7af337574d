SPECIFICATION Spec
CONSTANTS
  a = a f = f u1 = u1 u2 = u2 r1 = r1 r2 = r2 m1 = m1 m2 = m2
  Registered <- OneService
  Rintfs <- NoRintf
  Callables <- OneFunction
  Peers <- NoPeers
  Offers <- OneVersion
  NoCaller = NoCaller
  Absent = Absent
  Users <- TwoUsers
  Reporters <- TwoReporters
  Connector = connector
  Managers <- OneManager
  NoTask = NoTask
  NoManager = NoManager
  MaxErrors = 1
  MaxLosses = 1
SYMMETRY Symmetry
CHECK_DEADLOCK FALSE
INVARIANTS TypeOK RegistryAgrees NoServiceLost OneHandler
PROPERTIES StoreImplemented
