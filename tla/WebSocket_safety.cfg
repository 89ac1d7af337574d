SPECIFICATION Spec
CONSTANTS
  s1 = s1 s2 = s2 r1 = r1 r2 = r2 r3 = r3 r4 = r4 e1 = e1
  NoSocket = NoSocket
  NoTask = NoTask
  Sockets <- TwoSockets
  Reconnects <- ThreeTasks
  Emitters <- OneEmitter
  Faults <- AllFaults
  MaxRetry = 2
  MaxFlaps = 2
  MayDisconnect = TRUE
SYMMETRY Symmetry
CHECK_DEADLOCK FALSE
INVARIANTS SocketHeld LockHeld
