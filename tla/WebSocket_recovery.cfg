SPECIFICATION FairSpec
CONSTANTS
  s1 = s1 s2 = s2 r1 = r1 r2 = r2 r3 = r3 r4 = r4 e1 = e1
  NoSocket = NoSocket
  NoTask = NoTask
  Sockets <- OneSocket
  Reconnects <- FourTasks
  Emitters <- NoEmitter
  Faults <- Refuse
  MaxRetry = 2
  MaxFlaps = 3
  MayDisconnect = FALSE
CHECK_DEADLOCK FALSE
INVARIANTS LinkHeard LossNoticed EventHasTask
PROPERTIES StormEnds LinkSettles
