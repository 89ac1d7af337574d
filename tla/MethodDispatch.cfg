SPECIFICATION FairSpec
CONSTANTS
  outer = outer inner = inner
  Calls <- CallAndCallback
  Parent <- Nesting
  NoCall = NoCall
  Timeout = 5
  MaxDelay = 1
  MaxSend = 1
INVARIANTS NoFalseTimeout BeatMatchesTask AnsweredOnce
PROPERTIES CallEnds ImplementsContract
CHECK_DEADLOCK FALSE
