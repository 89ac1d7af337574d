SPECIFICATION FairSpec
CONSTANTS
  NoServer = NoServer
  Servers <- TwoServers
  Elsewhere <- OneElsewhere
  Asked = TRUE
  Messages <- OneMessage
  Posts = {p1}
  Base = 2
  MaxRetry = 2
  Attempts = 3
  MaxStreams = 2
INVARIANTS FramesIntact ReportedToManager DisconnectFinal
PROPERTIES SilentWhenGone StreamRecovers ImplementsContract
CHECK_DEADLOCK FALSE
