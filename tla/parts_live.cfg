SPECIFICATION MCSpec
CONSTANTS
  File <- OneFile
  Article <- TwoArticles
  FileOf <- OneFileOf
  End <- TwoEnds
  ExpectedSize <- OneSize
  MaxEnd = 3
  NoFile = NoFile
  FaultKinds = {"article", "retry", "sync", "timeout", "db", "resident"}
  MaxFault = 2
  MaxCrash = 0
  MaxTamper = 0
  CmdCfg <- MCCommands
  Depths = {2}
  Auth = TRUE
  NetFaults = 1
INVARIANT BodyIsAsked
PROPERTIES JobCompletes EveryCallReturns PushedIsTaken
CHECK_DEADLOCK FALSE
