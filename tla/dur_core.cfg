SPECIFICATION Spec
CONSTANTS
  File <- OneFile
  Article <- TwoArticles
  FileOf <- OneFileOf
  End <- TwoEnds
  ExpectedSize <- OneSize
  MaxEnd = 3
  NoFile = NoFile
  FaultKinds = {"retry", "article", "open", "write", "sync",
                "timeout", "db", "resident", "sweep", "evicted"}
  MaxFault = 1
  MaxCrash = 1
  MaxTamper = 1
INVARIANTS DoneIsDurable DoneIsRecorded
PROPERTY ClaimedIsNeverCut
CHECK_DEADLOCK FALSE
