SPECIFICATION Spec
CONSTANTS
  File <- OneFile
  Article <- TwoArticles
  FileOf <- OneFileOf
  End <- TwoEnds
  ExpectedSize <- OneSize
  MaxEnd = 3
  NoFile = NoFile
  FaultKinds = {"retry", "article", "open", "sync", "timeout",
                "db", "resident", "sweep"}
  MaxFault = 2
  MaxCrash = 1
  MaxTamper = 0
INVARIANTS CompleteIsResolved CompleteIsTrimmed NoStrandedArticle
CHECK_DEADLOCK FALSE
