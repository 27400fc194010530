SPECIFICATION MCSpec
CONSTANTS
  Article <- FourArticles
  NoArticle = NoArticle
  MaxOffset = 2
  Off <- CollidingAndStray
  OutOfRange = {"c1"}
  MaxFault = 1
  MaxReload = 1
  FileOf <- MCFileOf
  QueueSize = 2
  MaxLifeFaults = 1
  Files = {"f", "g"}
  MaxStallFaults = 1
  MaxUser = 1
  Content <- MCDropped
  Upload <- MCUpload
  MaxIngestUpsets = 1
  ArtCfg <- MCArticles
  Deferred = {"vol"}
  Upsets = 1
  MaxJobs = 5
  PostJob = {"a", "b"}
  Unpacking = {"b"}
  MaxRemovals = 1
  MaxFaults = 1
INVARIANTS PartsCounted ClaimedBytesAreThere
INVARIANTS CountersAgree MarkedIsKept RowsAreRuns DuplicateIsReported
INVARIANTS RemovedIsLeftAlone AdmittedIsAccounted RetriedIsTrimmed
INVARIANTS QueuedBeforeRemoved NeverLost CancelTakes
CHECK_DEADLOCK FALSE
