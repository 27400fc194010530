SPECIFICATION Spec
CONSTANTS
  Article <- ThreeArticles
  NoArticle = NoArticle
  MaxOffset = 2
  Off <- Colliding
  OutOfRange = {}
  MaxFault = 1
  MaxReload = 0
INVARIANT OneDisposition
CHECK_DEADLOCK FALSE
