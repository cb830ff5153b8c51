SPECIFICATION FairSpec
CONSTANTS
  k1 = k1
  k2 = k2
  a1 = a1
  b1 = b1
  None = None
  Tab = {t1, t2}
  Key = {k1, k2}
  Leaf = {a1, b1}
  HashOf <- MCHashOf
  Visits <- MCVisits
  Ops = 2
  Patience = 2
CHECK_DEADLOCK FALSE
INVARIANT TypeOK
INVARIANT RawTextIsParsed
INVARIANT ActsLikeAMap
INVARIANT BadgesAreOfTheSelected
INVARIANT PinOrder
PROPERTY ListsBecomeCurrent
