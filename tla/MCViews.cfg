SPECIFICATION SuiteSpec
CONSTANTS
  Leaf <- MCLeaf
  FirstLeaf = "text"
  Lists <- MCLists
  MaxSlots = 3
  MaxStates = 4
  MaxDepth = 2
  Advance <- MCAdvance
  EllipsisWidth = 1
  kAtlasPageSize = 6
  kGlyphPadding = 1
  Address = {p, q, r}
SYMMETRY Addresses
INVARIANTS Types ViewsAreOfSlots SubscriptionsAreOfStates LayoutIsCurrentAndHit
  ReadersAreCurrent TextIsWhole ReaderIsInStep
PROPERTIES OnlyShownHear
CHECK_DEADLOCK FALSE
