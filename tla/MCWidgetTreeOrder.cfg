SPECIFICATION Spec
CONSTANTS
  Leaf <- MCLeaf
  FirstLeaf = "text"
  Lists <- MCLists
  MaxSlots = 3
  MaxStates = 4
  MaxDepth = 2
INVARIANT ViewsFollowSlots
CHECK_DEADLOCK FALSE
