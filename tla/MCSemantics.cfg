SPECIFICATION Spec
CONSTANTS
  Slot = {1}
  Address = {"p", "q"}
  Labels = {"buy"}
  OwnActions = {{}, {"tap"}}
  LeafActions = {{}, {"tap"}}
  MaxLeaves = 1
  MaxIds = 3
INVARIANT ActionsAreAnswered
CHECK_DEADLOCK FALSE
