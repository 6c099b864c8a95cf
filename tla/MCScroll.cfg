SPECIFICATION Spec
CONSTANTS
  Axis = {"x", "y"}
  Contents <- MCContents
  Viewports <- MCViewports
  Step = 1
  Speed = 1
  MaxTouches = 2
  MaxAnimations = 2
  MaxRaw = 1
INVARIANT RestsInRangeAlways
CHECK_DEADLOCK FALSE
