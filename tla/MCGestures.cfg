SPECIFICATION SuiteSpec
CONSTANTS
  Axis = {"x", "y"}
  Finger = {1, 2}
  View = {"list", "photo"}
  Parent <- MCParent
  Taps = {"photo"}
  DoubleTaps = {"photo"}
  LongPresses = {"photo"}
  Receivers = {"list"}
  Pans = {"list"}
  Scales = {"photo"}
  DoubleTapTimeout = 1
  LongPressTimeout = 1
  MaxRemovals = 2
  MaxIds = 3
INVARIANTS Types ArenaIsFair RestsInRange PressedIsHeld
PROPERTIES FollowsTheFinger TimersAndAnimationsEnd
CHECK_DEADLOCK FALSE
