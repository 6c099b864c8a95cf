CONSTANTS
  NumTextures = 2
  Mipmapped = {2}
  Size = 3
  MaxWrites = 3
  MaxQueued = 2
  MaxFailures = 1
  MaxRestarts = 1
SPECIFICATION Spec
CHECK_DEADLOCK FALSE
INVARIANT RetryUploadsWhole
