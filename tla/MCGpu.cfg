SPECIFICATION SuiteSpec
CONSTANTS
  NumImages = 3
  kMaxFramesInFlight = 2
  kMaxFrameAttempts = 3
  MaxTurns = 2
  MaxLag = 3
  NumTextures = 2
  Size = 3
INVARIANTS Types SlotIsQuiet FenceIsAnswered NothingLeftBehind QueueIsOfChain
  PixelsArrive ObjectsLiveSoundly ImagesHoldWhatIsSampled DrawnAsPainted
PROPERTIES ScreenComesToRest
CHECK_DEADLOCK FALSE
