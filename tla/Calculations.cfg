SPECIFICATION CalcSpec
CONSTANTS
  Period = 2
  Width = 1
  Identities = {"btc"}
  Profiles = {"rsi", "obv", "vwma"}
  Candles <- MCCandles
  MinimumBars <- MCMinimumBars
  MaxTime = 4
  MaxSamples = 4
  Offers <- MCOffers
  Lists <- MCLists
  MaxBars = 3
  MaxProfiles = 3
  MaxRows = 5
  NativeOffers <- MCNativeOffers
  NativeLists <- MCNativeLists
  MaxNativeBars = 4
  MaxOperations = 3
  MaxItemsOut = 14
  MaxBricks = 4
  MaxRowBytes = 22
  Splits <- MCSplits
  MaxLabels = 4
  MaxFolds = 2
  MaxSplitWork = 48
  MaxSplitValues = 1000
  Estimates <- MCEstimates
  Asked = {4, 5, 6, 7, 8}
  MaxItems = 3
  MaxEstimates = 1
  Inputs <- MCInputs
  MaxFrame = 3
  Scratch = 3
INVARIANTS BatchIsStreams PreflightSuffices NativeIsRunners BricksChain
INVARIANTS NoLeakage EveryLabelOnce SamplesAreDisjoint ArtifactsAreAccepted FramesAreBounded
