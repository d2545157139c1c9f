SPECIFICATION Spec
CONSTANTS
  Period = 2
  Width = 1
  Identities = {"btc"}
  Profiles = {"rsi", "vwma"}
  Candles <- MCCandles
  MinimumBars <- MCMinimumBars
  MaxTime = 3
  MaxSamples = 4
  Offers <- MCOffers
  MaxBars = 2
  MaxState = 1
  MaxVault = 2
CONSTRAINT FewSnapshots
VIEW WithoutReply
INVARIANTS SnapshotsAreReplays PreflightSuffices AnswersWhole NoLookahead AnswersResumable
PROPERTIES ImplementsReplayTree
