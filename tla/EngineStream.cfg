SPECIFICATION Spec
CONSTANTS
  Period = 2
  Width = 1
  Identities = {btc, eth}
  Profiles = {"rsi", "vwma"}
  Candles <- MCCandles
  MinimumBars <- MCMinimumBars
  MaxTime = 2
  MaxSamples = 4
  MaxVault = 2
  MaxDamaged = 1
CONSTRAINT FewSnapshots
SYMMETRY Names
VIEW WithoutReply
INVARIANTS StateIsReplay OneSeries
PROPERTIES ImplementsSeriesLog
