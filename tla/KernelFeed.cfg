SPECIFICATION FeedSpec
CONSTANTS
  Period = 3
  Width = 1
  Identities = {"btc"}
  Profiles = {"ema", "rsi", "atr", "obv", "vwma", "williams", "alma", "supertrend", "stoch_rsi", "vortex", "ulcer"}
  Candles <- MCCandles
  MinimumBars <- MCMinimumBars
  MaxTime = 8
  MaxSamples = 8
  MaxBars = 7
INVARIANTS KernelsRestorable WindowsAreTrailing UndefinedAsStated BandsRatchet
