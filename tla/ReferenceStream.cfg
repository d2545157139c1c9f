SPECIFICATION ToolSpec
CONSTANTS
  Series = {x, y}
  Values = {"light", "heavy", "late", "bad"}
  Offers <- MCOffers
  Lists <- MCLists
  Malformed = {"bad"}
  Size <- MCSize
  Takes <- MCTakes
  Emits <- MCEmits
  Warmup = 2
  MaxTime = 3
  MaxSamples = 2
  MaxBytes = 7
  MaxVault = 2
  MaxDamaged = 1
CONSTRAINT Few
SYMMETRY Names
VIEW WithoutReply
INVARIANTS HistoryIsAll ReplayNeverRefuses AnswersAsOf
PROPERTIES RestoresExactly ImplementsSeriesLog
