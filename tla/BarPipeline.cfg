SPECIFICATION Spec
CONSTANTS
  MinTime <- MCMinTime
  MaxTime = 13
  MaxFill = 3
  MaxVolume = 3
  Ticks <- MCTicks
  Timeframes <- MCTimeframes
  Fills <- MCFills
  MaxTicks = 4
  MaxQueue = 2
INVARIANT ResampledIsDirect
PROPERTIES TicksAreBucketed CandlesAreBucketed
CHECK_DEADLOCK FALSE
