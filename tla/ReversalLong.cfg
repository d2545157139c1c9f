SPECIFICATION Spec
CONSTANTS
  Value = {1, 2, 3}
  MAX = 5
INVARIANT AlwaysPivots
