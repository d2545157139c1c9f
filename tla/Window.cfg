SPECIFICATION Spec
CONSTANTS
  Value = {x, y}
  Nothing = nothing
  MaxPeriod = 5
PROPERTIES ImplementsSlidingWindow
