SPECIFICATION Spec
CONSTANTS
  Value = {"-1", "-0", "0", "1"}
  Num <- MCNum
  Orders <- MCOrders
  Length = 3
INVARIANT MedianOfWindow
