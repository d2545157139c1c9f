SPECIFICATION MethodsSpec
CONSTANTS
  Value <- MCValue
  Num <- MCNum
  Orders <- MCOrders
  Length = 5
  MAX = 5
INVARIANTS CachesAreExtrema IndexIsNewest MedianOfWindow
PROPERTY PivotsWhileCounting
