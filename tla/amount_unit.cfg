CONSTANTS
  MaxInt = 15
  MaxUnits = 9
  One = 524288
  Precision = 4096
  Ulps <- PowersOfTwo
  Prices <- AllPrices
  Nums <- AllNums
  Cents = {}
SPECIFICATION AmountSpec
INVARIANT ChargedPrice
CHECK_DEADLOCK FALSE
