SPECIFICATION BstSpec
CONSTANTS
  BstValues = {1, 2, 3}
  MaxTree = 4
INVARIANTS NewHeadReturned
CHECK_DEADLOCK FALSE
