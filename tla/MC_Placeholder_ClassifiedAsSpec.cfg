\* The same calls, checked against the binding contract (ClassifiedAsSpec).
CONSTANTS
  a = a
  b = b
  v1 = v1
  v2 = v2
  BaseNames <- MCBaseNames
  Vals <- MCVals
  MaxNum = 2
  MaxTokens = 3
  MaxVals = 3
SPECIFICATION Spec
CHECK_DEADLOCK FALSE
INVARIANT ClassifiedAsSpec
