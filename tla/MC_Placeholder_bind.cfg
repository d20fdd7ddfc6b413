\* All queries of up to 3 placeholders over ?, ?1, ?2 and :a @a $a :b @b $b,
\* bound with up to 3 values or any key map over {a, b}.
CONSTANTS
  a = a
  b = b
  v1 = v1
  v2 = v2
  BaseNames <- MCBaseNames
  Vals <- MCVals
  MaxNum = 2
  MaxTokens = 3
  MaxVals = 3
SPECIFICATION Spec
INVARIANT TypeOK
INVARIANT BoundValuesCorrect
INVARIANT KeyBindAsSpec
CHECK_DEADLOCK FALSE
