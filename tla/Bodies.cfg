SPECIFICATION Spec
CONSTANTS
  Received <- MCInputs
  Order <- MCOrder
  Strangers <- MCStrangers
  MaxDepth = 2
  MaxDigits = 3
INVARIANTS TextIsKept ErrorIsExact BytesAreCharacters
           LoadsIsJson WrittenReadsBack ErrorsPointAtTheFault
CHECK_DEADLOCK FALSE
