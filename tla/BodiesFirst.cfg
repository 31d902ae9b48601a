SPECIFICATION Spec
CONSTANTS
  Received <- FirstBytes
  Order <- MCOrder
  Strangers <- MCStrangers
  MaxDepth = 2
  MaxDigits = 3
INVARIANTS FalseOnInvalid
CHECK_DEADLOCK FALSE
