SPECIFICATION ArithmeticSpec
CONSTANTS
  Wrap = 5
  MaxAge = 11
  Size = 8
INVARIANTS
  TypeOK
  ExpiryIsExact
  NearestDivider
