CONSTANTS
  Last = 6
  Modulus = 8
  Gap = 3
  MaxEdges = 6
SPECIFICATION Spec
INVARIANTS
  TypeOK
  EdgesCounted
PROPERTIES
  NetWithinTwo
  DeltaShortByOne
