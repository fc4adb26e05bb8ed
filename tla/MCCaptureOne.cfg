SPECIFICATION Spec
CONSTANTS
  Count = 1
  MaxGrant = 5
INVARIANTS
  AtLeastTwo
