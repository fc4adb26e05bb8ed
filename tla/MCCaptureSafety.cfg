SPECIFICATION Spec
CONSTANTS
  Count = 4
  MaxGrant = 5
INVARIANTS
  TypeOK
  DescriptorsOwned
  NothingLeftOpen
  RightMemory
  AtLeastTwoExported
PROPERTIES
  ProvidesDevice
