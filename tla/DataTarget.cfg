CONSTANTS
  Addresses <- MCAddresses
  Values <- MCValues
  MaxLength = 2
  MaxChanges = 2
SPECIFICATION Spec
INVARIANTS
  TypeOK
  AllOrNothing
  CountComesFirst
