CONSTANTS
  KindOf <- MCKindOf
  Requests <- MCRequests
  Reset = 5
  MaxFaults = 2
  MaxCalls = 2
SPECIFICATION Spec
INVARIANTS
  RailsTrue
PROPERTY
  OnAtVoltage
