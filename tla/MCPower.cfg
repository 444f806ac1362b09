SPECIFICATION Spec
CONSTANTS
  RegOf <- MCRegOf
  Detected = {"none", "vbus", "no vbus"}
  MaxFaults = 2
  MaxCalls = 2
INVARIANTS
  Recovers
PROPERTIES
  SwitchesRails
  SysOpDone
