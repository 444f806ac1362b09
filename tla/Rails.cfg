\* Rails for TLC: three rails and two mask words, every pair of words.
SPECIFICATION Spec
CONSTANTS
  AXP_POWER_MAX = 3
  NGroup = 2
INVARIANTS
  RecordsAgree
  NoRailForgotten
  ShutdownOrder
PROPERTIES
  OnlyThisPass
