\* One slow count and two fast ones in a millisecond; a period and a delay
\* of one, and ones that do not fit the register.
CONSTANTS
  Slow = 1
  Ratio = 2
  MaxCount = 4
  Periods = {0, 1, 3}
  Delays = {0, 1, 5}
  MaxOps = 5
  MaxFaults = 1
SPECIFICATION SpecTimers
INVARIANTS
  TimersSound
PROPERTIES
  Punctual
  Delayed
