SPECIFICATION Spec
CONSTANTS
  Src <- MCSrc
  Line <- MCLine
  Counts <- MCCounts
  Times <- MCTimes
  Rate = 1
  Base = 10
  Word = 256
  MaxOps = 4
  MaxEvents = 2
CHECK_DEADLOCK FALSE
INVARIANT NoStorm
INVARIANT NotMissed
PROPERTY WakesUp
PROPERTY ToldTrue
