\* Mailbox for TLC: a FIFO that one startup notify fills exactly, as in the
\* firmware, requests without parameters, that fit and that are too long.
SPECIFICATION FairSpec
CONSTANTS
  Depth = 3
  NotifyParas = 1
  Capacity = 2
  ParaCounts = {0, 2, 3}
  Stray = 0
  MaxRequests = 2
  Stalls = {TRUE, FALSE}
INVARIANTS
  Framed
PROPERTIES
  HardAnswered
