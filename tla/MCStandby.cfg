SPECIFICATION Spec
CONSTANTS MaxTrans = 2
          MaxFails = 2
          Cuts <- MCCuts
          Word = 8
          DayWord = 1073741824
INVARIANT Clocked
INVARIANT Powered
INVARIANT Honest
PROPERTY Restored
PROPERTY Returns
CHECK_DEADLOCK FALSE
