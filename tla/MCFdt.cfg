SPECIFICATION SpecFdt
CONSTANTS
  WordSpace = 4096
  Name <- MCName
  NoUnit <- MCNoUnit
  AliasPath <- MCAliasPath
  Buffers = {9, 11, 26, 29}
  Names = {101, 102, 103}
  Props = {201, 204}
  Values <- MCValues
  Reserves <- MCReserves
  MaxNodes = 5
  Given <- MCGiven
  IntWord = 256
INVARIANTS
  
  BlocksFit
  CutIsSafe
