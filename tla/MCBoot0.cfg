SPECIFICATION Spec
CONSTANTS
  HeaderSize = 1
  EntrySize = 1
  MaxEntries = 5
  MaxSize = 20
  Word = 32
  SectorSize = 4
  Limit <- MCLimit
  MinSize <- MCMinSize
  Images <- MCImages
  Capacity = 20
  Primary = 1
  Backup = 2
  Media <- MCMedia
  CopyFails = {"bl33", "hw_config", "scp_bl2"}
  MinRate = 2
  MaxRate = 60
  Requests = {0, 1, 7, 60, 61}
  MaxIos = 2
INVARIANTS
  LoadsPackage
  ParserExact
  EmmcClocked
