CONSTANTS
  Dcxo = 240000
  Pll200 = 2000000
  Pll300 = 3000000
  ApbsPll = 2000000
  Iosc = 160000
  Losc = 327
  Khz = 10
  MaxMs = 178956
  MaxWord = 42949672
  DivMax = 65535
  FifoDepth = 1
  DefaultRate = 576
  LeSpaces = 4
  NotifierMax = 8
  BufferSize = 256
  Trees = {"none", "outside", "broken", "large", "bare", "good"}
  DtbAddr = 5120
  DtsSize = 1024
  DramBase = 64
  DramEnd = 128
  CrcMax = 32
  AddrSpace = 256
  DaemonTicks = 2
  TickSpace = 5
  Messages <- MCMessages
  Formats <- MCFormats
  Samples <- MCSamples
SPECIFICATION SpecFirmware
CHECK_DEADLOCK FALSE
INVARIANTS
  Started
PROPERTIES
  SendsAtRate
  InBounds
  DaemonPaced
