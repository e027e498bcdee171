CONSTANTS
  Size = 4
  Byte = {0, 1}
  Word = 32
  OneRead = 6
  Objects = {o1, o2}
  Threads = {main, worker}
  Main = main
  Pids = {1, 2}
  MaxStarts = 2
  NoObject = NoObject
  NoThread = NoThread
  MinThreshold = 1
  MaxThreshold = 3
  RingSize = 2
  PipeRoom = 2
  MaxRuns = 2
  MaxBytes = 4
SPECIFICATION TranscodingSpec
CHECK_DEADLOCK FALSE
INVARIANTS
  OneInside
  RegistryTight
  KillHitsOwnChild
  StartFinishBalance
  NothingLost
  TranscodingEnds
PROPERTIES
  RingIsFifo
  ReportsNoOlderRun
  KeepsReserve
  DeadChildCollected
  CallReturns
  PipeDrains
