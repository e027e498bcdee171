CONSTANTS
  Size = 4
  Byte = {0, 1}
  Word = 32
  OneRead = 6
  Objects = {o1, o2}
  Threads = {main, worker}
  Main = main
  Pids = {1, 2}
  MaxStarts = 1
  NoObject = NoObject
  NoThread = NoThread
  MinThreshold = 1
  MaxThreshold = 3
  RingSize = 2
  PipeRoom = 2
  MaxRuns = 1
  MaxBytes = 3
SPECIFICATION TranscodingSpec
CHECK_DEADLOCK FALSE
PROPERTY TailSent
