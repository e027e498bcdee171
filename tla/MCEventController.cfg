CONSTANTS
  Threads = {t1, t2}
  Sids = {s1, s2, s3, s4}
  Timeouts = {1, Infinite}
  Infinite = Infinite
  LastKey = 1
  MaxTime = 1
  MaxChanges = 2
SPECIFICATION MCSpec
SYMMETRY Interchangeable
CHECK_DEADLOCK FALSE
INVARIANTS
  ListSound
  SubscriberLearns
  KeysInOrder
  FirstTellsAll
