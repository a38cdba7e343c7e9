SPECIFICATION MCSpec
CONSTANTS
  Workers = {w1, w2}
  Tasks = {t1, t2, t3, t4}
  QueueCap = 2
  sa = sa
  sb = sb
  NShards = 2
  NFrames = 2
  NReads = 1
  NIds = 2
  MaxWire = 2
  MaxStreams = 1
  ResetWindow = 1
  MaxTombstones = 1
INVARIANTS WorkerForEach StreamOrder NoWriteAfterClose GoodClientKept
PROPERTIES Started NoStrandedFrame GoAwayKept Answered
CHECK_DEADLOCK FALSE
