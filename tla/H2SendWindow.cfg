SPECIFICATION PeerFairSpec
CONSTANTS
  w1 = w1
  w2 = w2
  s1 = s1
  s2 = s2
  Loop = Loop
  NoStream = NoStream
  Writers <- MCWriters
  Streams <- MCStreams
  StreamOf <- MCStreamOf
  Responders <- MCResponders
  Body <- MCBody
  InitWin = 1
  InitConn = 2
  ConnCredit = 3
  StreamCredit = 2
  Deltas <- MCDown
INVARIANTS CreditConserved NoLostWakeup NoStrandedBuffer
PROPERTIES AllDelivered
CHECK_DEADLOCK FALSE
