CONSTANTS
  w1 = w1
  w2 = w2
  Writers = {w1, w2}
  BufSize = 2
  MaxReq = 2
  MaxWords = 5
SPECIFICATION Spec
INVARIANTS
  TypeOK
  BufferOwnership
  SleepersCanBeWoken
  NothingLost
  AtMostRequested
PROPERTIES
  StreamSteps
