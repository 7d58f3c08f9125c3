CONSTANTS
  w1 = w1
  w2 = w2
  Writers = {w1, w2}
  BufSize = 1
  MaxReq = 1
  MaxWords = 3
SPECIFICATION FairSpec
PROPERTIES
  FullIsSent
  CallsReturn
