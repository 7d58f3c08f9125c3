CONSTANTS
  Parts = {"pcie", "motion", "interpolation", "jog", "hand wheel", "outputs", "spi", "driver"}
  MaxPackets = 4
  MaxGap = 1
  MaxStall = 6
  Depth = 4
  AlmostEmpty = 3
  Batch = 2
  Period = 2
  Hold = 1
  MaxBatches = 2
  CLOCKS = 40
  MaxData = 3
  CountModulus = 4
  JogHold = 2
  Half = 3
  Far = 4
  Ratios = {2, 4}
  Gap = 7
  Timeout = 10
  Words = 2
  Selections = {{1, 2, 3}, {2, 8}}
  Pockets = 3
  RotModulus = 6
  Threads = {"t1", "t2"}
  NoThread = "none"
  POS_SIZE = 2
  Commands = {"spindle_pos", "spindle_stop", "unknown"}
  ByteTime = 8
  Rounds = {1, 2}
  Between = 3
SPECIFICATION PartsSpec
INVARIANTS
  
  OwnByteOrZero
  
  
  
  PulsesWithinData
  
  
  GivesBackInOrder
  CallsDoNotMix
PROPERTIES
  
  
  StopsAtPocket
