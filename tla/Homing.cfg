CONSTANTS
  Axes = {"z", "x"}
  Z = "z"
  c_button = 5
  c_40ms = 2
  c_2s = 4
  RomLast = 1
  Home = 1
  HomeEnd = 9
  Limit = 15
  End = 24
  MaxPress = 3
  MaxJog = 1
SPECIFICATION FairSpec
INVARIANTS
  TypeOK
  LimitRespected
PROPERTIES
  HomePrecise
  XYAfterZ
  AllGetHome
