CONSTANTS
  Requests <- AllRequests
  Sizes = {0, 1}
  Data = {0, 2}
SPECIFICATION FairSpec
INVARIANTS
  TypeOK
  RunningIffOp
  TruthfulStatus
  ServicesFollowState
  OutputsOpen
PROPERTIES
  MotionOnlyInOp
  ClimbsOnRequest
  InitReached
