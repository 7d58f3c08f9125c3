CONSTANTS
  Requests = {1, 2, 4, 8}
  Sizes = {0, 1}
  Data = {2}
SPECIFICATION Spec
INVARIANT
  OutputsAlwaysOpen
