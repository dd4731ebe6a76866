SPECIFICATION Spec
CONSTANTS
  HCount = 2
  VCount = 4
  HActive = {1}
  VActive = {1, 2}
  ClkDiv = 2
  AccessClks = 2
  Gaps = {1, 2, 3}
INVARIANT SwapMeansFlip
