CONSTANTS
  DataWidth = 3
  StopBits = 2
  Rates = {7, 8}
  Skew <- MCSkew
  None = None
SPECIFICATION Spec
PROPERTY ImplementsChannel
