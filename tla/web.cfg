CONSTANTS
  Client = {c1, c2}
  Poll = poll
  Port = {h1, h2}
  None = none
  FlashWords = 1
SPECIFICATION Spec
INVARIANTS TypeOK FlashIsWhole PortsAccounted
PROPERTY Answered
