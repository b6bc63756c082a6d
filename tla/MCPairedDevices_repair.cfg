CONSTANTS
  h1 = h1  h2 = h2  c1 = c1  c2 = c2
  Host = {h1}
  Command = {c1}
  MaxPairs = 1
  MaxMade = 1
  Faults = {}
SPECIFICATION Spec
PROPERTY UnknownBlocks
