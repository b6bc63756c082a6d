CONSTANTS
  h1 = h1  h2 = h2  c1 = c1  c2 = c2
  Host = {h1, h2}
  Command = {c1, c2}
  MaxPairs = 2
  MaxMade = 2
  Faults = {}
SPECIFICATION Spec
SYMMETRY Symmetry
INVARIANTS TypeOK FileFollows ForgottenIsGone EndsAgree PlainIsWanted
