CONSTANTS
  s1 = s1  s2 = s2  f1 = f1  e1 = e1  k1 = k1  k2 = k2  d1 = d1  d2 = d2
  i1 = i1  i2 = i2  i3 = i3  i4 = i4
  Session = {s1, s2}
  File = {f1}
  Key = {k1}
  KeyOf <- SharedKeyOf
  Size <- SharedSize
  Offers <- SharedOffers
  Dir = {d1, d2}
  Inode = {i1, i2}
  Nil = Nil
  HardLinks = {d1}
  Faults = {"abort", "chdir", "crash"}
SPECIFICATION Spec
SYMMETRY SharedSymmetry
CHECK_DEADLOCK FALSE
INVARIANTS TypeOK SavedIntact NoAliasing
PROPERTY SavedFileStable
