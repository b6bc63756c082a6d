CONSTANTS
  s1 = s1  s2 = s2  s3 = s3  f1 = f1  e1 = e1  k1 = k1  k2 = k2
  d1 = d1  d2 = d2  i1 = i1  i2 = i2  i3 = i3  i4 = i4  Nil = Nil
  Session = {s1, s2}
  Attempts <- TwoAttempts
  File = {f1, e1}
  Queue <- TwoFiles
  Key = {k1, k2}
  KeyOf <- FileKey
  Size <- FileSize
  Offers <- OfferTwo
  ChunkSize = 1
  Dir = {d1, d2}
  Inode = {i1, i2, i3, i4}
  HardLinks = {d1}
  Faults = {"abort", "torn", "stuck"}
  Users = {"pause", "idle"}
  MaxLosses = 2
  Preemptive = FALSE
SPECIFICATION TransferSpec
INVARIANTS LinkTypeOK NoHoles CompletedAgreed
PROPERTY Delivers
CHECK_DEADLOCK FALSE
SYMMETRY InodeSymmetry
