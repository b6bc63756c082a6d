CONSTANTS
  s1 = s1  s2 = s2  s3 = s3  f1 = f1  e1 = e1  k1 = k1  k2 = k2
  d1 = d1  d2 = d2  i1 = i1  i2 = i2  i3 = i3  i4 = i4  Nil = Nil
  Session = {s1}
  Attempts <- OneAttempt
  File = {f1, e1}
  Queue <- TwoFiles
  Key = {k1, k2}
  KeyOf <- FileKey
  Size <- FileSize
  Offers <- OfferTwo
  ChunkSize = 1
  Dir = {d1, d2}
  Inode = {i1, i2, i3}
  HardLinks = {d1}
  Faults = {}
  Users = {"pause", "cancel", "refuse", "idle"}
  MaxLosses = 1
  Preemptive = TRUE
SPECIFICATION TransferSpec
INVARIANTS UploadKept CancelAgreed CancelCleansUp
CHECK_DEADLOCK FALSE
SYMMETRY InodeSymmetry
