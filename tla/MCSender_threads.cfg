CONSTANTS
  f1 = f1  f2 = f2  e1 = e1
  File = {f1, f2, e1}
  Queue <- ThreeFiles
  Size <- ThreeSizes
  ChunkSize = 2
  Preemptive = TRUE
SPECIFICATION FairSender
CHECK_DEADLOCK FALSE
INVARIANTS SenderTypeOK OneChunkAfterStop FinishesWhole
PROPERTY CancelEnds
