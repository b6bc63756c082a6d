---------------------------- MODULE SenderProofs ----------------------------
(***************************************************************************)
(* Proofs about Sender: its variables have their types, a file is finished *)
(* only when all of it is acknowledged, and a pause or a cancel lets at    *)
(* most one more chunk begin.  They hold for every queue of files, every   *)
(* size and chunk size, with and without preemption.                       *)
(***************************************************************************)
EXTENDS Sender, TLAPS

(* Once a chunk was begun after a pause or cancel, the flag is still set   *)
(* (clearing it starts a new count), the task is not about to send, and it *)
(* is in the pause loop only because it is paused.                         *)
StopInv ==
  /\ late \in {0, 1}
  /\ late = 1 => /\ isPaused \/ isCancelled
                 /\ at # "send"
                 /\ at \in {"arm", "wait", "recheck"} => isPaused

(* The size of the file that is being sent is a number.                    *)
LEMMA CurrentSize ==
  ASSUME idx \in 1 .. Len(Queue)
  PROVE  Size[Current] \in Nat
  BY QueueAssumption, LengthAssumption DEF Current

(* A chunk moves the offset towards the size and not past it.              *)
LEMMA ChunkAdvances ==
  ASSUME idx \in 1 .. Len(Queue), offset \in Nat, offset < Size[Current]
  PROVE  offset + ChunkLen \in Nat /\ offset + ChunkLen <= Size[Current]
<1>1. Size[Current] \in Nat
  BY CurrentSize
<1>. QED BY <1>1, ChunkAssumption DEF ChunkLen

(* Type correctness: every variable has its type in every reachable state, *)
(* and the task is in the chunk loop only while bytes are left to send.    *)
THEOREM SenderTypeCorrect == SenderSpec => []SenderTypeOK
<1>1. SenderInit => SenderTypeOK
  <2>1. Len(Queue) \in Nat
    BY QueueAssumption
  <2>2. 1 \in 1 .. Len(Queue) + 1
    BY <2>1
  <2>. SUFFICES ASSUME SenderInit PROVE SenderTypeOK
    OBVIOUS
  <2>3. idx \in 1 .. Len(Queue) + 1 /\ at = "next"
    BY <2>2 DEF SenderInit
  <2>4. isPaused \in BOOLEAN /\ isCancelled \in BOOLEAN /\ registered \in BOOLEAN
    BY DEF SenderInit
  <2>. QED BY <2>3, <2>4 DEF SenderInit, SenderTypeOK
<1>2. SenderTypeOK /\ [SenderNext]_senderVars => SenderTypeOK'
  <2>. SUFFICES ASSUME SenderTypeOK, [SenderNext]_senderVars PROVE SenderTypeOK'
    OBVIOUS
  <2>. USE QueueAssumption DEF SenderTypeOK
  <2>0. Len(Queue) \in Nat
    OBVIOUS
  <2>. USE DEF Goto, End, SendFailed
  <2>1. ASSUME NextFile PROVE SenderTypeOK'
    BY <2>0, <2>1 DEF NextFile, Current
  <2>2. ASSUME OpenFile PROVE SenderTypeOK'
    <3>1. Size[Current] \in Nat
      BY <2>0, <2>2, CurrentSize DEF OpenFile
    <3>. QED BY <2>0, <2>2, <3>1 DEF OpenFile, Current
  <2>3. ASSUME LoopHead PROVE SenderTypeOK'
    <3>1. Size[Current] \in Nat
      BY <2>0, <2>3, CurrentSize DEF LoopHead
    <3>. QED BY <2>0, <2>3, <3>1 DEF LoopHead, Sleep, Current
  <2>4. ASSUME CreateNotified PROVE SenderTypeOK'
    BY <2>0, <2>4 DEF CreateNotified, Current
  <2>5. ASSUME PauseEnds PROVE SenderTypeOK'
    BY <2>0, <2>5 DEF PauseEnds, Current
  <2>6. ASSUME Recheck PROVE SenderTypeOK'
    BY <2>0, <2>6 DEF Recheck, Sleep, Current
  <2>7. ASSUME SendChunk PROVE SenderTypeOK'
    BY <2>0, <2>7 DEF SendChunk, Current
  <2>8. ASSUME FileSent PROVE SenderTypeOK'
    BY <2>0, <2>8 DEF FileSent, Current
  <2>9. ASSUME SourceError PROVE SenderTypeOK'
    BY <2>0, <2>9 DEF SourceError, Current
  <2>10. ASSUME NEW a \in Answers, NEW n \in Lengths, StatusAnswered(a, n)
         PROVE  SenderTypeOK'
    <3>1. n \in Nat
      BY <2>0, <2>10, CurrentSize DEF Lengths, StatusAnswered
    <3>. QED BY <2>0, <2>10, <3>1 DEF StatusAnswered, Current
  <2>11. ASSUME NEW a \in Answers, ChunkAnswered(a) PROVE SenderTypeOK'
    <3>1. offset + ChunkLen \in Nat
      BY <2>0, <2>11, ChunkAdvances DEF ChunkAnswered
    <3>. QED BY <2>0, <2>11, <3>1 DEF ChunkAnswered, Current
  <2>12. ASSUME NEW a \in Answers, FinishAnswered(a) PROVE SenderTypeOK'
    <3>1. idx' \in 1 .. Len(Queue) + 1
      BY <2>0, <2>12 DEF FinishAnswered
    <3>2. at' \in {"next", "done"}
      BY <2>12 DEF FinishAnswered
    <3>. QED BY <2>12, <3>1, <3>2 DEF FinishAnswered
  <2>13. ASSUME TellAnswered PROVE SenderTypeOK'
    BY <2>0, <2>13 DEF TellAnswered
  <2>14. ASSUME Command PROVE SenderTypeOK'
    <3>1. UNCHANGED <<at, idx, offset, outcome, waiter>> /\ told' \in {told, "sent"}
      BY <2>14 DEF Command, Pause, Resume, Cancel, SetSpeedLimit, taskVars
    <3>2. isPaused' \in BOOLEAN /\ isCancelled' \in BOOLEAN /\ registered' \in BOOLEAN
      BY <2>14 DEF Command, Pause, Resume, Cancel, SetSpeedLimit
    <3>3. late' \in Nat
      BY <2>14 DEF Command, Pause, Resume, Cancel, SetSpeedLimit
    <3>4. wakes' \subseteq {"pause", "resume", "cancel", "limit"}
      BY <2>14 DEF Command, Pause, Resume, Cancel, SetSpeedLimit
    <3>. QED BY <3>1, <3>2, <3>3, <3>4 DEF Current
  <2>15. ASSUME NEW w \in {"pause", "resume", "cancel", "limit"}, NotifyWaiters(w)
         PROVE  SenderTypeOK'
    BY <2>0, <2>15 DEF NotifyWaiters, taskVars, Current
  <2>16. ASSUME CommandAnswered PROVE SenderTypeOK'
    BY <2>0, <2>16 DEF CommandAnswered, taskVars, Current
  <2>17. CASE UNCHANGED senderVars
    BY <2>0, <2>17 DEF senderVars, controlVars, taskVars, Current
  <2>. QED
    BY <2>1, <2>2, <2>3, <2>4, <2>5, <2>6, <2>7, <2>8, <2>9, <2>10, <2>11, <2>12,
       <2>13, <2>14, <2>15, <2>16, <2>17
       DEF SenderNext, Local, Answered, Notified
<1>. QED BY <1>1, <1>2, PTL DEF SenderSpec

(* In the chunk loop the offset has not passed the size.                   *)
OffsetInv == FinishesWhole /\ (at = "loop" => offset <= Size[Current])

(* A file is finished only when every byte of it has been acknowledged or  *)
(* was reported by the receiver when the upload began.                     *)
THEOREM FinishesOnlyWhole == SenderSpec => []FinishesWhole
<1>1. SenderInit => OffsetInv
  BY DEF SenderInit, OffsetInv, FinishesWhole
<1>2. SenderTypeOK /\ OffsetInv /\ [SenderNext]_senderVars => OffsetInv'
  <2>. SUFFICES ASSUME SenderTypeOK, OffsetInv, [SenderNext]_senderVars
                PROVE  OffsetInv'
    OBVIOUS
  <2>1. Len(Queue) \in Nat /\ offset \in Nat
    BY QueueAssumption DEF SenderTypeOK
  <2>2. at \in {"open", "loop", "chunk"} => idx \in 1 .. Len(Queue) /\ Size[Current] \in Nat
    BY <2>1, CurrentSize DEF SenderTypeOK
  <2>. USE DEF OffsetInv, FinishesWhole, Goto, End, SendFailed, Current
  <2>3. ASSUME OpenFile \/ LoopHead PROVE OffsetInv'
    BY <2>1, <2>2, <2>3 DEF OpenFile, LoopHead, Sleep
  <2>4. ASSUME NextFile \/ FileSent \/ CreateNotified \/ PauseEnds \/ Recheck
                 \/ SendChunk \/ SourceError
        PROVE  OffsetInv'
    BY <2>4 DEF NextFile, FileSent, CreateNotified, PauseEnds, Recheck, Sleep,
                SendChunk, SourceError
  <2>5. ASSUME NEW a \in Answers, ChunkAnswered(a) PROVE OffsetInv'
    <3>1. offset + ChunkLen <= Size[Current]
      BY <2>1, <2>2, <2>5, ChunkAdvances DEF ChunkAnswered, SenderTypeOK
    <3>. QED BY <2>5, <3>1 DEF ChunkAnswered
  <2>6. ASSUME NEW a \in Answers,
               FinishAnswered(a) \/ \E n \in Lengths : StatusAnswered(a, n)
        PROVE  OffsetInv'
    BY <2>6 DEF StatusAnswered, FinishAnswered
  <2>7. ASSUME TellAnswered PROVE OffsetInv'
    BY <2>7 DEF TellAnswered
  <2>8. ASSUME Command \/ Notified \/ CommandAnswered \/ UNCHANGED senderVars
        PROVE  OffsetInv'
    <3>1. UNCHANGED <<at, idx, offset>>
      BY <2>8 DEF Command, Pause, Resume, Cancel, SetSpeedLimit, Notified,
                  NotifyWaiters, CommandAnswered, senderVars, taskVars
    <3>. QED BY <3>1
  <2>. QED BY <2>3, <2>4, <2>5, <2>6, <2>7, <2>8 DEF SenderNext, Local, Answered
<1>3. OffsetInv => FinishesWhole
  BY DEF OffsetInv
<1>. QED BY <1>1, <1>2, <1>3, SenderTypeCorrect, PTL DEF SenderSpec

(* A pause or a cancel takes effect at once but for the one chunk whose    *)
(* check had been passed: no second chunk is begun, on however many        *)
(* threads the commands and the task run.                                  *)
THEOREM StopsAfterOneChunk == SenderSpec => []OneChunkAfterStop
<1>1. SenderInit => StopInv
  BY DEF SenderInit, StopInv
<1>2. StopInv /\ [SenderNext]_senderVars => StopInv'
  <2>. SUFFICES ASSUME StopInv, [SenderNext]_senderVars PROVE StopInv'
    OBVIOUS
  <2>. USE DEF StopInv, Goto, End, SendFailed
  <2>1. ASSUME Local \/ SourceError PROVE StopInv'
    <3>1. ASSUME NextFile \/ OpenFile \/ FileSent \/ CreateNotified \/ SourceError
          PROVE  StopInv'
      BY <3>1 DEF NextFile, OpenFile, FileSent, CreateNotified, SourceError
    <3>2. ASSUME LoopHead \/ PauseEnds \/ Recheck PROVE StopInv'
      BY <3>2 DEF LoopHead, PauseEnds, Recheck, Sleep
    <3>3. ASSUME SendChunk PROVE StopInv'
      BY <3>3 DEF SendChunk
    <3>. QED BY <2>1, <3>1, <3>2, <3>3 DEF Local
  <2>2. ASSUME Answered PROVE StopInv'
    BY <2>2 DEF Answered, StatusAnswered, ChunkAnswered, FinishAnswered, TellAnswered
  <2>3. ASSUME Command PROVE StopInv'
    BY <2>3 DEF Command, Pause, Resume, Cancel, SetSpeedLimit, taskVars
  <2>4. ASSUME Notified \/ CommandAnswered \/ UNCHANGED senderVars PROVE StopInv'
    BY <2>4 DEF Notified, NotifyWaiters, CommandAnswered, senderVars, controlVars, taskVars
  <2>. QED BY <2>1, <2>2, <2>3, <2>4 DEF SenderNext
<1>3. StopInv => OneChunkAfterStop
  BY DEF StopInv, OneChunkAfterStop
<1>. QED BY <1>1, <1>2, <1>3, PTL DEF SenderSpec
=============================================================================
