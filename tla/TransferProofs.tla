--------------------------- MODULE TransferProofs ---------------------------
(***************************************************************************)
(* Proofs about Transfer, for every batch of files, every number of        *)
(* attempts and of lost connections, and every set of inodes, folders,     *)
(* faults and users, as far as a theorem does not exclude some of them.    *)
(***************************************************************************)
EXTENDS Transfer, ReceiverProofs

(* The entry that is being sent and its size.                              *)
LEMMA CurrentTyped ==
  ASSUME idx \in 1 .. Len(Queue)
  PROVE  S!Current \in File /\ Size[S!Current] \in Nat
  BY BatchAssumption, SizeAssumption DEF S!Current

(* A chunk moves the offset towards the size and not past it.              *)
LEMMA ChunkForward ==
  ASSUME idx \in 1 .. Len(Queue), offset \in Nat, offset < Size[S!Current]
  PROVE  /\ S!ChunkLen \in 1 .. (Size[S!Current] - offset)
         /\ offset \in 0 .. Size[S!Current]
         /\ offset + S!ChunkLen \in Nat
         /\ offset + S!ChunkLen <= Size[S!Current]
  BY CurrentTyped, PaceAssumption DEF S!ChunkLen

-----------------------------------------------------------------------------
(* Types.                                                                  *)

LEMMA TaskTyped ==
  ASSUME S!SenderTypeOK,
         \/ S!Local \/ S!SourceError \/ S!Pause \/ S!Resume \/ S!Cancel
         \/ S!Notified \/ S!TellAnswered \/ S!CommandAnswered
  PROVE  S!SenderTypeOK'
<1>0. Len(Queue) \in Nat
  BY BatchAssumption
<1>. USE DEF S!SenderTypeOK, S!Goto, S!End, S!SendFailed
<1>1. ASSUME S!NextFile PROVE S!SenderTypeOK'
  BY <1>0, <1>1 DEF S!NextFile, S!Current
<1>2. ASSUME S!OpenFile PROVE S!SenderTypeOK'
  <2>1. Size[S!Current] \in Nat
    BY <1>0, <1>2, CurrentTyped DEF S!OpenFile
  <2>. QED BY <1>0, <1>2, <2>1 DEF S!OpenFile, S!Current
<1>3. ASSUME S!LoopHead PROVE S!SenderTypeOK'
  <2>1. Size[S!Current] \in Nat
    BY <1>0, <1>3, CurrentTyped DEF S!LoopHead
  <2>. QED BY <1>0, <1>3, <2>1 DEF S!LoopHead, S!Sleep, S!Current
<1>4. ASSUME S!CreateNotified PROVE S!SenderTypeOK'
  BY <1>0, <1>4 DEF S!CreateNotified, S!Current
<1>5. ASSUME S!PauseEnds PROVE S!SenderTypeOK'
  BY <1>0, <1>5 DEF S!PauseEnds, S!Current
<1>6. ASSUME S!Recheck PROVE S!SenderTypeOK'
  BY <1>0, <1>6 DEF S!Recheck, S!Sleep, S!Current
<1>7. ASSUME S!SendChunk PROVE S!SenderTypeOK'
  BY <1>0, <1>7 DEF S!SendChunk, S!Current
<1>8. ASSUME S!FileSent PROVE S!SenderTypeOK'
  BY <1>0, <1>8 DEF S!FileSent, S!Current
<1>9. ASSUME S!SourceError PROVE S!SenderTypeOK'
  BY <1>0, <1>9 DEF S!SourceError, S!Current
<1>10. ASSUME S!TellAnswered PROVE S!SenderTypeOK'
  BY <1>0, <1>10 DEF S!TellAnswered
<1>11. ASSUME S!Pause \/ S!Resume \/ S!Cancel PROVE S!SenderTypeOK'
  <2>1. UNCHANGED <<at, idx, offset, outcome, waiter>> /\ told' \in {told, "sent"}
    BY <1>11 DEF S!Pause, S!Resume, S!Cancel, S!taskVars
  <2>2. isPaused' \in BOOLEAN /\ isCancelled' \in BOOLEAN /\ registered' \in BOOLEAN
    BY <1>11 DEF S!Pause, S!Resume, S!Cancel
  <2>3. late' \in Nat
    BY <1>11 DEF S!Pause, S!Resume, S!Cancel
  <2>4. wakes' \subseteq {"pause", "resume", "cancel", "limit"}
    BY <1>11 DEF S!Pause, S!Resume, S!Cancel
  <2>. QED BY <2>1, <2>2, <2>3, <2>4 DEF S!Current
<1>12. ASSUME NEW w \in {"pause", "resume", "cancel", "limit"}, S!NotifyWaiters(w)
       PROVE  S!SenderTypeOK'
  BY <1>0, <1>12 DEF S!NotifyWaiters, S!taskVars, S!Current
<1>13. ASSUME S!CommandAnswered PROVE S!SenderTypeOK'
  BY <1>0, <1>13 DEF S!CommandAnswered, S!taskVars, S!Current
<1>. QED
  BY <1>1, <1>2, <1>3, <1>4, <1>5, <1>6, <1>7, <1>8, <1>9, <1>10, <1>11, <1>12, <1>13
     DEF S!Local, S!Notified

LEMMA AnswerTyped ==
  ASSUME S!SenderTypeOK, NEW a, NEW n \in Nat,
         S!StatusAnswered(a, n) \/ S!ChunkAnswered(a) \/ S!FinishAnswered(a)
  PROVE  S!SenderTypeOK'
<1>0. Len(Queue) \in Nat
  BY BatchAssumption
<1>. USE DEF S!SenderTypeOK, S!Goto, S!End, S!SendFailed
<1>1. ASSUME S!StatusAnswered(a, n) PROVE S!SenderTypeOK'
  BY <1>0, <1>1 DEF S!StatusAnswered, S!Current
<1>2. ASSUME S!ChunkAnswered(a) PROVE S!SenderTypeOK'
  <2>1. offset + S!ChunkLen \in Nat
    BY <1>0, <1>2, ChunkForward DEF S!ChunkAnswered
  <2>. QED BY <1>0, <1>2, <2>1 DEF S!ChunkAnswered, S!Current
<1>3. ASSUME S!FinishAnswered(a) PROVE S!SenderTypeOK'
  <2>1. idx' \in 1 .. Len(Queue) + 1
    BY <1>0, <1>3 DEF S!FinishAnswered
  <2>2. at' \in {"next", "done"}
    BY <1>3 DEF S!FinishAnswered
  <2>. QED BY <1>3, <2>1, <2>2 DEF S!FinishAnswered
<1>. QED BY <1>1, <1>2, <1>3

(* The link's own variables: a request is out only while the task waits    *)
(* for it, and the task is done when its outcome is recorded.              *)
LinkOK == /\ LinkTypeOK
          /\ handed => attempt > 0
          /\ at = "done" <=> outcome # "none"
          /\ attempt = 0 => outcome = "none"

(* Transfer's inductive type invariant.                                    *)
TransferTypes == TypeOK /\ S!SenderTypeOK /\ LinkOK

(* The session of the attempt that runs.                                   *)
LEMMA TokenTyped ==
  ASSUME attempt \in 0 .. Len(Attempts), attempt > 0
  PROVE  Token \in Session
  BY AttemptsAssumption DEF Token

(* A request of the task is one that Receiver has a step for.              *)
LEMMA ArriveIsReceiver == ASSUME TransferTypes, Arrive PROVE Next
<1>1. attempt > 0 /\ attempt \in 0 .. Len(Attempts)
  BY DEF Arrive, TransferTypes, LinkOK, LinkTypeOK
<1>2. Token \in Session
  BY <1>1, TokenTyped
<1>3. at \in {"chunk", "finish"} => idx \in 1 .. Len(Queue)
  BY BatchAssumption DEF TransferTypes, S!SenderTypeOK
<1>4. CASE at = "chunk" /\ ChunkCheck(Token, S!Current, offset, S!ChunkLen)
  <2>1. /\ S!Current \in File /\ offset \in 0 .. Size[S!Current]
        /\ S!ChunkLen \in 1 .. (Size[S!Current] - offset)
    BY <1>3, <1>4, CurrentTyped, ChunkForward DEF TransferTypes, S!SenderTypeOK
  <2>2. Chunk(Token)
    BY <1>4, <2>1 DEF Chunk
  <2>. QED BY <1>2, <2>2 DEF Next
<1>5. CASE at = "finish" /\ FinishCheck(Token, S!Current)
  <2>1. Finish(Token)
    BY <1>3, <1>5, CurrentTyped DEF Finish
  <2>. QED BY <1>2, <2>1 DEF Next
<1>6. CASE Refuse(Token)
  BY <1>2, <1>6 DEF Next
<1>. QED BY <1>4, <1>5, <1>6 DEF Arrive

(* Every step is a step of Receiver or leaves the receiver alone.          *)
LEMMA StepIsReceiver ==
  ASSUME TransferTypes, [TransferNext]_transferVars
  PROVE  [Next]_vars
<1>1. CASE Begin
  <2>1. attempt + 1 \in DOMAIN Attempts
    BY <1>1, AttemptsAssumption DEF Begin, TransferTypes, LinkOK, LinkTypeOK
  <2>2. Attempts[attempt + 1] \in Session
    BY <2>1, AttemptsAssumption
  <2>3. CreateSession(Attempts[attempt + 1])
    BY <1>1 DEF Begin
  <2>. QED BY <2>2, <2>3 DEF Next
<1>2. CASE Arrive
  BY <1>2, ArriveIsReceiver
<1>3. ASSUME NEW s \in Session, CancelArrives(s) PROVE Next
  BY <1>3 DEF CancelArrives, Next, Cancel
<1>4. CASE Handlers
  <2>1. PICK s \in Session : Handler(s)
    BY <1>4 DEF Handlers
  <2>2. Chunk(s) \/ Finish(s) \/ Cancel(s)
    BY <2>1 DEF Handler, Chunk, Finish, Cancel
  <2>. QED BY <2>2 DEF Next
<1>5. CASE Trouble
  BY <1>5 DEF Trouble, Next
<1>6. CASE Task \/ SenderUser \/ Status \/ Answer \/ Lose \/ CancelAnswered
  BY <1>6 DEF Task, SenderUser, Status, Answer, Lose, CancelAnswered
<1>7. CASE UNCHANGED transferVars
  BY <1>7 DEF transferVars
<1>. QED BY <1>1, <1>2, <1>3, <1>4, <1>5, <1>6, <1>7 DEF TransferNext

(* The receiver's variables keep their types in a step of Receiver.        *)
LEMMA TypeStep == ASSUME TypeOK, [Next]_vars PROVE TypeOK'
  BY SlotsStep, TablesStep, FilesStep, TypeParts
     DEF TypeOK, SlotsOK, TablesOK, FilesOK, StatusType

LEMMA InitTransferTypes == ASSUME TransferInit PROVE TransferTypes
<1>1. Len(Queue) \in Nat /\ Len(Attempts) \in Nat
  BY BatchAssumption, AttemptsAssumption
<1>2. TypeOK
  BY InitTypeOK DEF TransferInit
<1>3. idx \in 1 .. Len(Queue) + 1 /\ at = "next"
  BY <1>1 DEF TransferInit, S!SenderInit
<1>4. isPaused \in BOOLEAN /\ isCancelled \in BOOLEAN /\ registered \in BOOLEAN
  BY DEF TransferInit, S!SenderInit
<1>5. S!SenderTypeOK
  BY <1>3, <1>4 DEF TransferInit, S!SenderInit, S!SenderTypeOK
<1>6. handed = FALSE /\ attempt = 0 /\ losses = 0 /\ outcome = "none"
  BY DEF TransferInit, S!SenderInit
<1>7. attempt \in 0 .. Len(Attempts) /\ losses \in 0 .. MaxLosses
  BY <1>1, <1>6, LossAssumption
<1>8. LinkTypeOK
  BY <1>6, <1>7 DEF LinkTypeOK
<1>. QED BY <1>2, <1>3, <1>5, <1>6, <1>8 DEF TransferTypes, LinkOK

LEMMA LinkStep ==
  ASSUME TransferTypes, [TransferNext]_transferVars
  PROVE  S!SenderTypeOK' /\ LinkOK'
<1>0. Len(Queue) \in Nat /\ Len(Attempts) \in Nat /\ attempt \in Nat
  BY BatchAssumption, AttemptsAssumption DEF TransferTypes, LinkOK, LinkTypeOK
<1>1. CASE Begin
  <2>1. S!SenderTypeOK'
    <3>1. idx' \in 1 .. Len(Queue) + 1 /\ at' = "next" /\ offset' \in Nat /\ late' \in Nat
      BY <1>0, <1>1 DEF Begin
    <3>2. isPaused' \in BOOLEAN /\ isCancelled' \in BOOLEAN /\ registered' \in BOOLEAN
      BY <1>1 DEF Begin
    <3>. QED BY <1>1, <3>1, <3>2 DEF Begin, S!SenderTypeOK
  <2>2. handed' = FALSE
    BY <1>1 DEF Begin, TransferTypes, LinkOK, LinkTypeOK
  <2>3. attempt' \in 0 .. Len(Attempts) /\ attempt' > 0
    BY <1>0, <1>1 DEF Begin
  <2>. QED
    BY <1>1, <2>1, <2>2, <2>3 DEF Begin, TransferTypes, LinkOK, LinkTypeOK
<1>2. CASE Task \/ SenderUser \/ CancelAnswered
             \/ (S!SourceError /\ attempt > 0 /\ UNCHANGED linkVars)
  <2>1. S!SenderTypeOK'
    BY <1>2, TaskTyped DEF Task, SenderUser, CancelAnswered, TransferTypes
  <2>2. attempt > 0 /\ UNCHANGED linkVars
    BY <1>2 DEF Task, SenderUser, CancelAnswered
  <2>3. /\ at \in {"chunk", "finish"} => at' = at
        /\ at = "done" <=> outcome # "none"
    BY <1>2, <2>2 DEF Task, SenderUser, CancelAnswered, S!Local, S!NextFile, S!OpenFile,
       S!LoopHead, S!CreateNotified, S!PauseEnds, S!Recheck, S!SendChunk, S!FileSent,
       S!SourceError, S!Pause, S!Resume, S!Cancel, S!Notified, S!NotifyWaiters,
       S!CommandAnswered, S!TellAnswered, S!taskVars, TransferTypes, LinkOK
  <2>4. at' = "done" <=> outcome' # "none"
    BY <1>2, <2>3 DEF Task, SenderUser, CancelAnswered, S!Local, S!NextFile, S!OpenFile,
       S!LoopHead, S!CreateNotified, S!PauseEnds, S!Recheck, S!SendChunk, S!FileSent,
       S!SourceError, S!Pause, S!Resume, S!Cancel, S!Notified, S!NotifyWaiters,
       S!CommandAnswered, S!TellAnswered, S!taskVars, S!Goto, S!End, S!SendFailed, S!Sleep
  <2>. QED BY <2>1, <2>2, <2>3, <2>4 DEF linkVars, TransferTypes, LinkOK, LinkTypeOK
<1>3. CASE Status \/ Answer \/ Lose
  <2>1. S!SenderTypeOK'
    <3>1. attempt > 0 => PartLen(PathOf(S!Current)) \in Nat \/ at # "status"
      <4>1. at = "status" => S!Current \in File
        BY <1>0, CurrentTyped DEF TransferTypes, S!SenderTypeOK
      <4>2. at = "status" => PathOf(S!Current) \in Path
        BY <4>1, PathOfType DEF TransferTypes, TypeOK
      <4>. QED BY <4>2 DEF PartLen, TransferTypes, TypeOK, Contents
    <3>2. 0 \in Nat
      OBVIOUS
    <3>3. CASE Status
      <4>1. S!StatusAnswered("ok", PartLen(PathOf(S!Current)))
              \/ S!StatusAnswered("cancelled", 0) \/ S!StatusAnswered("error", 0)
        BY <3>3 DEF Status
      <4>2. attempt > 0 /\ at = "status"
        BY <3>3 DEF Status
      <4>. QED BY <3>1, <3>2, <4>1, <4>2, AnswerTyped DEF TransferTypes
    <3>4. CASE Answer
      <4>1. S!ChunkAnswered(pc[Token]) \/ S!FinishAnswered(pc[Token])
        BY <3>4 DEF Answer
      <4>. QED BY <3>2, <4>1, AnswerTyped DEF TransferTypes
    <3>5. CASE Lose
      <4>1. S!StatusAnswered("error", 0) \/ S!ChunkAnswered("error")
              \/ S!FinishAnswered("error") \/ S!TellAnswered
        BY <3>5 DEF Lose
      <4>. QED BY <3>2, <4>1, AnswerTyped, TaskTyped DEF TransferTypes
    <3>. QED BY <1>3, <3>3, <3>4, <3>5
  <2>2. attempt' = attempt /\ losses' \in 0 .. MaxLosses
    BY <1>3, LossAssumption DEF Status, Answer, Lose, linkVars, TransferTypes, LinkOK, LinkTypeOK
  <2>5. handed' = FALSE
    <3>1. CASE Status
      BY <3>1 DEF Status, linkVars, TransferTypes, LinkOK, LinkTypeOK
    <3>. QED BY <1>3, <3>1 DEF Answer, Lose
  <2>3. at' = "done" <=> outcome' # "none"
    BY <1>3 DEF Status, Answer, Lose, S!StatusAnswered, S!ChunkAnswered, S!FinishAnswered,
       S!TellAnswered, S!Goto, S!End, S!SendFailed, TransferTypes, LinkOK
  <2>4. attempt > 0
    BY <1>3 DEF Status, Answer, Lose, TransferTypes, LinkOK
  <2>6. attempt' \in 0 .. Len(Attempts)
    BY <2>2 DEF TransferTypes, LinkOK, LinkTypeOK
  <2>7. LinkTypeOK'
    BY <2>2, <2>5, <2>6 DEF LinkTypeOK
  <2>8. attempt' # 0
    BY <1>0, <2>2, <2>4
  <2>. QED BY <2>1, <2>3, <2>5, <2>7, <2>8 DEF LinkOK
<1>4. CASE Arrive
  <2>1. UNCHANGED senderVars /\ attempt > 0 /\ at \in {"chunk", "finish"}
    BY <1>4 DEF Arrive
  <2>2. UNCHANGED <<attempt, losses>> /\ handed' \in BOOLEAN
    BY <1>4 DEF Arrive
  <2>3. S!SenderTypeOK'
    BY <1>0, <2>1 DEF senderVars, S!SenderTypeOK, S!Current, TransferTypes
  <2>4. at' = at /\ outcome' = outcome
    BY <2>1 DEF senderVars
  <2>. QED BY <2>1, <2>2, <2>3, <2>4 DEF TransferTypes, LinkOK, LinkTypeOK
<1>5. ASSUME UNCHANGED <<senderVars, linkVars>> PROVE S!SenderTypeOK' /\ LinkOK'
  BY <1>0, <1>5 DEF senderVars, linkVars, S!SenderTypeOK, S!Current, TransferTypes, LinkOK, LinkTypeOK
<1>6. CASE (\E s \in Session : CancelArrives(s)) \/ Handlers
  BY <1>5, <1>6 DEF CancelArrives, Handlers
<1>7. CASE Trouble
  BY <1>2, <1>5, <1>7 DEF Trouble
<1>8. CASE UNCHANGED transferVars
  BY <1>5, <1>8 DEF transferVars
<1>. QED BY <1>1, <1>2, <1>3, <1>4, <1>6, <1>7, <1>8 DEF TransferNext

(* Type correctness of the whole system: the receiver's variables, the     *)
(* task's and the link's have their types in every reachable state.        *)
THEOREM TransferTypeCorrect == TransferSpec => []TransferTypes
<1>1. TransferInit => TransferTypes
  BY InitTransferTypes
<1>2. TransferTypes /\ [TransferNext]_transferVars => TransferTypes'
  BY LinkStep, StepIsReceiver, TypeStep DEF TransferTypes
<1>. QED BY <1>1, <1>2, PTL DEF TransferSpec

(* A request is out only while the task waits for its answer, whatever is  *)
(* lost and whenever the user tries again.                                 *)
THEOREM LinkTypeCorrect == TransferSpec => []LinkTypeOK
<1>1. TransferTypes => LinkTypeOK
  BY DEF TransferTypes, LinkOK
<1>. QED BY <1>1, TransferTypeCorrect, PTL

(* The two applications together do nothing to the receiver that Receiver  *)
(* does not allow, so that every theorem about Receiver holds of Transfer. *)
THEOREM TransferIsReceiver == TransferSpec => Spec
<1>1. TransferInit => Init
  BY DEF TransferInit
<1>2. TransferTypes /\ [TransferNext]_transferVars => [Next]_vars
  BY StepIsReceiver
<1>. QED BY <1>1, <1>2, TransferTypeCorrect, PTL DEF TransferSpec, Spec

-----------------------------------------------------------------------------
(* The end of a cancelled transfer.                                        *)

(* The steps that the receiver takes without a request of the task.        *)
Background == \/ Handlers \/ Trouble \/ UNCHANGED transferVars
              \/ \E s \in Session : CancelArrives(s)

LEMMA BackgroundKeeps ==
  ASSUME Background
  PROVE  /\ UNCHANGED <<linkVars, told, isCancelled>>
         /\ at' = at \/ at \in {"open", "send"}
         /\ UNCHANGED <<senderVars, linkVars>> \/ UNCHANGED <<vars, linkVars>>
<1>1. CASE Trouble
  BY <1>1 DEF Trouble, senderVars, linkVars, S!SourceError
<1>. QED
  BY <1>1 DEF Background, Handlers, CancelArrives, transferVars, senderVars, linkVars

(* A free slot is taken only by a request of the task.                     *)
LEMMA BackgroundKeepsReady ==
  ASSUME TypeOK, Background, NEW s \in Session, Ready(s)
  PROVE  Ready(s)'
<1>1. ASSUME NEW t \in Session, SessionStep(t), t # s PROVE Ready(s)'
  BY <1>1, OthersUntouched DEF Untouched, Ready
<1>2. ASSUME UNCHANGED pc PROVE Ready(s)'
  BY <1>2 DEF Ready
<1>3. CASE Handlers
  <2>1. PICK t \in Session : Handler(t)
    BY <1>3 DEF Handlers
  <2>2. CASE t = s
    BY <1>2, <2>1, <2>2 DEF Handler, ChunkOpen, ChunkWrite, ChunkUpdate, FinishCreate,
       FinishSize, FinishVerify, CommitLink, CommitCreateCopy, CommitCopy, CommitUnlink,
       FinishRecord, CancelRemove, Ready
  <2>3. SessionStep(t)
    BY <2>1 DEF Handler, SessionStep, Chunk, Finish, Cancel
  <2>. QED BY <1>1, <2>2, <2>3
<1>4. CASE Trouble
  <2>1. ASSUME NEW t \in Session, Abort(t) PROVE Ready(s)'
    <3>1. t # s
      BY <2>1 DEF Abort, Ready
    <3>. QED BY <1>1, <2>1, <3>1 DEF SessionStep
  <2>2. CASE Crash
    BY <2>2 DEF Crash, Ready
  <2>3. UNCHANGED pc \/ Crash \/ \E t \in Session : Abort(t)
    BY <1>4 DEF Trouble, Prune, SetDownloadDir, vars
  <2>. QED BY <1>2, <2>1, <2>2, <2>3
<1>5. CASE UNCHANGED transferVars \/ \E t \in Session : CancelArrives(t)
  BY <1>2, <1>5 DEF transferVars, vars, CancelArrives, CancelMark
<1>. QED BY <1>3, <1>4, <1>5 DEF Background

(* As long as no answer was lost, a handler of the running attempt works   *)
(* only on the request the task waits for.                                 *)
CancelInv == /\ SessionsOK
             /\ attempt > 0 => status[Token] # "none"
             /\ attempt > 0 /\ losses = 0 => handed \/ Ready(Token)
             /\ CancelAgreed

LEMMA CancelInvStep ==
  ASSUME TransferTypes, CancelInv, [TransferNext]_transferVars
  PROVE  CancelInv'
<1>1. TypeOK /\ LinkOK /\ LinkTypeOK /\ [Next]_vars /\ attempt \in Nat /\ losses \in Nat
  BY StepIsReceiver, AttemptsAssumption, LossAssumption DEF TransferTypes, LinkOK, LinkTypeOK
<1>2. SessionsOK'
  BY <1>1, SessionsOKStep DEF CancelInv
<1>3. attempt > 0 => Token \in Session
  BY <1>1, TokenTyped DEF LinkTypeOK
<1>4. CASE Begin
  <2>1. attempt + 1 \in DOMAIN Attempts /\ attempt' = attempt + 1
    BY <1>1, <1>4, AttemptsAssumption DEF Begin, LinkTypeOK
  <2>2. Token' \in Session /\ Token' = Attempts[attempt + 1]
    BY <2>1, AttemptsAssumption DEF Token
  <2>3. CreateSession(Token') /\ outcome' = "none"
    BY <1>4, <2>2 DEF Begin
  <2>4. status'[Token'] = "Accepted" /\ pc'[Token'] = "idle"
    BY <1>1, <2>2, <2>3 DEF CreateSession, CancelInv, SessionsOK, TypeOK
  <2>. QED BY <1>2, <2>3, <2>4 DEF CancelInv, CancelAgreed, Ready
<1>. SUFFICES ASSUME ~Begin PROVE CancelInv'
  BY <1>4
<1>5. Token' = Token /\ attempt' = attempt
  BY BackgroundKeeps DEF Background, TransferNext, Task, SenderUser, Status, Arrive, Answer,
     Lose, CancelAnswered, linkVars, Token
<1>6. attempt > 0 => status'[Token] # "none"
  BY <1>1, <1>3, StatusMoves DEF CancelInv
<1>7. ASSUME attempt > 0, losses' = 0
      PROVE  handed' \/ Ready(Token)'
  <2>1. losses = 0
    BY <1>1, <1>7, BackgroundKeeps DEF Background, TransferNext, Task, SenderUser, Status,
       Arrive, Answer, Lose, CancelAnswered, linkVars
  <2>2. handed \/ Ready(Token)
    BY <1>7, <2>1 DEF CancelInv
  <2>3. CASE Background
    <3>1. handed' = handed
      BY <2>3, BackgroundKeeps DEF linkVars
    <3>2. Ready(Token) => pc'[Token] \in {"idle", "ok", "error", "cancelled"}
      BY <1>1, <1>3, <1>7, <2>3, BackgroundKeepsReady DEF Ready
    <3>. QED BY <1>5, <2>2, <3>1, <3>2 DEF Ready
  <2>4. ~Lose
    BY <1>1, <1>7, <2>1 DEF Lose
  <2>5. CASE Task \/ SenderUser \/ Status \/ Arrive \/ Answer \/ CancelAnswered
    <3>1. handed' \/ (handed' = handed /\ pc' = pc) \/ (pc' = pc /\ Ready(Token))
      BY <2>5 DEF Task, SenderUser, Status, Arrive, Answer, CancelAnswered, linkVars, vars
    <3>. QED BY <1>5, <2>2, <3>1 DEF Ready
  <2>. QED BY <2>3, <2>4, <2>5 DEF TransferNext, Background
<1>8. ASSUME outcome' = "Cancelled", losses' = 0
      PROVE  status'[Token] \in {"Cancelled", "gone"}
  <2>1. losses = 0 /\ ~Lose
    BY <1>1, <1>8, BackgroundKeeps DEF Background, TransferNext, Task, SenderUser, Status,
       Arrive, Answer, Lose, CancelAnswered, linkVars
  <2>2. CASE outcome = "Cancelled"
    <3>1. at = "done" /\ attempt > 0 /\ ~handed
      BY <1>1, <2>2 DEF LinkOK, LinkTypeOK
    <3>2. status[Token] \in {"Cancelled", "gone"} /\ Ready(Token)
      BY <2>1, <2>2, <3>1 DEF CancelInv, CancelAgreed
    <3>. QED BY <1>1, <1>3, <3>1, <3>2, StatusMoves DEF Ready, Accepting, Exists
  <2>3. CASE outcome # "Cancelled"
    <3>1. CASE Status
      BY <1>8, <2>3, <3>1 DEF Status, S!StatusAnswered, S!SendFailed, S!Goto, S!End, vars
    <3>2. CASE Answer
      <4>1. pc[Token] = "cancelled"
        BY <1>8, <2>3, <3>2 DEF Answer, S!ChunkAnswered, S!FinishAnswered, S!SendFailed,
           S!Goto, S!End
      <4>2. status' = status /\ attempt > 0
        BY <1>1, <3>2 DEF Answer, vars, LinkOK
      <4>. QED BY <1>3, <4>1, <4>2 DEF CancelInv, SessionsOK
    <3>3. CASE CancelAnswered
      <4>1. attempt > 0 /\ ~Accepting(Token) /\ status' = status
        BY <3>3 DEF CancelAnswered, vars
      <4>. QED BY <1>1, <1>3, <4>1 DEF CancelInv, Accepting, TypeOK
    <3>4. CASE Task
      BY <1>8, <2>3, <3>4 DEF Task, S!Local, S!NextFile, S!OpenFile, S!LoopHead,
         S!CreateNotified, S!PauseEnds, S!Recheck, S!SendChunk, S!FileSent, S!Goto, S!End,
         S!Sleep
    <3>5. CASE SenderUser \/ Arrive
      BY <1>8, <2>3, <3>5 DEF SenderUser, Arrive, S!Pause, S!Resume, S!Cancel, S!Notified,
         S!NotifyWaiters, S!taskVars, senderVars
    <3>6. CASE Background
      BY <1>8, <2>3, <3>6 DEF Background, Handlers, Trouble, CancelArrives, senderVars,
         transferVars, S!SourceError, S!SendFailed, S!Goto, S!End
    <3>. QED BY <2>1, <3>1, <3>2, <3>3, <3>4, <3>5, <3>6 DEF TransferNext, Background
  <2>. QED BY <2>2, <2>3
<1>. QED BY <1>2, <1>5, <1>6, <1>7, <1>8 DEF CancelInv, CancelAgreed

(* When the sender records a transfer as cancelled and no connection was   *)
(* lost, the receiver has cancelled its session too, or has dropped it,    *)
(* whoever cancels when, and however handlers end early and applications   *)
(* are restarted in between.                                               *)
THEOREM CancelIsAgreed == TransferSpec => []CancelAgreed
<1>1. TransferInit => CancelInv
  BY DEF TransferInit, Init, S!SenderInit, CancelInv, SessionsOK, CancelAgreed
<1>2. TransferTypes /\ CancelInv /\ [TransferNext]_transferVars => CancelInv'
  BY CancelInvStep
<1>3. CancelInv => CancelAgreed
  BY DEF CancelInv
<1>. QED BY <1>1, <1>2, <1>3, TransferTypeCorrect, PTL DEF TransferSpec

-----------------------------------------------------------------------------
(* The request the task waits for.                                         *)

(* While a request is out, the handler of the session works on that one    *)
(* or has answered it.                                                     *)
HandedOK ==
  handed => \/ Ready(Token)
            \/ /\ req[Token].file = S!Current
               /\ at = "chunk" => pc[Token] \in ChunkLabels
               /\ at = "finish" => pc[Token] \in FinishLabels

(* What the steps other than Begin leave to the rest of the argument.      *)
LEMMA SameAttempt ==
  ASSUME TransferTypes, [TransferNext]_transferVars, ~Begin
  PROVE  attempt' = attempt /\ Token' = Token
  BY BackgroundKeeps DEF Background, TransferNext, Task, SenderUser, Status, Arrive, Answer,
     Lose, CancelAnswered, linkVars, Token

(* A request that stays out leaves the task where it is.                   *)
LEMMA HandedStays ==
  ASSUME TransferTypes, [TransferNext]_transferVars, handed, handed'
  PROVE  /\ ~Begin /\ ~Arrive /\ ~Answer /\ ~Lose
         /\ UNCHANGED <<at, idx, offset, outcome>>
<1>1. at \in {"chunk", "finish"} /\ outcome = "none" /\ attempt > 0
  BY DEF TransferTypes, LinkOK, LinkTypeOK
<1>2. ~Begin /\ ~Arrive /\ ~Answer /\ ~Lose /\ ~Status
  BY <1>1, AttemptsAssumption DEF Begin, Arrive, Answer, Lose, Status, TransferTypes, LinkOK, LinkTypeOK
<1>3. ASSUME S!Local PROVE FALSE
  BY <1>1, <1>3 DEF S!Local, S!NextFile, S!OpenFile, S!LoopHead, S!CreateNotified,
     S!PauseEnds, S!Recheck, S!SendChunk, S!FileSent
<1>4. CASE SenderUser
  BY <1>2, <1>4 DEF SenderUser, S!Pause, S!Resume, S!Cancel, S!Notified, S!NotifyWaiters, S!taskVars
<1>5. CASE CancelAnswered
  BY <1>1, <1>2, <1>5 DEF CancelAnswered, S!TellAnswered, S!CommandAnswered, S!taskVars
<1>6. CASE Trouble
  BY <1>1, <1>2, <1>6 DEF Trouble, S!SourceError, senderVars
<1>7. CASE Handlers \/ (\E s \in Session : CancelArrives(s)) \/ UNCHANGED transferVars
  BY <1>2, <1>7 DEF Handlers, CancelArrives, transferVars, senderVars
<1>. QED BY <1>2, <1>3, <1>4, <1>5, <1>6, <1>7 DEF TransferNext, Task

LEMMA HandedStep ==
  ASSUME TransferTypes, HandedOK, [TransferNext]_transferVars
  PROVE  HandedOK'
<1>. SUFFICES ASSUME handed', ~Ready(Token)'
              PROVE  /\ req'[Token'].file = S!Current'
                     /\ at' = "chunk" => pc'[Token'] \in ChunkLabels
                     /\ at' = "finish" => pc'[Token'] \in FinishLabels
  BY DEF HandedOK
<1>1. TypeOK /\ [Next]_vars /\ attempt \in Nat
  BY StepIsReceiver, AttemptsAssumption DEF TransferTypes, LinkOK, LinkTypeOK
<1>2. CASE ~handed
  <2>1. CASE Arrive
    <3>1. attempt > 0 /\ Token' = Token /\ S!Current' = S!Current /\ at' = at
      BY <2>1 DEF Arrive, senderVars, Token, S!Current
    <3>2. Token \in Session
      BY <3>1, TokenTyped DEF TransferTypes, LinkOK, LinkTypeOK
    <3>3. CASE at = "chunk" /\ ChunkCheck(Token, S!Current, offset, S!ChunkLen)
      BY <1>1, <3>1, <3>2, <3>3 DEF ChunkCheck, ChunkLabels, Request, TypeOK
    <3>4. CASE at = "finish" /\ FinishCheck(Token, S!Current)
      BY <1>1, <3>1, <3>2, <3>4 DEF FinishCheck, FinishLabels, Request, TypeOK
    <3>5. ~Refuse(Token)
      BY <1>1, <3>1, <3>2 DEF Refuse, Reply, Ready, TypeOK
    <3>. QED BY <2>1, <3>3, <3>4, <3>5 DEF Arrive
  <2>2. CASE ~Arrive
    BY <1>2, <2>2, BackgroundKeeps DEF Background, TransferNext, Begin, Task, SenderUser,
       Status, Answer, Lose, CancelAnswered, linkVars
  <2>. QED BY <2>1, <2>2
<1>3. CASE handed
  <2>1. /\ ~Begin /\ UNCHANGED <<at, idx>> /\ Token' = Token
        /\ S!Current' = S!Current /\ attempt > 0
    BY <1>3, HandedStays, SameAttempt DEF S!Current, TransferTypes, LinkOK
  <2>2. Token \in Session
    BY <2>1, TokenTyped DEF TransferTypes, LinkOK, LinkTypeOK
  <2>3. Ready(Token) => Ready(Token)'
    <3>1. CASE Background
      <4>1. Ready(Token) => pc'[Token] \in {"idle", "ok", "error", "cancelled"}
        BY <1>1, <2>2, <3>1, BackgroundKeepsReady DEF Ready
      <4>. QED BY <2>1, <4>1 DEF Ready
    <3>2. CASE ~Background
      <4>1. pc' = pc
        BY <1>3, <3>2, HandedStays DEF Background, TransferNext, Task, SenderUser, Status,
           CancelAnswered, vars
      <4>. QED BY <2>1, <4>1 DEF Ready
    <3>. QED BY <3>1, <3>2
  <2>4. /\ ~Ready(Token)
        /\ pc'[Token] \notin {"idle", "ok", "error", "cancelled"}
    BY <2>1, <2>3 DEF Ready
  <2>5. /\ req'[Token].file = req[Token].file
        /\ pc[Token] \in ChunkLabels => pc'[Token] \in ChunkLabels
        /\ pc[Token] \in FinishLabels => pc'[Token] \in FinishLabels
    BY <1>1, <2>2, <2>4, InFlightMoves DEF Ready
  <2>. QED BY <1>3, <2>1, <2>4, <2>5 DEF HandedOK
<1>. QED BY <1>2, <1>3

LEMMA InitHandedOK == ASSUME TransferInit PROVE HandedOK
  BY DEF TransferInit, HandedOK

(* The request that is out is the one the handler works on.                *)
LEMMA HandedHolds == TransferSpec => [](TransferTypes /\ HandedOK)
<1>1. TransferTypes /\ HandedOK /\ [TransferNext]_transferVars => HandedOK'
  BY HandedStep
<1>2. TransferInit => HandedOK
  BY InitHandedOK
<1>. QED BY <1>1, <1>2, TransferTypeCorrect, PTL DEF TransferSpec

-----------------------------------------------------------------------------
(* The end of a transfer that nobody cancels.                              *)

NoCancels == "cancel" \notin Users /\ "refuse" \notin Users

Uncancelled == /\ isCancelled = FALSE /\ told = "no" /\ at # "tell" /\ "cancel" \notin wakes
               /\ \A s \in Session : status[s] # "Cancelled"

LEMMA UncancelledStep ==
  ASSUME NoCancels, TransferTypes, Uncancelled, [TransferNext]_transferVars
  PROVE  Uncancelled'
<1>1. ASSUME UNCHANGED vars PROVE \A s \in Session : status'[s] # "Cancelled"
  BY <1>1 DEF vars, Uncancelled
<1>2. ASSUME UNCHANGED senderVars
      PROVE  /\ isCancelled' = FALSE /\ told' = "no" /\ at' # "tell" /\ "cancel" \notin wakes'
  BY <1>2 DEF senderVars, Uncancelled
<1>3. CASE Begin
  BY <1>3 DEF Begin, CreateSession, TransferTypes, TypeOK, Uncancelled
<1>4. CASE Task
  BY <1>1, <1>4 DEF Task, S!Local, S!NextFile, S!OpenFile, S!LoopHead, S!CreateNotified,
     S!PauseEnds, S!Recheck, S!SendChunk, S!FileSent, S!Goto, S!End, S!Sleep, Uncancelled
<1>5. CASE SenderUser
  <2>1. /\ S!Pause \/ S!Resume \/ \E w \in {"pause", "resume", "cancel", "limit"} : S!NotifyWaiters(w)
        /\ UNCHANGED vars
    BY <1>5 DEF SenderUser, S!Notified, NoCancels
  <2>. QED
    BY <1>1, <2>1 DEF S!Pause, S!Resume, S!NotifyWaiters, S!taskVars, Uncancelled
<1>6. CASE Status \/ Answer \/ Lose
  <2>1. UNCHANGED <<vars, isCancelled, told, wakes>>
    BY <1>6 DEF Status, Answer, Lose, S!StatusAnswered, S!ChunkAnswered, S!FinishAnswered,
       S!TellAnswered
  <2>2. at' # "tell"
    BY <1>6 DEF Status, Answer, Lose, S!StatusAnswered, S!ChunkAnswered, S!FinishAnswered,
       S!TellAnswered, S!Goto, S!End, S!SendFailed, Uncancelled
  <2>. QED BY <1>1, <2>1, <2>2 DEF Uncancelled
<1>7. CASE Arrive
  BY <1>2, <1>7 DEF Arrive, ChunkCheck, FinishCheck, Refuse, sessionVars, Uncancelled
<1>8. ~CancelAnswered /\ \A s \in Session : ~CancelArrives(s)
  BY DEF CancelAnswered, CancelArrives, S!TellAnswered, S!CommandAnswered, Uncancelled, NoCancels
<1>9. CASE Handlers
  <2>1. PICK s \in Session : Handler(s)
    BY <1>9 DEF Handlers
  <2>2. \/ UNCHANGED status
        \/ status' = [status EXCEPT ![s] = "Completed"]
    BY <2>1 DEF Handler, ChunkOpen, ChunkWrite, ChunkUpdate, FinishCreate, FinishSize,
       FinishVerify, CommitLink, CommitCreateCopy, CommitCopy, CommitUnlink, FinishRecord,
       CancelRemove, sessionVars
  <2>. QED BY <1>2, <1>9, <2>2 DEF Handlers, Uncancelled, TransferTypes, TypeOK
<1>10. CASE Trouble
  <2>1. CASE "abort" \in Faults /\ attempt > 0 /\ S!SourceError /\ UNCHANGED <<vars, linkVars>>
    BY <1>1, <2>1 DEF S!SourceError, S!Goto, S!End, S!SendFailed, Uncancelled
  <2>2. CASE UNCHANGED <<senderVars, linkVars>>
    <3>1. \A s \in Session : status'[s] # "Cancelled"
      BY <1>1, <1>10 DEF Trouble, Abort, Prune, SetDownloadDir, Crash, sessionVars, Uncancelled,
         TransferTypes, TypeOK
    <3>. QED BY <1>2, <2>2, <3>1 DEF Uncancelled
  <2>. QED BY <1>10, <2>1, <2>2 DEF Trouble
<1>11. CASE UNCHANGED transferVars
  BY <1>1, <1>2, <1>11 DEF transferVars, Uncancelled
<1>. QED BY <1>3, <1>4, <1>5, <1>6, <1>7, <1>8, <1>9, <1>10, <1>11 DEF TransferNext

(* A task that is done does nothing until the next attempt begins.         *)
LEMMA DoneStays ==
  ASSUME TransferTypes, [TransferNext]_transferVars, ~Begin, at = "done"
  PROVE  UNCHANGED <<at, idx, outcome>>
<1>1. ~Task
  BY DEF Task, S!Local, S!NextFile, S!OpenFile, S!LoopHead, S!CreateNotified, S!PauseEnds,
     S!Recheck, S!SendChunk, S!FileSent
<1>2. ~Status /\ ~Arrive /\ ~Answer /\ ~Lose
  BY DEF Status, Arrive, Answer, Lose, S!StatusAnswered, S!ChunkAnswered, S!FinishAnswered,
     S!TellAnswered
<1>3. CASE SenderUser \/ CancelAnswered
  BY <1>3 DEF SenderUser, S!Pause, S!Resume, S!Cancel, S!Notified, S!NotifyWaiters,
     CancelAnswered, S!TellAnswered, S!CommandAnswered, S!taskVars
<1>4. CASE Trouble
  BY <1>4 DEF Trouble, S!SourceError, senderVars
<1>5. CASE Handlers \/ (\E s \in Session : CancelArrives(s)) \/ UNCHANGED transferVars
  BY <1>5 DEF Handlers, CancelArrives, transferVars, senderVars
<1>. QED BY <1>1, <1>2, <1>3, <1>4, <1>5 DEF TransferNext

(* A task that gives up has nothing left to do but to tell the receiver.   *)
LEMMA TellStays ==
  ASSUME [TransferNext]_transferVars, ~Begin, at \in {"tell", "done"}
  PROVE  at' \in {"tell", "done"}
<1>1. ~Task /\ ~Status /\ ~Arrive
  BY DEF Task, S!Local, S!NextFile, S!OpenFile, S!LoopHead, S!CreateNotified, S!PauseEnds,
     S!Recheck, S!SendChunk, S!FileSent, Status, Arrive
<1>2. CASE Answer \/ Lose \/ CancelAnswered
  BY <1>2 DEF Answer, Lose, CancelAnswered, S!StatusAnswered, S!ChunkAnswered,
     S!FinishAnswered, S!TellAnswered, S!CommandAnswered, S!End, S!taskVars
<1>3. CASE SenderUser
  BY <1>3 DEF SenderUser, S!Pause, S!Resume, S!Cancel, S!Notified, S!NotifyWaiters, S!taskVars
<1>4. CASE Trouble
  BY <1>4 DEF Trouble, S!SourceError, senderVars
<1>5. CASE Handlers \/ (\E s \in Session : CancelArrives(s)) \/ UNCHANGED transferVars
  BY <1>5 DEF Handlers, CancelArrives, transferVars, senderVars
<1>. QED BY <1>1, <1>2, <1>3, <1>4, <1>5 DEF TransferNext

(* Unless it gives up, the task leaves no handler behind.                  *)
LoneInv == attempt > 0 /\ at \notin {"tell", "done"} /\ ~handed => Ready(Token)

LEMMA LoneStep ==
  ASSUME TransferTypes, SessionsOK, LoneInv, [TransferNext]_transferVars
  PROVE  LoneInv'
<1>. SUFFICES ASSUME attempt' > 0, at' \notin {"tell", "done"}, ~handed' PROVE Ready(Token)'
  BY DEF LoneInv
<1>1. TypeOK /\ [Next]_vars /\ attempt \in Nat /\ LinkTypeOK
  BY StepIsReceiver, AttemptsAssumption DEF TransferTypes, LinkOK, LinkTypeOK
<1>2. CASE Begin
  <2>1. attempt + 1 \in DOMAIN Attempts /\ attempt' = attempt + 1
    BY <1>1, <1>2, AttemptsAssumption DEF Begin, LinkTypeOK
  <2>2. Token' \in Session /\ CreateSession(Token')
    BY <1>2, <2>1, AttemptsAssumption DEF Begin, Token
  <2>. QED BY <2>2 DEF CreateSession, SessionsOK, Ready
<1>. SUFFICES ASSUME ~Begin PROVE Ready(Token)'
  BY <1>2
<1>3. attempt > 0 /\ at \notin {"tell", "done"} /\ Token' = Token /\ Token \in Session
  BY <1>1, TellStays, SameAttempt, TokenTyped DEF LinkTypeOK
<1>4. CASE Background
  <2>1. Ready(Token)
    BY <1>3, <1>4, BackgroundKeeps DEF LoneInv, linkVars
  <2>2. pc'[Token] \in {"idle", "ok", "error", "cancelled"}
    BY <1>1, <1>3, <1>4, <2>1, BackgroundKeepsReady DEF Ready
  <2>. QED BY <1>3, <2>2 DEF Ready
<1>5. CASE Task \/ SenderUser \/ Status \/ CancelAnswered \/ Answer
  <2>1. pc' = pc /\ Ready(Token)
    BY <1>3, <1>5 DEF Task, SenderUser, Status, CancelAnswered, Answer, linkVars, vars, LoneInv
  <2>. QED BY <1>3, <2>1 DEF Ready
<1>6. ~Lose
  BY DEF Lose, S!StatusAnswered, S!ChunkAnswered, S!FinishAnswered, S!TellAnswered,
     S!SendFailed, S!End, S!Goto
<1>7. ~Arrive
  BY DEF Arrive
<1>. QED BY <1>4, <1>5, <1>6, <1>7 DEF TransferNext, Background

(* The receiver's record of the batch keeps up with the task: what the     *)
(* task has finished is recorded in full, or is being sent again because   *)
(* the batch names it twice.                                               *)
Full(i) == progress[Token][Queue[i]] >= Size[Queue[i]]
Finished == handed /\ at = "finish" /\ pc[Token] = "ok"
ProgressInv ==
  attempt > 0 /\ status[Token] # "gone" =>
    /\ at # "done" => \A i \in DOMAIN Queue : i < idx =>
                        Full(i) \/ (idx \in DOMAIN Queue /\ Queue[i] = Queue[idx])
    /\ Finished => \A i \in DOMAIN Queue : i <= idx => Full(i)
    /\ idx > Len(Queue) \/ (Finished /\ idx = Len(Queue)) => status[Token] = "Completed"
EndInv == outcome = "Completed" => attempt > 0 /\ idx > Len(Queue)

LEMMA EndStep ==
  ASSUME TransferTypes, EndInv, [TransferNext]_transferVars
  PROVE  EndInv'
<1>. SUFFICES ASSUME outcome' = "Completed" PROVE attempt' > 0 /\ idx' > Len(Queue)
  BY DEF EndInv
<1>1. ~Begin
  BY DEF Begin
<1>2. CASE outcome = "Completed"
  BY <1>1, <1>2, DoneStays, SameAttempt DEF EndInv, TransferTypes, LinkOK
<1>3. CASE outcome # "Completed"
  <2>1. CASE Task
    BY <1>3, <2>1 DEF Task, S!Local, S!NextFile, S!OpenFile, S!LoopHead, S!CreateNotified,
       S!PauseEnds, S!Recheck, S!SendChunk, S!FileSent, S!Goto, S!End, S!Sleep, linkVars
  <2>2. CASE ~Task
    BY <1>1, <1>3, <2>2 DEF TransferNext, SenderUser, S!Pause, S!Resume, S!Cancel, S!Notified,
       S!NotifyWaiters, Status, Arrive, Answer, Lose, CancelAnswered, CancelArrives, Handlers,
       Trouble, S!StatusAnswered, S!ChunkAnswered, S!FinishAnswered, S!TellAnswered,
       S!CommandAnswered, S!SourceError, S!SendFailed, S!Goto, S!End, S!taskVars, senderVars,
       transferVars
  <2>. QED BY <2>1, <2>2
<1>. QED BY <1>2, <1>3

(* The steps that leave the receiver alone.                                *)
LEMMA TaskKeepsProgress ==
  ASSUME TransferTypes, ProgressInv, [TransferNext]_transferVars, ~Begin, UNCHANGED vars
  PROVE  ProgressInv'
<1>0. Len(Queue) \in Nat /\ DOMAIN Queue = 1 .. Len(Queue) /\ idx \in 1 .. Len(Queue) + 1
  BY BatchAssumption DEF TransferTypes, S!SenderTypeOK
<1>. SUFFICES ASSUME attempt > 0, status[Token] # "gone"
              PROVE  ProgressInv'
  BY SameAttempt DEF ProgressInv, vars
<1>1. /\ Token' = Token /\ attempt' = attempt /\ status' = status /\ pc' = pc
      /\ \A i \in DOMAIN Queue : Full(i)' <=> Full(i)
  BY SameAttempt DEF vars, Full
<1>2. at' # "done" => at # "done"
  BY DoneStays
<1>3. CASE Answer
  <2>1. ~handed' /\ handed /\ at # "done"
    BY <1>3 DEF Answer, TransferTypes, LinkOK, LinkTypeOK
  <2>2. \/ idx' = idx
        \/ idx' = idx + 1 /\ Finished
    BY <1>3 DEF Answer, S!ChunkAnswered, S!FinishAnswered, Finished
  <2>3. CASE idx' = idx
    BY <1>1, <2>1, <2>3 DEF ProgressInv, Finished
  <2>4. CASE idx' = idx + 1 /\ Finished
    <3>0. /\ \A i \in DOMAIN Queue : i <= idx => Full(i)
          /\ idx = Len(Queue) => status[Token] = "Completed"
      BY <2>4 DEF ProgressInv
    <3>4. /\ idx \in Nat /\ idx' = idx + 1 /\ DOMAIN Queue \subseteq Nat
          /\ Len(Queue) \in Nat
      BY <1>0, <2>4
    <3>1. \A i \in DOMAIN Queue : i < idx' => Full(i)
      <4>1. \A i \in DOMAIN Queue : i < idx' => i <= idx
        BY <3>4
      <4>. QED BY <3>0, <4>1
    <3>2. idx' > Len(Queue) => status[Token] = "Completed"
      <4>1. idx <= Len(Queue)
        BY <2>4 DEF TransferTypes, S!SenderTypeOK, Finished
      <4>2. idx' > Len(Queue) => idx = Len(Queue)
        BY <3>4, <4>1
      <4>. QED BY <3>0, <4>2
    <3>3. ~Finished'
      BY <2>1 DEF Finished
    <3>. QED BY <1>1, <3>1, <3>2, <3>3 DEF ProgressInv
  <2>. QED BY <2>2, <2>3, <2>4
<1>4. CASE ~Answer
  <2>1. idx' = idx
    BY <1>4, BackgroundKeeps DEF TransferNext, Background, Task, SenderUser, Status, Arrive,
       Lose, CancelAnswered, Handlers, Trouble, CancelArrives, S!Local, S!NextFile, S!OpenFile,
       S!LoopHead, S!CreateNotified, S!PauseEnds, S!Recheck, S!SendChunk, S!FileSent, S!Pause,
       S!Resume, S!Cancel, S!Notified, S!NotifyWaiters, S!CommandAnswered, S!TellAnswered,
       S!StatusAnswered, S!ChunkAnswered, S!FinishAnswered, S!SourceError, S!taskVars,
       senderVars, transferVars
  <2>2. Finished' => Finished
    <3>1. ~Arrive \/ ~Finished'
      BY <1>1, TokenTyped DEF Arrive, ChunkCheck, FinishCheck, Refuse, Reply, Finished, vars,
         TransferTypes, LinkOK, LinkTypeOK, TypeOK
    <3>2. handed' /\ ~Arrive => handed
      BY <1>4, BackgroundKeeps DEF TransferNext, Background, Task, SenderUser, Status,
         Lose, CancelAnswered, linkVars
    <3>3. handed /\ handed' => at' = at
      BY HandedStays
    <3>. QED BY <1>1, <3>1, <3>2, <3>3 DEF Finished
  <2>. QED BY <1>1, <1>2, <2>1, <2>2 DEF ProgressInv
<1>. QED BY <1>3, <1>4

(* The steps of the receiver.                                              *)
LEMMA HandlersKeepProgress ==
  ASSUME TransferTypes, HandedOK, CancelInv, Uncancelled, LoneInv, ProgressInv,
         [TransferNext]_transferVars, Uncancelled',
         UNCHANGED <<attempt, at, idx>>,
         handed' = handed \/ pc'[Token] # "ok"
  PROVE  ProgressInv'
<1>0. /\ Len(Queue) \in Nat /\ DOMAIN Queue = 1 .. Len(Queue) /\ idx \in 1 .. Len(Queue) + 1
      /\ \A i \in DOMAIN Queue : Queue[i] \in File
      /\ at \in {"chunk", "finish"} => idx \in DOMAIN Queue
  BY BatchAssumption DEF TransferTypes, S!SenderTypeOK
<1>1. TypeOK /\ TypeOK' /\ [Next]_vars /\ attempt \in 0 .. Len(Attempts) /\ Token' = Token
  BY StepIsReceiver, TypeStep DEF TransferTypes, LinkOK, LinkTypeOK, Token
<1>. SUFFICES ASSUME attempt > 0, status'[Token] # "gone"
              PROVE  ProgressInv'
  BY <1>1 DEF ProgressInv
<1>2. Token \in Session /\ status[Token] \in {"Accepted", "Completed", "gone"}
  BY <1>1, TokenTyped DEF CancelInv, Uncancelled, TypeOK
<1>3. status[Token] # "gone" /\ Exists(Token)
  BY <1>1, <1>2, StatusMoves DEF Exists, Accepting
<1>4. status[Token] = "Completed" => status'[Token] = "Completed"
  BY <1>1, <1>2, StatusMoves DEF Uncancelled
<1>5. /\ at # "done" => \A i \in DOMAIN Queue : i < idx =>
                          Full(i) \/ (idx \in DOMAIN Queue /\ Queue[i] = Queue[idx])
      /\ Finished => \A i \in DOMAIN Queue : i <= idx => Full(i)
      /\ idx > Len(Queue) \/ (Finished /\ idx = Len(Queue)) => status[Token] = "Completed"
  BY <1>3 DEF ProgressInv
<1>6. at # "done" /\ pc[Token] \in {"write", "record"}
        => handed /\ req[Token].file = S!Current /\ idx \in DOMAIN Queue
           /\ at = (IF pc[Token] = "write" THEN "chunk" ELSE "finish")
  BY <1>0, <1>3 DEF LoneInv, HandedOK, Ready, ChunkLabels, FinishLabels, Uncancelled, TransferTypes,
     LinkOK, LinkTypeOK
<1>7. CASE FinishRecord(Token)
  <2>1. /\ pc[Token] = "record"
        /\ progress'[Token] = [progress[Token] EXCEPT ![req[Token].file] = Size[req[Token].file]]
        /\ status' = IF \A g \in Offers[Token] : progress'[Token][g] >= Size[g]
                       THEN [status EXCEPT ![Token] = "Completed"] ELSE status
    BY <1>1, <1>2, <1>3, <1>7 DEF FinishRecord, TypeOK
  <2>2. CASE at = "done"
    BY <1>1, <1>4, <1>5, <2>2 DEF ProgressInv, Finished
  <2>3. CASE at # "done"
    <3>1. idx \in DOMAIN Queue /\ req[Token].file = Queue[idx] /\ Queue[idx] \in File
      BY <1>0, <1>6, <2>1, <2>3 DEF S!Current
    <3>2. \A f \in File : /\ f = Queue[idx] => progress'[Token][f] = Size[f]
                          /\ f # Queue[idx] => progress'[Token][f] = progress[Token][f]
      BY <1>1, <1>2, <2>1, <3>1 DEF TypeOK
    <3>3. \A i \in DOMAIN Queue : i <= idx => progress'[Token][Queue[i]] >= Size[Queue[i]]
      BY <1>0, <1>5, <2>3, <3>1, <3>2, SizeAssumption DEF Full
    <3>4. idx = Len(Queue) => status'[Token] = "Completed"
      <4>1. Offers[Token] = {Queue[i] : i \in DOMAIN Queue}
        BY <1>2, BatchAssumption
      <4>2. idx = Len(Queue) => \A g \in Offers[Token] : progress'[Token][g] >= Size[g]
        BY <1>0, <3>3, <4>1
      <4>. QED BY <1>1, <1>2, <2>1, <4>2 DEF TypeOK
    <3>. QED BY <1>0, <1>1, <3>1, <3>3, <3>4 DEF ProgressInv, Finished, Full
  <2>. QED BY <2>2, <2>3
<1>8. CASE ~FinishRecord(Token)
  <2>1. Finished' => Finished
    <3>1. Finished' => handed /\ at = "finish" /\ pc'[Token] = "ok"
      BY <1>1 DEF Finished
    <3>2. pc'[Token] = "ok" => pc[Token] \in {"ok", "write"}
      BY <1>1, <1>2, <1>8, OkMoves
    <3>3. at = "finish" => pc[Token] # "write"
      BY <1>6
    <3>. QED BY <3>1, <3>2, <3>3 DEF Finished
  <2>2. CASE progress'[Token] = progress[Token]
    BY <1>1, <1>4, <1>5, <2>1, <2>2 DEF ProgressInv, Full
  <2>3. CASE pc[Token] = "write" /\ \A f \in File : f # req[Token].file =>
                                      progress'[Token][f] = progress[Token][f]
    <3>1. CASE at = "done"
      BY <1>1, <1>4, <1>5, <2>1, <3>1 DEF ProgressInv, Finished
    <3>2. CASE at # "done"
      <4>1. idx \in DOMAIN Queue /\ req[Token].file = Queue[idx] /\ at = "chunk"
        BY <1>6, <2>3, <3>2 DEF S!Current
      <4>2. \A i \in DOMAIN Queue : Queue[i] # Queue[idx] => (Full(i)' <=> Full(i))
        BY <1>0, <1>1, <2>3, <4>1 DEF Full
      <4>. QED BY <1>0, <1>1, <1>4, <1>5, <2>1, <4>1, <4>2 DEF ProgressInv, Finished
    <3>. QED BY <3>1, <3>2
  <2>. QED BY <1>1, <1>2, <1>3, <1>8, <2>2, <2>3, ProgressMoves
<1>. QED BY <1>7, <1>8

LEMMA ProgressStep ==
  ASSUME Queue # << >>, TransferTypes, HandedOK, CancelInv, Uncancelled, LoneInv, ProgressInv,
         [TransferNext]_transferVars, Uncancelled'
  PROVE  ProgressInv'
<1>1. CASE Begin
  <2>1. Len(Queue) \in Nat /\ Len(Queue) # 0
    BY BatchAssumption
  <2>2. idx' = 1 /\ at' = "next"
    BY <1>1 DEF Begin
  <2>. QED BY <2>1, <2>2, BatchAssumption DEF ProgressInv, Finished
<1>2. CASE ~Begin /\ UNCHANGED vars
  BY <1>2, TaskKeepsProgress
<1>3. CASE Arrive
  <2>1. Token \in Session
    BY <1>3, TokenTyped DEF Arrive, TransferTypes, LinkOK, LinkTypeOK
  <2>2. pc'[Token] # "ok" /\ UNCHANGED <<attempt, at, idx>>
    BY <1>3, <2>1 DEF Arrive, ChunkCheck, FinishCheck, Refuse, Reply, senderVars, TransferTypes,
       TypeOK
  <2>. QED BY <2>2, HandlersKeepProgress
<1>4. CASE UNCHANGED <<senderVars, linkVars>>
  BY <1>4, HandlersKeepProgress DEF senderVars, linkVars
<1>5. CASE Task \/ SenderUser \/ Status \/ Answer \/ Lose \/ CancelAnswered
  BY <1>1, <1>2, <1>5 DEF Task, SenderUser, Status, Answer, Lose, CancelAnswered
<1>. QED
  BY <1>1, <1>2, <1>3, <1>4, <1>5, BackgroundKeeps DEF TransferNext, Background

(* When the sender records the batch as completed, so has the receiver,    *)
(* or it has dropped the session: whatever connections are lost, handlers  *)
(* end early and applications are restarted, as long as nobody cancels.    *)
THEOREM CompletionIsAgreed ==
  ASSUME NoCancels, Queue # << >> PROVE TransferSpec => []CompletedAgreed
<1>. DEFINE Inv == CancelInv /\ Uncancelled /\ LoneInv /\ ProgressInv /\ EndInv
<1>1. TransferInit => Inv
  BY DEF TransferInit, Init, S!SenderInit, CancelInv, SessionsOK, CancelAgreed, Uncancelled,
         LoneInv, ProgressInv, EndInv
<1>2. TransferTypes /\ HandedOK /\ Inv /\ [TransferNext]_transferVars => Inv'
  BY CancelInvStep, UncancelledStep, LoneStep, ProgressStep, EndStep DEF CancelInv
<1>3. TransferTypes /\ Inv => CompletedAgreed
  <2>. SUFFICES ASSUME TransferTypes, Inv, outcome = "Completed"
                PROVE  status[Token] \in {"Completed", "gone"}
    BY DEF CompletedAgreed
  <2>. QED BY DEF EndInv, ProgressInv
<1>. QED BY <1>1, <1>2, <1>3, HandedHolds, PTL DEF TransferSpec

-----------------------------------------------------------------------------
(* The transfer does what Delivery promises.                               *)

(* The answer "ok" to a finish request is that of the handler that has     *)
(* committed and recorded the entry the task asked about.                  *)
LEMMA FinishedMoves ==
  ASSUME TransferTypes, HandedOK, [TransferNext]_transferVars, Finished'
  PROVE  /\ idx' = idx
         /\ Finished \/ (FinishRecord(Token) /\ req[Token].file = S!Current /\ Token \in Session)
<1>1. TypeOK /\ [Next]_vars /\ handed' /\ at' = "finish" /\ pc'[Token'] = "ok"
  BY StepIsReceiver DEF TransferTypes, Finished
<1>2. CASE ~handed
  <2>1. ~Arrive
    <3>1. ASSUME Arrive PROVE FALSE
      <4>1. Token \in Session /\ Token' = Token
        BY <3>1, TokenTyped DEF Arrive, TransferTypes, LinkOK, LinkTypeOK, Token
      <4>. QED
        BY <1>1, <3>1, <4>1 DEF Arrive, ChunkCheck, FinishCheck, Refuse, Reply, TypeOK
    <3>. QED BY <3>1
  <2>. QED
    BY <1>1, <1>2, <2>1, BackgroundKeeps DEF Background, TransferNext, Begin, Task, SenderUser,
       Status, Answer, Lose, CancelAnswered, linkVars
<1>3. CASE handed
  <2>1. /\ at' = at /\ idx' = idx /\ Token' = Token /\ attempt > 0
    BY <1>1, <1>3, HandedStays, SameAttempt DEF TransferTypes, LinkOK
  <2>2. Token \in Session
    BY <2>1, TokenTyped DEF TransferTypes, LinkOK, LinkTypeOK
  <2>3. CASE pc[Token] = "ok"
    BY <1>1, <1>3, <2>1, <2>3 DEF Finished
  <2>4. CASE pc[Token] # "ok"
    <3>1. pc[Token] = "write" \/ FinishRecord(Token)
      BY <1>1, <2>1, <2>2, <2>4, OkMoves
    <3>2. pc[Token] # "write" /\ (FinishRecord(Token) => req[Token].file = S!Current)
      BY <1>1, <1>3, <2>1 DEF HandedOK, Ready, FinishLabels, FinishRecord
    <3>. QED BY <2>1, <2>2, <3>1, <3>2
  <2>. QED BY <2>3, <2>4
<1>. QED BY <1>2, <1>3

(* Every entry the task has left behind is saved, and so is the one whose  *)
(* finish request was answered "ok".                                       *)
DeliverInv ==
  /\ IInv /\ CommitsSave /\ OffersOK
  /\ \A i \in DOMAIN Queue : i < idx => Queue[i] \in SavedFiles
  /\ Finished => S!Current \in SavedFiles

LEMMA DeliverInvStep ==
  ASSUME Orderly, TransferTypes, HandedOK, DeliverInv, [TransferNext]_transferVars
  PROVE  DeliverInv'
<1>0. DOMAIN Queue \subseteq Nat /\ idx \in Nat
  BY BatchAssumption DEF TransferTypes, S!SenderTypeOK
<1>1. /\ TypeOK /\ [Next]_vars /\ IInv /\ IInv' /\ CommitsSave' /\ OffersOK'
      /\ SavedFiles \subseteq SavedFiles'
  BY StepIsReceiver, IInvStep, CommitsSaveStep, OffersOKStep, SavedStays
     DEF DeliverInv, TransferTypes
<1>2. ASSUME NEW i \in DOMAIN Queue, i < idx' PROVE Queue[i] \in SavedFiles'
  <2>1. CASE Begin
    <3>1. idx' = 1 /\ i \in 1 .. Len(Queue)
      BY <2>1, BatchAssumption DEF Begin
    <3>. QED BY <1>2, <3>1
  <2>2. CASE Answer /\ idx' = idx + 1
    <3>1. Finished
      BY <1>0, <2>2 DEF Answer, S!ChunkAnswered, S!FinishAnswered, Finished
    <3>2. i < idx \/ i = idx
      BY <1>0, <1>2, <2>2
    <3>. QED BY <1>1, <3>1, <3>2 DEF DeliverInv, S!Current
  <2>3. CASE idx' = idx
    BY <1>1, <1>2, <2>3 DEF DeliverInv
  <2>4. Begin \/ (Answer /\ idx' = idx + 1) \/ idx' = idx
    <3>1. CASE Answer
      BY <3>1 DEF Answer, S!ChunkAnswered, S!FinishAnswered
    <3>2. CASE ~Answer /\ ~Begin
      BY <3>2 DEF TransferNext, Task, SenderUser, Status, Arrive,
         Lose, CancelAnswered, Handlers, Trouble, CancelArrives, S!Local, S!NextFile,
         S!OpenFile, S!LoopHead, S!CreateNotified, S!PauseEnds, S!Recheck, S!SendChunk,
         S!FileSent, S!Pause, S!Resume, S!Cancel, S!Notified, S!NotifyWaiters,
         S!CommandAnswered, S!TellAnswered, S!StatusAnswered, S!ChunkAnswered,
         S!FinishAnswered, S!SourceError, S!taskVars, senderVars, transferVars
    <3>. QED BY <3>1, <3>2
  <2>. QED BY <2>1, <2>2, <2>3, <2>4
<1>3. ASSUME Finished' PROVE S!Current' \in SavedFiles'
  <2>1. S!Current' = S!Current
    BY <1>3, FinishedMoves DEF S!Current
  <2>2. CASE Finished
    BY <1>1, <2>1, <2>2 DEF DeliverInv
  <2>3. CASE FinishRecord(Token) /\ req[Token].file = S!Current /\ Token \in Session
    BY <1>1, <2>1, <2>3 DEF DeliverInv, CommitsSave, FinishRecord
  <2>. QED BY <1>3, <2>2, <2>3, FinishedMoves
<1>. QED BY <1>1, <1>2, <1>3 DEF DeliverInv

(* The task records Completed at the end of the batch only.                *)
LEMMA CompletesAtEnd ==
  ASSUME [TransferNext]_transferVars, outcome # "Completed", outcome' = "Completed"
  PROVE  idx > Len(Queue) /\ UNCHANGED vars
<1>1. CASE Task
  BY <1>1 DEF Task, S!Local, S!NextFile, S!OpenFile, S!LoopHead, S!CreateNotified,
     S!PauseEnds, S!Recheck, S!SendChunk, S!FileSent, S!Goto, S!End, S!Sleep
<1>2. CASE ~Task
  BY <1>2 DEF TransferNext, Begin, SenderUser, S!Pause, S!Resume, S!Cancel, S!Notified,
     S!NotifyWaiters, Status, Arrive, Answer, Lose, CancelAnswered, CancelArrives, Handlers,
     Trouble, S!StatusAnswered, S!ChunkAnswered, S!FinishAnswered, S!TellAnswered,
     S!CommandAnswered, S!SourceError, S!SendFailed, S!Goto, S!End, S!taskVars, senderVars,
     transferVars
<1>. QED BY <1>1, <1>2

(* Every step of the two applications is a step of Delivery or a stutter.  *)
LEMMA StepDelivers ==
  ASSUME Orderly, TransferTypes, DeliverInv, [TransferNext]_transferVars
  PROVE  [D!DeliveryNext]_<<SavedFiles, outcome>>
<1>. DEFINE Wanted == {Queue[i] : i \in DOMAIN Queue}
<1>1. [Next]_vars /\ IInv
  BY StepIsReceiver DEF DeliverInv
<1>2. ASSUME UNCHANGED vars PROVE SavedFiles' = SavedFiles
  BY <1>2 DEF vars, SavedFiles, Settled, Intact
<1>3. CASE Begin
  <2>1. PICK s \in {Attempts[attempt + 1]} : CreateSession(s)
    BY <1>3 DEF Begin
  <2>2. SavedFiles' = SavedFiles
    BY <2>1 DEF CreateSession, SavedFiles, Settled, Intact
  <2>3. outcome' = "none" /\ (outcome = "none" \/ outcome \in {"Failed", "Cancelled"})
    BY <1>3 DEF Begin, TransferTypes, LinkOK
  <2>. QED BY <2>2, <2>3 DEF D!DeliveryNext, D!TryAgain, SavedFiles
<1>4. CASE ~Begin /\ outcome' # outcome
  <2>1. outcome = "none" /\ outcome' \in {"Completed", "Cancelled", "Failed"}
    BY <1>4, DoneStays, LinkStep DEF TransferTypes, LinkOK, S!SenderTypeOK
  <2>2. UNCHANGED vars
    BY <1>4, BackgroundKeeps DEF Background, TransferNext, Task, SenderUser, Status, Arrive,
       Answer, Lose, CancelAnswered, senderVars
  <2>3. outcome' = "Completed" => Wanted \subseteq SavedFiles
    <3>1. outcome' = "Completed" => idx > Len(Queue)
      BY <2>1, CompletesAtEnd
    <3>2. idx > Len(Queue) => \A i \in DOMAIN Queue : i < idx
      BY BatchAssumption DEF TransferTypes, S!SenderTypeOK
    <3>. QED BY <3>1, <3>2 DEF DeliverInv
  <2>. QED BY <1>2, <2>1, <2>2, <2>3 DEF D!DeliveryNext, D!Conclude, SavedFiles
<1>5. CASE outcome' = outcome
  <2>1. ASSUME NEW s \in Session, ~Ready(s), SavedFiles' = SavedFiles \cup {req[s].file}
        PROVE  D!DeliveryNext
    <3>1. req[s].file \in Wanted
      BY <2>1, BatchAssumption DEF DeliverInv, OffersOK
    <3>. QED BY <1>5, <2>1, <3>1 DEF D!DeliveryNext, D!Save, SavedFiles
  <2>. QED BY <1>1, <1>5, <2>1, SavedMoves
<1>. QED BY <1>3, <1>4, <1>5

(* The transfer implements Delivery, for every batch, number of attempts   *)
(* and of lost connections, and whatever the users do: what is saved stays *)
(* saved, and the sender records Completed only when an intact copy of     *)
(* every entry is in the receiver's download folder, provided requests of  *)
(* two attempts for one .part do not overlap, the process is not killed in *)
(* the middle of a commit and the .part files are removed.                 *)
THEOREM TransferDelivers == ASSUME Orderly PROVE TransferSpec => Delivers
<1>1. TransferInit => DeliverInv
  <2>. SUFFICES ASSUME TransferInit PROVE DeliverInv
    OBVIOUS
  <2>1. IInv
    BY InitIInv DEF TransferInit
  <2>2. \A s \in Session : pc[s] = "idle"
    BY DEF TransferInit, Init
  <2>3. CommitsSave /\ OffersOK
    BY <2>2 DEF CommitsSave, OffersOK, Ready
  <2>4. \A i \in DOMAIN Queue : ~(i < idx)
    BY BatchAssumption DEF TransferInit, S!SenderInit
  <2>5. ~Finished
    BY DEF TransferInit, Finished
  <2>. QED BY <2>1, <2>3, <2>4, <2>5 DEF DeliverInv
<1>2. TransferTypes /\ HandedOK /\ DeliverInv /\ [TransferNext]_transferVars => DeliverInv'
  BY DeliverInvStep
<1>3. TransferInit => D!DeliveryInit
  BY DEF TransferInit, Init, S!SenderInit, D!DeliveryInit
<1>4. TransferTypes /\ DeliverInv /\ [TransferNext]_transferVars
        => [D!DeliveryNext]_<<{e.file : e \in {g \in library : Settled(g) /\ Intact(g.inode, g.file)}},
                               outcome>>
  BY StepDelivers DEF SavedFiles
<1>. QED
  BY <1>1, <1>2, <1>3, <1>4, HandedHolds, PTL DEF TransferSpec, Delivers, D!DeliverySpec

-----------------------------------------------------------------------------
(* What the receiver has acknowledged stays on its disk.                   *)

(* Only an attempt that begins creates a session.                          *)
LEMMA NoneStays ==
  ASSUME TypeOK, SessionsOK, [TransferNext]_transferVars, ~Begin, NEW s \in Session,
         status[s] = "none"
  PROVE  status'[s] = "none"
<1>1. pc[s] = "idle" /\ ~Accepting(s) /\ ~Exists(s)
  BY DEF SessionsOK, Accepting, Exists
<1>2. CASE Handlers
  <2>1. PICK t \in Session : Handler(t)
    BY <1>2 DEF Handlers
  <2>2. t # s
    BY <1>1, <2>1, SessionsOKStep DEF Handler, ChunkOpen, ChunkWrite, ChunkUpdate, FinishCreate,
       FinishSize, FinishVerify, CommitLink, CommitCreateCopy, CommitCopy, CommitUnlink,
       FinishRecord, CancelRemove, SessionsOK
  <2>3. SessionStep(t)
    BY <2>1 DEF Handler, SessionStep, Chunk, Finish, Cancel
  <2>. QED BY <2>2, <2>3, OthersUntouched DEF Untouched
<1>3. CASE Trouble
  BY <1>1, <1>3 DEF Trouble, Abort, Prune, SetDownloadDir, Crash, sessionVars, vars, TypeOK
<1>4. ASSUME NEW t \in Session, CancelArrives(t) PROVE status'[s] = "none"
  BY <1>1, <1>4 DEF CancelArrives, CancelMark, TypeOK
<1>5. CASE Arrive
  BY <1>5 DEF Arrive, ChunkCheck, FinishCheck, Refuse, sessionVars
<1>6. CASE Task \/ SenderUser \/ Status \/ Answer \/ Lose \/ CancelAnswered
             \/ UNCHANGED transferVars
  BY <1>6 DEF Task, SenderUser, Status, Answer, Lose, CancelAnswered, transferVars, vars
<1>. QED BY <1>2, <1>3, <1>4, <1>5, <1>6 DEF TransferNext

(* With a single attempt there is a single session.                        *)
OneAttempt == Len(Attempts) <= 1
Alone == \A s \in Session : (attempt > 0 /\ s = Token) \/ status[s] = "none"

LEMMA AloneStep ==
  ASSUME OneAttempt, TransferTypes, SessionsOK, Alone, [TransferNext]_transferVars
  PROVE  Alone'
<1>1. attempt \in Nat /\ TypeOK /\ Len(Attempts) \in Nat /\ DOMAIN Attempts = 1 .. Len(Attempts)
  BY AttemptsAssumption DEF TransferTypes, LinkOK, LinkTypeOK
<1>2. CASE Begin
  <2>1. attempt = 0 /\ attempt' = 1
    BY <1>1, <1>2 DEF Begin, OneAttempt
  <2>2. CreateSession(Token') /\ \A s \in Session : status[s] = "none"
    BY <1>1, <1>2, <2>1 DEF Begin, Alone, Token
  <2>. QED BY <1>1, <2>1, <2>2 DEF CreateSession, Alone, TypeOK
<1>3. CASE ~Begin
  <2>1. attempt' = attempt /\ Token' = Token
    BY <1>3, SameAttempt
  <2>. QED BY <1>1, <1>3, <2>1, NoneStays DEF Alone
<1>. QED BY <1>2, <1>3

(* The one session's own steps are the only ones that touch the files.     *)
LEMMA AloneMoves ==
  ASSUME TypeOK, [Next]_vars, SessionsOK, NEW s \in Session,
         \A t \in Session : t # s => status[t] = "none",
         status[s] = "Accepted", status'[s] = "Accepted"
  PROVE  SessionStep(s) \/ UNCHANGED <<part, disk, pc, req, doomed>>
<1>1. ASSUME NEW t \in Session, SessionStep(t), t # s
      PROVE  UNCHANGED <<part, disk, pc, req, doomed>>
  <2>1. /\ status[t] = "none" /\ pc[t] = "idle" /\ doomed[t] = {}
        /\ ~Accepting(t) /\ ~Exists(t)
    BY <1>1 DEF SessionsOK, Accepting, Exists
  <2>2. ~Refuse(t) /\ ~Prune(t) /\ ~Cancel(t) /\ ~Abort(t)
    BY <2>1 DEF Refuse, Prune, Cancel, CancelMark, CancelRemove, Abort
  <2>3. ~Chunk(t) /\ ~Finish(t)
    BY <2>1 DEF Chunk, ChunkCheck, ChunkOpen, ChunkWrite, ChunkUpdate, Finish, FinishCheck,
       FinishCreate, FinishSize, FinishVerify, CommitLink, CommitCreateCopy, CommitCopy,
       CommitUnlink, FinishRecord
  <2>. QED BY <1>1, <2>2, <2>3 DEF SessionStep, CreateSession
<1>2. ~Crash
  BY DEF Crash, Exists, TypeOK
<1>3. CASE (\E d \in Dir : SetDownloadDir(d)) \/ UNCHANGED vars
  BY <1>3 DEF SetDownloadDir, vars, fileVars
<1>. QED BY <1>1, <1>2, <1>3, StepCases

Sending == at \in {"open", "loop", "arm", "wait", "recheck", "send", "chunk"}

(* The task's offset, and the handler's position, are within the .part.    *)
UploadInv ==
  attempt > 0 /\ status[Token] = "Accepted" =>
    /\ doomed[Token] = {}
    /\ ~handed /\ Sending => offset <= PartLen(PathOf(S!Current))
    /\ handed /\ at = "chunk" =>
         /\ pc[Token] \in ChunkLabels =>
              /\ req[Token].path = PathOf(S!Current)
              /\ req[Token].end = offset + S!ChunkLen
              /\ req[Token].pos <= PartLen(PathOf(S!Current))
         /\ pc[Token] = "write" => part[PathOf(S!Current)] = req[Token].fd
         /\ pc[Token] = "ok" => offset + S!ChunkLen <= PartLen(PathOf(S!Current))

(* The steps that leave the receiver alone.                                *)
LEMMA TaskKeepsUpload ==
  ASSUME TransferTypes, UploadInv, [TransferNext]_transferVars, ~Begin, UNCHANGED vars
  PROVE  UploadInv'
<1>. SUFFICES ASSUME attempt > 0, status[Token] = "Accepted" PROVE UploadInv'
  BY SameAttempt DEF UploadInv, vars
<1>1. /\ Token' = Token /\ attempt' = attempt /\ pc' = pc /\ req' = req /\ doomed' = doomed
      /\ part' = part /\ disk' = disk /\ dir' = dir /\ status' = status
  BY SameAttempt DEF vars
<1>2. /\ doomed[Token] = {}
      /\ ~handed /\ Sending => offset <= PartLen(PathOf(S!Current))
      /\ handed /\ at = "chunk" =>
           /\ pc[Token] \in ChunkLabels =>
                /\ req[Token].path = PathOf(S!Current)
                /\ req[Token].end = offset + S!ChunkLen
                /\ req[Token].pos <= PartLen(PathOf(S!Current))
           /\ pc[Token] = "write" => part[PathOf(S!Current)] = req[Token].fd
           /\ pc[Token] = "ok" => offset + S!ChunkLen <= PartLen(PathOf(S!Current))
  BY DEF UploadInv
<1>3. ~Arrive
  <2>1. Token \in Session
    BY TokenTyped DEF TransferTypes, LinkOK, LinkTypeOK
  <2>2. ASSUME Arrive PROVE FALSE
    BY <1>1, <2>1, <2>2 DEF Arrive, ChunkCheck, FinishCheck, Refuse, Ready, TransferTypes, TypeOK
  <2>. QED BY <2>2
<1>4. ASSUME ~handed', Sending'
      PROVE  offset' <= PartLen(PathOf(S!Current))'
  <2>1. CASE Status
    <3>1. idx' = idx /\ offset' = PartLen(PathOf(S!Current))
      BY <1>4, <2>1 DEF Status, S!StatusAnswered, S!SendFailed, S!Goto, S!End, Sending, Accepting
    <3>2. offset' \in Nat
      BY LinkStep DEF S!SenderTypeOK
    <3>3. PartLen(PathOf(S!Current))' = PartLen(PathOf(S!Current))
      BY <1>1, <3>1 DEF PartLen, PathOf, S!Current
    <3>. QED BY <3>1, <3>2, <3>3
  <2>2. CASE Answer
    <3>1. /\ handed /\ at = "chunk" /\ pc[Token] = "ok" /\ idx' = idx
          /\ offset' = offset + S!ChunkLen
      BY <1>4, <2>2 DEF Answer, S!ChunkAnswered, S!FinishAnswered, S!SendFailed, S!Goto, S!End,
         Sending
    <3>. QED BY <1>1, <1>2, <3>1 DEF PartLen, PathOf, S!Current
  <2>3. ~Lose
    BY <1>4 DEF Lose, S!StatusAnswered, S!ChunkAnswered, S!FinishAnswered, S!TellAnswered,
       S!SendFailed, S!Goto, S!End, Sending
  <2>4. CASE ~Status /\ ~Answer
    <3>1. Sending /\ idx' = idx /\ offset' = offset
      BY <1>3, <1>4, <2>3, <2>4 DEF TransferNext, Task, SenderUser, CancelAnswered, Handlers,
         Trouble, CancelArrives, S!Local, S!NextFile, S!OpenFile, S!LoopHead,
         S!CreateNotified, S!PauseEnds, S!Recheck, S!SendChunk, S!FileSent, S!Pause, S!Resume,
         S!Cancel, S!Notified, S!NotifyWaiters, S!CommandAnswered, S!TellAnswered,
         S!SourceError, S!SendFailed, S!Goto, S!End, S!Sleep, S!taskVars, senderVars,
         transferVars, Sending
    <3>2. ~handed
      <4>1. handed' = handed
        BY <1>3, <2>3, <2>4, BackgroundKeeps DEF Background, TransferNext, Task, SenderUser,
           CancelAnswered, linkVars
      <4>. QED BY <1>4, <4>1
    <3>. QED BY <1>1, <1>2, <3>1, <3>2 DEF PartLen, PathOf, S!Current
  <2>. QED BY <2>1, <2>2, <2>4
<1>5. ASSUME handed' PROVE handed /\ UNCHANGED <<at, idx, offset>>
  <2>1. handed
    BY <1>3, <1>5, BackgroundKeeps DEF Background, TransferNext, Task, SenderUser, Status,
       Answer, Lose, CancelAnswered, linkVars
  <2>. QED BY <1>5, <2>1, HandedStays
<1>6. ASSUME handed', at' = "chunk"
      PROVE  /\ pc'[Token] \in ChunkLabels =>
                  /\ req'[Token].path = PathOf(S!Current)'
                  /\ req'[Token].end = (offset + S!ChunkLen)'
                  /\ req'[Token].pos <= PartLen(PathOf(S!Current))'
             /\ pc'[Token] = "write" => part'[PathOf(S!Current)'] = req'[Token].fd
             /\ pc'[Token] = "ok" => (offset + S!ChunkLen)' <= PartLen(PathOf(S!Current))'
  BY <1>1, <1>2, <1>5, <1>6 DEF PartLen, PathOf, S!Current, S!ChunkLen
<1>. QED BY <1>1, <1>2, <1>4, <1>6 DEF UploadInv


(* A free slot is taken by a request of the task, and nothing else moves it.*)
LEMMA ReadySessionSteps ==
  ASSUME TypeOK, NEW s \in Session, SessionStep(s), status[s] = "Accepted",
         status'[s] = "Accepted", doomed[s] = {}
  PROVE  /\ UNCHANGED doomed
         /\ Ready(s) => ~Ready(s)'
         /\ ~Ready(s) => \/ /\ pc[s] = "open"  /\ ChunkOpen(s)
                         \/ /\ pc[s] = "write"
                            /\ ChunkWrite(s) \/ ChunkUpdate(s)
                         \/ pc'[s] = "error"
                         \/ pc[s] \in FinishLabels
<1>1. ~CreateSession(s) /\ ~Prune(s) /\ ~Cancel(s) /\ ~Refuse(s)
  BY DEF CreateSession, Prune, Cancel, CancelMark, CancelRemove, Refuse, TypeOK
<1>2. CASE Chunk(s)
  BY <1>2 DEF Chunk, ChunkCheck, ChunkOpen, ChunkWrite, ChunkUpdate, Ready, TypeOK
<1>3. CASE Finish(s)
  <2>1. UNCHANGED doomed
    BY <1>3 DEF Finish, FinishCheck, FinishCreate, FinishSize, FinishVerify, CommitLink,
       CommitCreateCopy, CommitCopy, CommitUnlink, FinishRecord
  <2>2. CASE \E f \in File : FinishCheck(s, f)
    BY <2>1, <2>2 DEF FinishCheck, Ready, TypeOK
  <2>3. CASE \A f \in File : ~FinishCheck(s, f)
    <3>1. pc[s] \in FinishLabels
      BY <1>3, <2>3 DEF Finish, FinishCreate, FinishSize, FinishVerify, CommitLink,
         CommitCreateCopy, CommitCopy, CommitUnlink, FinishRecord, FinishLabels
    <3>. QED BY <2>1, <3>1 DEF FinishLabels, Ready
  <2>. QED BY <2>2, <2>3
<1>4. CASE Abort(s)
  <2>1. UNCHANGED doomed /\ ~Ready(s)
    BY <1>4 DEF Abort, Ready
  <2>2. pc'[s] = "error" \/ pc[s] \in FinishLabels
    BY <1>4 DEF Abort, Reply, FinishLabels, TypeOK
  <2>. QED BY <2>1, <2>2
<1>. QED BY <1>1, <1>2, <1>3, <1>4 DEF SessionStep


(* The steps of the receiver while the request is out.                     *)
LEMMA HandlerKeepsUpload ==
  ASSUME TypeOK, NEW s \in Session, NEW p \in Path, NEW last \in Nat,
         pc[s] \in ChunkLabels, status[s] # "Cancelled",
         req[s].path = p, req[s].end = last, req[s].pos <= PartLen(p),
         pc[s] = "write" => part[p] = req[s].fd,
         ChunkOpen(s) \/ ChunkWrite(s) \/ ChunkUpdate(s)
  PROVE  /\ pc'[s] \in ChunkLabels =>
              req'[s].path = p /\ req'[s].end = last /\ req'[s].pos <= PartLen(p)'
         /\ pc'[s] = "write" => part'[p] = req'[s].fd
         /\ pc'[s] = "ok" => last <= PartLen(p)'
<1>1. /\ req \in [Session -> RequestType] /\ pc \in [Session -> Label]
      /\ part \in [Path -> Inode \cup {Nil}] /\ disk \in [Inode -> Contents]
      /\ req[s].pos \in Nat /\ req[s].pos <= req[s].end
      /\ pc[s] = "write" => req[s].fd \in Inode
  BY DEF TypeOK, RequestType, RequestsOK, Ready, ChunkLabels
<1>2. CASE ChunkOpen(s)
  <2>1. /\ pc'[s] = "write" /\ req'[s].path = p /\ req'[s].end = last
        /\ req'[s].pos = req[s].pos
    BY <1>1, <1>2 DEF ChunkOpen, RequestType
  <2>2. CASE part[p] # Nil
    <3>1. part' = part /\ disk' = disk /\ req'[s].fd = part[p]
      BY <1>1, <1>2, <2>2 DEF ChunkOpen, RequestType
    <3>. QED BY <2>1, <3>1 DEF PartLen
  <2>3. CASE part[p] = Nil
    <3>1. PICK i \in Free : /\ req' = [req EXCEPT ![s].fd = i]
                            /\ part' = [part EXCEPT ![p] = i]
                            /\ disk' = [disk EXCEPT ![i] = Empty]
      BY <1>2, <2>3 DEF ChunkOpen
    <3>2. i \in Inode /\ i # Nil
      BY NilAssumption DEF Free
    <3>3. part'[p] = i /\ req'[s].fd = i /\ disk'[i] = Empty
      BY <1>1, <3>1, <3>2 DEF RequestType
    <3>4. req[s].pos <= 0
      BY <2>3 DEF PartLen
    <3>. QED BY <1>1, <2>1, <3>2, <3>3, <3>4 DEF PartLen, Empty
  <2>. QED BY <2>2, <2>3
<1>3. CASE ChunkWrite(s)
  <2>1. PICK ok \in BOOLEAN :
          disk' = [disk EXCEPT ![req[s].fd] = WithBlock(@, req[s].pos, ok)]
    BY <1>3 DEF ChunkWrite
  <2>2. /\ pc[s] = "write" /\ pc' = pc /\ part' = part
        /\ req'[s].path = p /\ req'[s].end = last /\ req'[s].fd = req[s].fd
        /\ req'[s].pos = req[s].pos + 1
    BY <1>1, <1>3 DEF ChunkWrite, RequestType
  <2>3. part[p] = req[s].fd /\ req[s].fd \in Inode /\ req[s].fd # Nil
    BY <1>1, <2>2, NilAssumption
  <2>4. disk'[req[s].fd] = WithBlock(disk[req[s].fd], req[s].pos, ok)
    BY <1>1, <2>1, <2>3
  <2>5. disk[req[s].fd].len \in Nat /\ req[s].pos <= disk[req[s].fd].len
    BY <1>1, <2>3 DEF PartLen, Contents
  <2>6. req[s].pos + 1 <= disk'[req[s].fd].len
    BY <1>1, <2>4, <2>5 DEF WithBlock
  <2>. QED BY <2>2, <2>3, <2>6 DEF PartLen
<1>4. CASE ChunkUpdate(s)
  <2>1. /\ req[s].pos = last /\ pc'[s] = "ok" /\ part' = part /\ disk' = disk
    BY <1>1, <1>4 DEF ChunkUpdate, Accepting, Exists, Reply
  <2>. QED BY <2>1 DEF PartLen, ChunkLabels
<1>. QED BY <1>2, <1>3, <1>4

LEMMA BackgroundKeepsUpload ==
  ASSUME "chdir" \notin Faults, TransferTypes, HandedOK, LoneInv, Alone, SessionsOK, UploadInv,
         [TransferNext]_transferVars, ~Begin, Background, UNCHANGED <<senderVars, linkVars>>
  PROVE  UploadInv'
<1>1. TypeOK /\ [Next]_vars /\ Token' = Token /\ dir' = dir
  BY StepIsReceiver, SameAttempt, DirStays DEF TransferTypes
<1>2. /\ attempt' = attempt /\ handed' = handed /\ at' = at /\ offset' = offset
      /\ S!Current' = S!Current /\ S!ChunkLen' = S!ChunkLen
  BY DEF senderVars, linkVars, S!Current, S!ChunkLen
<1>. SUFFICES ASSUME attempt > 0, status'[Token] = "Accepted" PROVE UploadInv'
  BY <1>1, <1>2 DEF UploadInv
<1>3. Token \in Session
  BY TokenTyped DEF TransferTypes, LinkOK, LinkTypeOK
<1>4. status[Token] = "Accepted"
  BY <1>1, <1>3, StatusMoves, NoneStays
<1>5. /\ doomed[Token] = {}
      /\ ~handed /\ Sending => offset <= PartLen(PathOf(S!Current))
      /\ handed /\ at = "chunk" =>
           /\ pc[Token] \in ChunkLabels =>
                /\ req[Token].path = PathOf(S!Current)
                /\ req[Token].end = offset + S!ChunkLen
                /\ req[Token].pos <= PartLen(PathOf(S!Current))
           /\ pc[Token] = "write" => part[PathOf(S!Current)] = req[Token].fd
           /\ pc[Token] = "ok" => offset + S!ChunkLen <= PartLen(PathOf(S!Current))
  BY <1>4 DEF UploadInv
<1>6. CASE UNCHANGED <<part, disk, pc, req, doomed>>
  BY <1>1, <1>2, <1>5, <1>6 DEF UploadInv, Sending, PartLen, PathOf
<1>7. CASE SessionStep(Token)
  <2>1. /\ UNCHANGED doomed
        /\ Ready(Token) => pc'[Token] \notin {"idle", "ok", "error", "cancelled"}
        /\ ~Ready(Token) => \/ /\ pc[Token] = "open"  /\ ChunkOpen(Token)
                            \/ /\ pc[Token] = "write"
                               /\ ChunkWrite(Token) \/ ChunkUpdate(Token)
                            \/ pc'[Token] = "error"
                            \/ pc[Token] \in FinishLabels
    BY <1>1, <1>3, <1>4, <1>5, <1>7, ReadySessionSteps DEF Ready
  <2>2. ~Ready(Token)
    <3>1. Ready(Token) => pc'[Token] \in {"idle", "ok", "error", "cancelled"}
      BY <1>1, <1>3, BackgroundKeepsReady DEF Ready
    <3>. QED BY <2>1, <3>1
  <2>3. ~handed => ~Sending
    BY <2>2 DEF LoneInv, Sending
  <2>4. ASSUME handed, at = "chunk"
        PROVE  /\ pc'[Token] \in ChunkLabels =>
                    /\ req'[Token].path = PathOf(S!Current)
                    /\ req'[Token].end = offset + S!ChunkLen
                    /\ req'[Token].pos <= PartLen(PathOf(S!Current))'
               /\ pc'[Token] = "write" => part'[PathOf(S!Current)] = req'[Token].fd
               /\ pc'[Token] = "ok" => offset + S!ChunkLen <= PartLen(PathOf(S!Current))'
    <3>1. pc[Token] \in ChunkLabels
      BY <2>2, <2>4 DEF HandedOK
    <3>2. CASE pc'[Token] = "error"
      BY <3>2 DEF ChunkLabels
    <3>3. CASE ChunkOpen(Token) \/ ChunkWrite(Token) \/ ChunkUpdate(Token)
      <4>1. idx \in 1 .. Len(Queue) /\ offset < Size[S!Current] /\ offset \in Nat
        BY <2>4, BatchAssumption DEF TransferTypes, S!SenderTypeOK
      <4>2. S!Current \in File /\ offset + S!ChunkLen \in Nat
        BY <4>1, CurrentTyped, ChunkForward
      <4>3. PathOf(S!Current) \in Path
        BY <1>1, <4>2, PathOfType DEF TypeOK
      <4>4. ASSUME NEW p \in Path, p = PathOf(S!Current)
            PROVE  /\ pc'[Token] \in ChunkLabels =>
                        /\ req'[Token].path = p /\ req'[Token].end = offset + S!ChunkLen
                        /\ req'[Token].pos <= PartLen(p)'
                   /\ pc'[Token] = "write" => part'[p] = req'[Token].fd
                   /\ pc'[Token] = "ok" => offset + S!ChunkLen <= PartLen(p)'
        BY <1>1, <1>3, <1>4, <1>5, <2>4, <3>1, <3>3, <4>2, <4>4, HandlerKeepsUpload
      <4>5. PartLen(PathOf(S!Current))' = (IF part'[PathOf(S!Current)] = Nil THEN 0
                                           ELSE disk'[part'[PathOf(S!Current)]].len)
        BY <1>1, <1>2 DEF PartLen, PathOf
      <4>. QED BY <4>3, <4>4, <4>5 DEF PartLen
    <3>. QED BY <2>1, <2>2, <3>1, <3>2, <3>3 DEF ChunkLabels, FinishLabels
  <2>5. PathOf(S!Current)' = PathOf(S!Current)
    BY <1>1, <1>2 DEF PathOf
  <2>. QED BY <1>1, <1>2, <1>5, <2>1, <2>3, <2>4, <2>5 DEF UploadInv, Sending
<1>8. \A t \in Session : t # Token => status[t] = "none"
  BY DEF Alone
<1>. QED BY <1>1, <1>3, <1>4, <1>6, <1>7, <1>8, AloneMoves


LEMMA UploadInvStep ==
  ASSUME "chdir" \notin Faults, TransferTypes, HandedOK, LoneInv, Alone, SessionsOK, UploadInv,
         [TransferNext]_transferVars
  PROVE  UploadInv'
<1>1. TypeOK /\ LinkTypeOK
  BY DEF TransferTypes, LinkOK
<1>2. CASE Begin
  <2>1. attempt + 1 \in DOMAIN Attempts /\ attempt' = attempt + 1
    BY <1>1, <1>2, AttemptsAssumption DEF Begin, LinkTypeOK
  <2>2. Token' \in Session /\ CreateSession(Token')
    BY <1>2, <2>1, AttemptsAssumption DEF Begin, Token
  <2>3. doomed'[Token'] = {}
    BY <2>2 DEF CreateSession, SessionsOK
  <2>4. at' = "next"
    BY <1>2 DEF Begin
  <2>. QED BY <2>3, <2>4 DEF UploadInv, Sending
<1>3. CASE Arrive
  <2>1. /\ attempt > 0 /\ ~handed /\ handed' /\ Token' = Token /\ attempt' = attempt
        /\ at' = at /\ offset' = offset /\ S!Current' = S!Current /\ S!ChunkLen' = S!ChunkLen
    BY <1>3 DEF Arrive, senderVars, Token, S!Current, S!ChunkLen
  <2>2. Token \in Session
    BY <1>1, <2>1, TokenTyped DEF LinkTypeOK
  <2>3. status' = status /\ doomed' = doomed /\ dir' = dir /\ part' = part /\ disk' = disk
    BY <1>3 DEF Arrive, ChunkCheck, FinishCheck, Refuse, sessionVars, fileVars
  <2>. SUFFICES ASSUME status[Token] = "Accepted" PROVE UploadInv'
    BY <2>1, <2>3 DEF UploadInv
  <2>4. CASE at = "chunk" /\ ChunkCheck(Token, S!Current, offset, S!ChunkLen)
    <3>1. /\ pc'[Token] = "open" /\ req'[Token].path = PathOf(S!Current)
          /\ req'[Token].end = offset + S!ChunkLen /\ req'[Token].pos = offset
      BY <1>1, <2>2, <2>4 DEF ChunkCheck, Request, TypeOK
    <3>2. offset <= PartLen(PathOf(S!Current)) /\ doomed[Token] = {}
      BY <2>1, <2>4 DEF UploadInv, Sending
    <3>3. PathOf(S!Current)' = PathOf(S!Current)
      BY <2>1, <2>3 DEF PathOf
    <3>4. PartLen(PathOf(S!Current))' = PartLen(PathOf(S!Current))
      BY <2>3, <3>3 DEF PartLen
    <3>. QED BY <2>1, <2>3, <3>1, <3>2, <3>3, <3>4 DEF UploadInv
  <2>5. CASE at = "finish"
    BY <2>1, <2>3, <2>5 DEF UploadInv
  <2>6. ~Refuse(Token)
    BY DEF Refuse
  <2>. QED BY <1>3, <2>4, <2>5, <2>6 DEF Arrive
<1>4. CASE ~Begin /\ UNCHANGED vars
  BY <1>4, TaskKeepsUpload
<1>5. CASE ~Begin /\ ~Arrive /\ ~UNCHANGED vars
  <2>1. Background
    BY <1>5 DEF TransferNext, Background, Task, SenderUser, Status, Answer, Lose, CancelAnswered
  <2>. QED BY <1>5, <2>1, BackgroundKeeps, BackgroundKeepsUpload
<1>. QED BY <1>2, <1>3, <1>4, <1>5

(* While the session is accepted, the .part file holds at least what the   *)
(* receiver has acknowledged to the task, whatever is lost, restarted, cut *)
(* short or cancelled.  It is a theorem about one attempt in one folder: a *)
(* finish that an earlier attempt has left behind may still remove the     *)
(* .part whose length the next attempt has just been told, and the folder  *)
(* of a later request is the one chosen by then.                           *)
THEOREM UploadIsKept ==
  ASSUME "chdir" \notin Faults, OneAttempt
  PROVE  TransferSpec => []UploadKept
<1>. DEFINE Kept == SessionsOK /\ LoneInv /\ Alone /\ UploadInv
<1>1. TransferInit => Kept
  BY DEF TransferInit, Init, S!SenderInit, SessionsOK, LoneInv, Alone, UploadInv
<1>2. TransferTypes /\ HandedOK /\ Kept /\ [TransferNext]_transferVars => Kept'
  <2>. SUFFICES ASSUME TransferTypes, HandedOK, Kept, [TransferNext]_transferVars PROVE Kept'
    OBVIOUS
  <2>1. SessionsOK'
    BY StepIsReceiver, SessionsOKStep DEF TransferTypes
  <2>2. LoneInv' /\ Alone'
    BY LoneStep, AloneStep
  <2>. QED BY <2>1, <2>2, UploadInvStep
<1>3. Kept => UploadKept
  BY DEF UploadInv, UploadKept, Sending
<1>. QED
  BY <1>1, <1>2, <1>3, HandedHolds, PTL DEF TransferSpec


-----------------------------------------------------------------------------
(* An interrupted upload continues without a hole.                         *)

(* No .part file disappears but by a commit, as long as nobody cancels.    *)
Undoomed == \A s \in Session : doomed[s] = {} /\ status[s] # "Cancelled"

LEMMA PathMoves ==
  ASSUME TypeOK, Names, Undoomed, [Next]_vars, NEW p \in Path
  PROVE  \/ part'[p] = part[p] /\ (part[p] # Nil => disk'[part[p]] = disk[part[p]])
         \/ \E t \in Session : /\ ~Ready(t) /\ req[t].path = p
                               /\ pc'[t] # pc[t] \/ req'[t] # req[t]
                               /\ \/ ChunkOpen(t) \/ ChunkWrite(t)
                                  \/ FinishCreate(t) \/ CommitUnlink(t)
<1>. DEFINE Mover(t) == /\ ~Ready(t) /\ req[t].path = p
                        /\ pc'[t] # pc[t] \/ req'[t] # req[t]
                        /\ \/ ChunkOpen(t) \/ ChunkWrite(t)
                           \/ FinishCreate(t) \/ CommitUnlink(t)
<1>0. /\ part \in [Path -> Inode \cup {Nil}] /\ pc \in [Session -> Label]
      /\ req \in [Session -> RequestType]
  BY DEF TypeOK
<1>1. CASE part'[p] # part[p] /\ part'[p] # Nil
  <2>1. PICK t \in Session :
           /\ \/ ChunkOpen(t) /\ pc'[t] = "write"
              \/ FinishCreate(t) /\ pc'[t] = "size"
           /\ ~Ready(t) /\ req[t].path = p
    BY <1>1, PartMoves
  <2>2. pc'[t] # pc[t]
    BY <2>1 DEF ChunkOpen, FinishCreate
  <2>3. Mover(t)
    BY <2>1, <2>2
  <2>. QED BY <2>3
<1>2. CASE part'[p] # part[p] /\ part'[p] = Nil
  <2>1. ASSUME NEW s \in Session, SessionStep(s) PROVE Mover(s)
    <3>1. ~CreateSession(s) /\ ~Refuse(s) /\ ~Prune(s) /\ ~Abort(s) /\ ~CancelMark(s)
      BY <1>2 DEF CreateSession, Refuse, Prune, Abort, CancelMark, fileVars
    <3>2. \A q \in Path : ~CancelRemove(s, q)
      BY DEF CancelRemove, Undoomed
    <3>3. ~Chunk(s)
      BY <1>0, <1>2 DEF Chunk, ChunkCheck, ChunkOpen, ChunkWrite, ChunkUpdate, fileVars, Undoomed,
         Free
    <3>4. CommitUnlink(s)
      BY <1>0, <1>2, <2>1, <3>1, <3>2, <3>3 DEF SessionStep, Cancel, Finish, FinishCheck,
         FinishCreate, FinishSize, FinishVerify, CommitLink, CommitCreateCopy, CommitCopy,
         FinishRecord, Free, fileVars
    <3>5. req[s].path = p /\ pc[s] = "unlink" /\ pc'[s] \in {"error", "record"}
      BY <1>0, <1>2, <3>4 DEF CommitUnlink, Unlink, Reply, Goto
    <3>. QED BY <3>4, <3>5 DEF Ready
  <2>2. ~(\E d \in Dir : SetDownloadDir(d)) /\ ~Crash /\ ~UNCHANGED vars
    BY <1>2 DEF SetDownloadDir, Crash, vars, fileVars
  <2>. QED BY <2>1, <2>2, StepCases
<1>3. CASE part'[p] = part[p] /\ part[p] # Nil /\ disk'[part[p]] # disk[part[p]]
  <2>1. part[p] \in Inode /\ ~(part[p] \in Free)
    BY <1>0, <1>3 DEF Free, Referenced
  <2>2. PICK s \in Session : (ChunkWrite(s) \/ CommitCopy(s)) /\ req[s].fd = part[p]
    BY <1>3, <2>1, DiskMoves
  <2>3. ChunkWrite(s) /\ pc[s] = "write" /\ req[s].path = p
    BY <2>2 DEF ChunkWrite, CommitCopy, Names
  <2>4. req'[s] # req[s]
    <3>1. req[s].pos \in Nat /\ req'[s].pos = req[s].pos + 1
      BY <1>0, <2>3 DEF ChunkWrite, RequestType
    <3>. QED BY <3>1
  <2>5. Mover(s)
    BY <2>3, <2>4 DEF Ready
  <2>. QED BY <2>5
<1>. QED BY <1>1, <1>2, <1>3

(* The slot that works on a path is the only one that moves it.            *)
LEMMA OwnMoves ==
  ASSUME TypeOK, Names, Undoomed, KeysApart, [Next]_vars, NEW s \in Session, ~Ready(s)
  PROVE  \/ /\ part'[req[s].path] = part[req[s].path]
            /\ part[req[s].path] # Nil =>
                 disk'[part[req[s].path]] = disk[part[req[s].path]]
         \/ /\ pc'[s] # pc[s] \/ req'[s] # req[s]
            /\ ChunkOpen(s) \/ ChunkWrite(s) \/ FinishCreate(s) \/ CommitUnlink(s)
<1>1. req[s].path \in Path
  BY DEF TypeOK, RequestsOK
<1>2. ASSUME NEW t \in Session, ~Ready(t), req[t].path = req[s].path PROVE t = s
  BY <1>2, PathsApart, TypeParts
<1>. QED BY <1>1, <1>2, PathMoves


(* What the handler of a chunk may do.                                     *)
LEMMA ChunkSteps ==
  ASSUME TypeOK, [Next]_vars, NEW s \in Session, pc[s] \in ChunkLabels
  PROVE  \/ ChunkOpen(s) \/ ChunkWrite(s) \/ ChunkUpdate(s)
         \/ pc'[s] = "error"
         \/ pc'[s] = pc[s] /\ req'[s] = req[s]
<1>1. ASSUME NEW t \in Session, SessionStep(t), t # s PROVE pc'[s] = pc[s] /\ req'[s] = req[s]
  BY <1>1, OthersUntouched DEF Untouched
<1>2. CASE CreateSession(s) \/ Prune(s) \/ Cancel(s)
  BY <1>2 DEF CreateSession, Prune, Cancel, CancelMark, CancelRemove
<1>3. CASE Abort(s)
  BY <1>3 DEF Abort, Reply, ChunkLabels, TypeOK
<1>4. ~Refuse(s) /\ ~Finish(s)
  BY DEF Refuse, Ready, ChunkLabels, Finish, FinishCheck, FinishCreate, FinishSize, FinishVerify,
     CommitLink, CommitCreateCopy, CommitCopy, CommitUnlink, FinishRecord
<1>5. CASE Chunk(s)
  BY <1>5 DEF Chunk, ChunkCheck, Ready, ChunkLabels
<1>6. CASE (\E d \in Dir : SetDownloadDir(d)) \/ Crash \/ UNCHANGED vars
  BY <1>6 DEF SetDownloadDir, Crash, vars, Ready, ChunkLabels, TypeOK
<1>. QED BY <1>1, <1>2, <1>3, <1>4, <1>5, <1>6, StepCases DEF SessionStep

(* The handler of a chunk writes where the .part file ends, or before.     *)
Follows(s, p) == /\ req[s].path = p /\ req[s].pos <= PartLen(p)
                 /\ pc[s] = "write" => part[p] = req[s].fd

LEMMA FollowStep ==
  ASSUME TypeOK, Names, Undoomed, KeysApart, [Next]_vars, NEW s \in Session, NEW p \in Path,
         pc[s] \in ChunkLabels, Follows(s, p)
  PROVE  /\ pc'[s] \in ChunkLabels => Follows(s, p)'
         /\ pc'[s] = "ok" => req[s].end <= PartLen(p)'
<1>1. ~Ready(s) /\ req[s].end \in Nat
  BY DEF Ready, ChunkLabels, TypeOK, RequestType
<1>2. CASE ChunkOpen(s) \/ ChunkWrite(s) \/ ChunkUpdate(s)
  <2>1. status[s] # "Cancelled"
    BY DEF Undoomed
  <2>. QED BY <1>1, <1>2, <2>1, HandlerKeepsUpload DEF Follows
<1>3. CASE pc'[s] = "error"
  BY <1>3 DEF ChunkLabels
<1>4. CASE pc'[s] = pc[s] /\ req'[s] = req[s]
  <2>1. part'[p] = part[p] /\ (part[p] # Nil => disk'[part[p]] = disk[part[p]])
    BY <1>1, <1>4, OwnMoves DEF Follows
  <2>2. PartLen(p)' = PartLen(p)
    BY <2>1 DEF PartLen
  <2>. QED BY <1>4, <2>1, <2>2 DEF Follows, ChunkLabels
<1>. QED BY <1>2, <1>3, <1>4, ChunkSteps

(* The lengths that a finish has looked at.                                *)
FullLabels == {"verify", "commit", "copy", "unlink"}
EarlyLabels == {"create", "size"}

LEMMA FinishSteps ==
  ASSUME TypeOK, [Next]_vars, NEW s \in Session, ~Ready(s)
  PROVE  /\ pc'[s] \in EarlyLabels => pc[s] \in EarlyLabels
         /\ pc'[s] \in FullLabels => \/ pc[s] \in FullLabels
                                     \/ FinishSize(s) /\ PartLen(req[s].path) = Size[req[s].file]
<1>. USE DEF EarlyLabels, FullLabels
<1>1. ASSUME NEW t \in Session, SessionStep(t), t # s PROVE pc'[s] = pc[s]
  BY <1>1, OthersUntouched DEF Untouched
<1>2. CASE CreateSession(s) \/ Prune(s) \/ Cancel(s)
  BY <1>2 DEF CreateSession, Prune, Cancel, CancelMark, CancelRemove
<1>3. CASE Abort(s) \/ Refuse(s)
  BY <1>3 DEF Abort, Refuse, Reply, TypeOK
<1>4. CASE Chunk(s)
  BY <1>4 DEF Chunk, ChunkCheck, ChunkOpen, ChunkWrite, ChunkUpdate, Reply, TypeOK
<1>5. CASE Finish(s)
  BY <1>5 DEF Finish, FinishCheck, FinishCreate, FinishSize, FinishVerify, CommitLink,
     CommitCreateCopy, CommitCopy, CommitUnlink, FinishRecord, Reply, Goto, TypeOK
<1>6. CASE (\E d \in Dir : SetDownloadDir(d)) \/ Crash \/ UNCHANGED vars
  BY <1>6 DEF SetDownloadDir, Crash, vars, TypeOK
<1>. QED BY <1>1, <1>2, <1>3, <1>4, <1>5, <1>6, StepCases DEF SessionStep

(* A finish that has compared the lengths: they stay equal until it ends.  *)
CommitsFull == \A s \in Session : pc[s] \in FullLabels =>
                 PartLen(req[s].path) = Size[req[s].file]

LEMMA CommitsFullStep ==
  ASSUME TypeOK, Names, Undoomed, KeysApart, CommitsFull, [Next]_vars,
         NEW s \in Session, ~Ready(s), pc'[s] \in FullLabels, NEW p \in Path, p = req[s].path
  PROVE  req'[s].path = p /\ PartLen(p)' = Size[req'[s].file]
<1>1. ~Ready(s)'
  BY DEF FullLabels, Ready
<1>2. req'[s].path = req[s].path /\ req'[s].file = req[s].file
  BY <1>1, InFlightMoves
<1>3. PartLen(p) = Size[req[s].file]
  BY FinishSteps DEF CommitsFull
<1>4. ~ChunkOpen(s) /\ ~ChunkWrite(s) /\ ~FinishCreate(s) /\ ~CommitUnlink(s)
  BY DEF ChunkOpen, ChunkWrite, FinishCreate, CommitUnlink, Goto, Reply, FullLabels, TypeOK
<1>5. part'[p] = part[p] /\ (part[p] # Nil => disk'[part[p]] = disk[part[p]])
  BY <1>4, OwnMoves
<1>. QED BY <1>2, <1>3, <1>5 DEF PartLen

(* No .part file has a hole.                                               *)
Solid == \A p \in Path : part[p] # Nil => disk[part[p]].good = 0 .. (disk[part[p]].len - 1)

LEMMA SolidStep ==
  ASSUME "corrupt" \notin Faults, TypeOK, Names, Undoomed, Solid, [Next]_vars,
         \A s \in Session : pc[s] = "write" => Follows(s, req[s].path)
  PROVE  Solid'
<1>. SUFFICES ASSUME NEW p \in Path, part'[p] # Nil
              PROVE  disk'[part'[p]].good = 0 .. (disk'[part'[p]].len - 1)
  BY DEF Solid
<1>1. CASE part'[p] # part[p]
  <2>1. disk'[part'[p]] = Empty
    BY <1>1, PartMoves
  <2>. QED BY <2>1 DEF Empty
<1>2. CASE part'[p] = part[p] /\ disk'[part[p]] = disk[part[p]]
  BY <1>2 DEF Solid
<1>3. CASE part'[p] = part[p] /\ disk'[part[p]] # disk[part[p]]
  <2>1. part[p] \in Inode /\ ~(part[p] \in Free) /\ disk \in [Inode -> Contents]
    BY <1>3 DEF Free, Referenced, TypeOK
  <2>2. PICK s \in Session : (ChunkWrite(s) \/ CommitCopy(s)) /\ req[s].fd = part[p]
    BY <1>3, <2>1, DiskMoves
  <2>3. ChunkWrite(s) /\ pc[s] = "write" /\ req[s].path = p
    BY <2>2 DEF ChunkWrite, CommitCopy, Names
  <2>4. req[s].pos \in Nat /\ req[s].pos <= disk[part[p]].len
    BY <1>3, <2>3 DEF Follows, PartLen, TypeOK, RequestType
  <2>5. disk' = [disk EXCEPT ![part[p]] = WithBlock(@, req[s].pos, TRUE)]
    BY <2>2, <2>3 DEF ChunkWrite
  <2>6. disk'[part[p]] = WithBlock(disk[part[p]], req[s].pos, TRUE)
    BY <2>1, <2>5
  <2>7. disk[part[p]].len \in Nat /\ disk[part[p]].good = 0 .. (disk[part[p]].len - 1)
    BY <1>3, <2>1 DEF Solid, Contents
  <2>8. disk'[part[p]].good = disk[part[p]].good \cup {req[s].pos}
    BY <2>6 DEF WithBlock
  <2>9. disk'[part[p]].len = IF req[s].pos < disk[part[p]].len THEN disk[part[p]].len
                             ELSE req[s].pos + 1
    BY <2>6 DEF WithBlock
  <2>. QED BY <1>3, <2>4, <2>7, <2>8, <2>9
<1>. QED BY <1>1, <1>2, <1>3


LEMMA UndoomedStep ==
  ASSUME TypeOK, Undoomed, [Next]_vars, \A s \in Session : status'[s] # "Cancelled"
  PROVE  Undoomed'
<1>. SUFFICES ASSUME NEW s \in Session PROVE doomed'[s] = {}
  BY DEF Undoomed
<1>1. ASSUME NEW t \in Session, SessionStep(t), t # s PROVE doomed'[s] = doomed[s]
  BY <1>1, OthersUntouched DEF Untouched
<1>2. CASE CreateSession(s) \/ Refuse(s) \/ Prune(s) \/ Abort(s)
  BY <1>2 DEF CreateSession, Refuse, Prune, Abort, Undoomed
<1>3. ~Cancel(s)
  BY DEF Cancel, CancelMark, CancelRemove, TypeOK, Undoomed
<1>4. CASE Chunk(s)
  BY <1>4 DEF Chunk, ChunkCheck, ChunkOpen, ChunkWrite, ChunkUpdate, Undoomed
<1>5. CASE Finish(s)
  BY <1>5 DEF Finish, FinishCheck, FinishCreate, FinishSize, FinishVerify, CommitLink,
     CommitCreateCopy, CommitCopy, CommitUnlink, FinishRecord, Undoomed
<1>6. CASE (\E d \in Dir : SetDownloadDir(d)) \/ Crash \/ UNCHANGED vars
  BY <1>6 DEF SetDownloadDir, Crash, vars, Undoomed
<1>. QED BY <1>1, <1>2, <1>3, <1>4, <1>5, <1>6, StepCases DEF SessionStep, Undoomed

(* How the task comes to its offset, in steps that leave the receiver      *)
(* alone.                                                                  *)
LEMMA SendingMoves ==
  ASSUME TransferTypes, [TransferNext]_transferVars, ~Begin, ~Arrive, UNCHANGED vars,
         ~handed', Sending'
  PROVE  /\ idx' = idx
         /\ \/ Status /\ at = "status" /\ offset' = PartLen(PathOf(S!Current))
            \/ /\ Answer /\ handed /\ at = "chunk" /\ pc[Token] = "ok"
               /\ offset' = offset + S!ChunkLen
            \/ ~handed /\ Sending /\ offset' = offset
<1>1. CASE Status
  BY <1>1 DEF Status, S!StatusAnswered, S!SendFailed, S!Goto, S!End, Sending
<1>2. CASE Answer
  BY <1>2 DEF Answer, S!ChunkAnswered, S!FinishAnswered, S!SendFailed, S!Goto, S!End, Sending
<1>3. ~Lose
  BY DEF Lose, S!StatusAnswered, S!ChunkAnswered, S!FinishAnswered, S!TellAnswered,
     S!SendFailed, S!Goto, S!End, Sending
<1>4. CASE ~Status /\ ~Answer
  <2>1. Sending /\ idx' = idx /\ offset' = offset
    BY <1>3, <1>4 DEF TransferNext, Task, SenderUser, CancelAnswered, Handlers,
       Trouble, CancelArrives, S!Local, S!NextFile, S!OpenFile, S!LoopHead,
       S!CreateNotified, S!PauseEnds, S!Recheck, S!SendChunk, S!FileSent, S!Pause, S!Resume,
       S!Cancel, S!Notified, S!NotifyWaiters, S!CommandAnswered, S!TellAnswered,
       S!SourceError, S!SendFailed, S!Goto, S!End, S!Sleep, S!taskVars, senderVars,
       transferVars, Sending
  <2>2. handed' = handed
    BY <1>3, <1>4, BackgroundKeeps DEF Background, TransferNext, Task, SenderUser,
       CancelAnswered, linkVars
  <2>. QED BY <2>1, <2>2
<1>. QED BY <1>1, <1>2, <1>3, <1>4

(* The chunk handler of every session follows its .part file.              *)
WritersFollow == \A s \in Session : pc[s] \in ChunkLabels => Follows(s, req[s].path)

(* The task sends from where the .part file ends, or before, and what a    *)
(* finish left behind by an earlier attempt may remove is sent as a whole. *)
OffsetFollows ==
  attempt > 0 /\ ~handed /\ Sending =>
    /\ offset <= PartLen(PathOf(S!Current)) \/ offset = Size[S!Current]
    /\ \A s \in Session : InFlight(s, KeyOf[S!Current]) =>
         /\ pc[s] \in EarlyLabels =>
              offset = PartLen(PathOf(S!Current)) \/ offset = Size[S!Current]
         /\ pc[s] \in FullLabels => offset = Size[S!Current]

(* The chunk that is out is the only request for its .part file, and the   *)
(* file reaches its end when it is acknowledged.                           *)
ChunkFollows ==
  handed /\ at = "chunk" /\ pc[Token] \in {"open", "write", "ok"} =>
    /\ \A s \in Session : s # Token => ~InFlight(s, KeyOf[S!Current])
    /\ pc[Token] \in ChunkLabels => /\ req[Token].path = PathOf(S!Current)
                                    /\ req[Token].end = offset + S!ChunkLen
    /\ pc[Token] = "ok" => offset + S!ChunkLen <= PartLen(PathOf(S!Current))

(* What the steps of the receiver need, and keep.                          *)
Tidy == /\ Names /\ Undoomed /\ KeysApart /\ OneFolder /\ SessionsOK
        /\ WritersFollow /\ CommitsFull /\ Solid

(* Nobody starts to work on a file but with a request of the task.         *)
LEMMA BackgroundInFlight ==
  ASSUME TypeOK, Background, [Next]_vars, NEW s \in Session, NEW k, InFlight(s, k)'
  PROVE  InFlight(s, k) /\ req'[s].file = req[s].file /\ req'[s].path = req[s].path
<1>1. ~Ready(s)' /\ KeyOf[req'[s].file] = k
  BY DEF InFlight
<1>2. ~Ready(s)
  BY <1>1, BackgroundKeepsReady
<1>. QED BY <1>1, <1>2, InFlightMoves DEF InFlight

(* The one who works on a file's .part works on that path.                 *)
LEMMA InFlightPath ==
  ASSUME TypeOK, OneFolder, NEW s \in Session, NEW f \in File, InFlight(s, KeyOf[f])
  PROVE  req[s].path = PathOf(f) /\ Size[req[s].file] = Size[f]
<1>1. /\ req[s].path \in Path /\ req[s].path[2] = KeyOf[f] /\ req[s].file \in File
      /\ KeyOf[req[s].file] = KeyOf[f] /\ req[s].path[1] = dir
  BY DEF InFlight, TypeOK, RequestsOK, OneFolder
<1>2. Size[req[s].file] = Size[f]
  BY <1>1, KeyAssumption
<1>. QED BY <1>1, <1>2 DEF PathOf, Path


(* How a step of the handler that works on a path changes its length.      *)
LEMMA MoverLengths ==
  ASSUME TypeOK, NEW s \in Session, ~Ready(s), NEW p \in Path, req[s].path = p
  PROVE  /\ ChunkOpen(s) \/ FinishCreate(s) => PartLen(p)' = PartLen(p)
         /\ ChunkWrite(s) => PartLen(p) <= PartLen(p)'
<1>1. /\ part \in [Path -> Inode \cup {Nil}] /\ disk \in [Inode -> Contents]
  BY DEF TypeOK
<1>2. ASSUME ChunkOpen(s) \/ FinishCreate(s) PROVE PartLen(p)' = PartLen(p)
  <2>1. \/ UNCHANGED <<part, disk>>
        \/ part[p] = Nil /\ \E i \in Free : /\ part' = [part EXCEPT ![p] = i]
                                            /\ disk' = [disk EXCEPT ![i] = Empty]
    BY <1>2 DEF ChunkOpen, FinishCreate
  <2>2. CASE UNCHANGED <<part, disk>>
    BY <2>2 DEF PartLen
  <2>3. ASSUME part[p] = Nil, NEW i \in Free, part' = [part EXCEPT ![p] = i],
               disk' = [disk EXCEPT ![i] = Empty]
        PROVE  PartLen(p)' = PartLen(p)
    <3>1. part'[p] = i /\ i \in Inode /\ i # Nil /\ disk'[i] = Empty
      BY <1>1, <2>3, NilAssumption DEF Free
    <3>. QED BY <2>3, <3>1 DEF PartLen, Empty
  <2>. QED BY <2>1, <2>2, <2>3
<1>3. ASSUME ChunkWrite(s) PROVE PartLen(p) <= PartLen(p)'
  <2>1. part' = part /\ req[s].pos \in Nat /\ req[s].fd \in Inode
    BY <1>3 DEF ChunkWrite, TypeOK, RequestType, RequestsOK
  <2>2. PICK ok \in BOOLEAN :
          disk' = [disk EXCEPT ![req[s].fd] = WithBlock(@, req[s].pos, ok)]
    BY <1>3 DEF ChunkWrite
  <2>3. \A i \in Inode : disk[i].len \in Nat /\ disk[i].len <= disk'[i].len
    <3>. SUFFICES ASSUME NEW i \in Inode PROVE disk[i].len \in Nat /\ disk[i].len <= disk'[i].len
      OBVIOUS
    <3>1. disk[i].len \in Nat
      BY <1>1 DEF Contents
    <3>2. CASE i = req[s].fd
      <4>1. disk'[i] = WithBlock(disk[i], req[s].pos, ok)
        BY <1>1, <2>1, <2>2, <3>2
      <4>. QED BY <2>1, <3>1, <4>1 DEF WithBlock
    <3>3. CASE i # req[s].fd
      BY <1>1, <2>2, <3>1, <3>3
    <3>. QED BY <3>2, <3>3
  <2>4. part[p] = Nil \/ part[p] \in Inode
    BY <1>1
  <2>. QED BY <2>1, <2>3, <2>4 DEF PartLen
<1>. QED BY <1>2, <1>3

(* A free slot enters a chunk or a finish at its beginning.                *)
LEMMA Entering ==
  ASSUME TypeOK, [Next]_vars, NEW s \in Session, Ready(s)
  PROVE  /\ pc'[s] \notin FullLabels
         /\ pc'[s] \in ChunkLabels => \E f \in File : \E off, n : ChunkCheck(s, f, off, n)
<1>. USE DEF FullLabels, ChunkLabels, Ready
<1>1. ASSUME NEW t \in Session, SessionStep(t), t # s PROVE pc'[s] = pc[s]
  BY <1>1, OthersUntouched DEF Untouched
<1>2. CASE CreateSession(s) \/ Prune(s) \/ Cancel(s)
  BY <1>2 DEF CreateSession, Prune, Cancel, CancelMark, CancelRemove
<1>3. CASE Abort(s) \/ Refuse(s)
  BY <1>3 DEF Abort, Refuse, Reply, TypeOK
<1>4. CASE Chunk(s)
  BY <1>4 DEF Chunk, ChunkCheck, ChunkOpen, ChunkWrite, ChunkUpdate, TypeOK
<1>5. CASE Finish(s)
  BY <1>5 DEF Finish, FinishCheck, FinishCreate, FinishSize, FinishVerify, CommitLink,
     CommitCreateCopy, CommitCopy, CommitUnlink, FinishRecord, TypeOK
<1>6. CASE (\E d \in Dir : SetDownloadDir(d)) \/ Crash \/ UNCHANGED vars
  BY <1>6 DEF SetDownloadDir, Crash, vars, TypeOK
<1>. QED BY <1>1, <1>2, <1>3, <1>4, <1>5, <1>6, StepCases DEF SessionStep

(* The chunk request that arrives starts where the .part file ends, or     *)
(* before.                                                                 *)
LEMMA ArrivesInside ==
  ASSUME TransferTypes, OffsetFollows, Arrive, at = "chunk"
  PROVE  /\ S!Current \in File /\ offset \in Nat /\ S!ChunkLen \in Nat
         /\ offset <= PartLen(PathOf(S!Current))
<1>1. attempt > 0 /\ ~handed
  BY DEF Arrive
<1>2. idx \in 1 .. Len(Queue) /\ offset < Size[S!Current] /\ offset \in Nat
  BY BatchAssumption DEF TransferTypes, S!SenderTypeOK
<1>3. S!Current \in File /\ Size[S!Current] \in Nat /\ S!ChunkLen \in Nat
  BY <1>2, CurrentTyped, ChunkForward
<1>. QED BY <1>1, <1>2, <1>3 DEF OffsetFollows, Sending

LEMMA TidyStep ==
  ASSUME "overlap" \notin Faults, "chdir" \notin Faults, "corrupt" \notin Faults, NoCancels,
         TransferTypes, Uncancelled, Tidy, OffsetFollows, [TransferNext]_transferVars
  PROVE  Tidy'
<1>1. TypeOK /\ [Next]_vars /\ SlotsOK
  BY StepIsReceiver, TypeParts DEF TransferTypes
<1>2. Names' /\ KeysApart' /\ OneFolder' /\ SessionsOK'
  BY <1>1, NamesStep, KeysApartStep, OneFolderStep, SessionsOKStep DEF Tidy
<1>3. Undoomed'
  <2>1. \A s \in Session : status'[s] # "Cancelled"
    BY UncancelledStep DEF Uncancelled
  <2>. QED BY <1>1, <2>1, UndoomedStep DEF Tidy
<1>4. Solid'
  <2>1. \A s \in Session : pc[s] = "write" => Follows(s, req[s].path)
    BY DEF Tidy, WritersFollow, ChunkLabels
  <2>. QED BY <1>1, <2>1, SolidStep DEF Tidy
<1>5. ASSUME NEW s \in Session, pc'[s] \in FullLabels
      PROVE  PartLen(req[s].path)' = Size[req'[s].file]
  <2>1. ~Ready(s)
    BY <1>1, <1>5, Entering
  <2>2. PICK p \in Path : p = req[s].path
    BY <1>1, <2>1 DEF TypeOK, RequestsOK
  <2>3. req'[s].path = p /\ PartLen(p)' = Size[req'[s].file]
    BY <1>1, <1>5, <2>1, <2>2, CommitsFullStep DEF Tidy
  <2>. QED BY <2>3 DEF PartLen
<1>6. ASSUME NEW s \in Session, pc'[s] \in ChunkLabels
      PROVE  Follows(s, req[s].path)'
  <2>1. CASE ~Ready(s)
    <3>1. pc[s] \in ChunkLabels
      <4>1. ~Ready(s)' /\ pc'[s] \notin FinishLabels
        BY <1>6 DEF Ready, ChunkLabels, FinishLabels
      <4>2. pc[s] \notin FinishLabels
        BY <1>1, <2>1, <4>1, InFlightMoves
      <4>. QED BY <1>1, <2>1, <4>2 DEF TypeOK, Label, Ready, ChunkLabels, FinishLabels
    <3>2. PICK p \in Path : p = req[s].path
      BY <1>1, <2>1 DEF TypeOK, RequestsOK
    <3>3. Follows(s, p)'
      BY <1>1, <1>6, <3>1, <3>2, FollowStep DEF Tidy, WritersFollow
    <3>. QED BY <3>3 DEF Follows, PartLen
  <2>2. CASE Ready(s)
    <3>1. PICK f, off, n : f \in File /\ ChunkCheck(s, f, off, n)
      BY <1>1, <1>6, <2>2, Entering
    <3>2. pc'[s] = "open" /\ pc[s] # "open" /\ UNCHANGED <<dir, part, disk>>
          /\ req'[s].path = PathOf(f) /\ req'[s].pos = off
      BY <1>1, <2>2, <3>1 DEF ChunkCheck, Request, TypeOK, fileVars, Ready
    <3>3. Arrive
      <4>1. ~Background
        BY <1>1, <1>6, <2>2, BackgroundKeepsReady DEF Ready, ChunkLabels
      <4>2. ~Begin
        <5>1. ASSUME NEW t, CreateSession(t) PROVE FALSE
          BY <3>2, <5>1 DEF CreateSession
        <5>. QED BY <5>1 DEF Begin
      <4>3. ~Task /\ ~SenderUser /\ ~Status /\ ~Answer /\ ~Lose /\ ~CancelAnswered
        BY <3>2 DEF Task, SenderUser, Status, Answer, Lose, CancelAnswered, vars
      <4>. QED BY <4>1, <4>2, <4>3 DEF TransferNext, Background
    <3>4. Token \in Session
      BY <3>3, TokenTyped DEF Arrive, TransferTypes, LinkOK, LinkTypeOK
    <3>5. s = Token /\ at = "chunk" /\ off = offset /\ PathOf(f) = PathOf(S!Current)
      <4>1. CASE at = "chunk" /\ ChunkCheck(Token, S!Current, offset, S!ChunkLen)
        <5>1. s = Token
          BY <1>1, <3>2, <3>4, <4>1 DEF ChunkCheck, TypeOK
        <5>. QED BY <1>1, <3>2, <4>1, <5>1 DEF ChunkCheck, Request, TypeOK
      <4>2. ~FinishCheck(Token, S!Current) /\ ~Refuse(Token)
        BY <1>1, <3>2, <3>4 DEF FinishCheck, Refuse, Reply, TypeOK
      <4>. QED BY <3>3, <4>1, <4>2 DEF Arrive
    <3>6. offset <= PartLen(PathOf(S!Current))
      BY <3>3, <3>5, ArrivesInside
    <3>. QED BY <3>2, <3>5, <3>6 DEF Follows, PartLen
  <2>. QED BY <2>1, <2>2
<1>. QED BY <1>2, <1>3, <1>4, <1>5, <1>6 DEF Tidy, WritersFollow, CommitsFull


(* The steps in which the receiver moves and the sender does not.          *)
LEMMA BackgroundKeepsOffset ==
  ASSUME "chdir" \notin Faults, TransferTypes, LoneInv, Tidy, OffsetFollows,
         [TransferNext]_transferVars, Background, UNCHANGED <<senderVars, linkVars>>
  PROVE  OffsetFollows'
<1>1. /\ TypeOK /\ [Next]_vars /\ dir' = dir /\ Token' = Token /\ attempt' = attempt
      /\ handed' = handed /\ at' = at /\ offset' = offset /\ idx' = idx
      /\ S!Current' = S!Current
  BY StepIsReceiver, DirStays DEF TransferTypes, senderVars, linkVars, Token, S!Current
<1>. SUFFICES ASSUME attempt > 0, ~handed, Sending PROVE OffsetFollows'
  BY <1>1 DEF OffsetFollows, Sending
<1>2. PICK f \in File : f = S!Current /\ Size[f] \in Nat /\ offset \in Nat
  BY BatchAssumption, CurrentTyped DEF TransferTypes, S!SenderTypeOK, Sending
<1>3. PICK p \in Path : p = PathOf(f) /\ p[2] = KeyOf[f] /\ p = PathOf(S!Current)'
  BY <1>1, <1>2, PathOfType DEF TypeOK, PathOf
<1>4. /\ offset <= PartLen(p) \/ offset = Size[f]
      /\ \A s \in Session : InFlight(s, KeyOf[f]) =>
           /\ pc[s] \in EarlyLabels => offset = PartLen(p) \/ offset = Size[f]
           /\ pc[s] \in FullLabels => offset = Size[f]
  BY <1>2, <1>3 DEF OffsetFollows
<1>5. \A q \in Path : PartLen(q) \in Nat
  BY <1>1 DEF PartLen, TypeOK, Contents
<1>6. \A q \in Path : PartLen(q)' \in Nat
  BY <1>1, TypeStep DEF PartLen, TypeOK, Contents
<1>7. ASSUME NEW s \in Session, InFlight(s, KeyOf[f])'
      PROVE  /\ InFlight(s, KeyOf[f]) /\ ~Ready(s) /\ req[s].path = p
             /\ pc'[s] \in EarlyLabels => pc[s] \in EarlyLabels
             /\ pc'[s] \in FullLabels =>
                  \/ pc[s] \in FullLabels
                  \/ pc[s] \in EarlyLabels /\ PartLen(p) = Size[f]
  <2>1. InFlight(s, KeyOf[f]) /\ ~Ready(s)
    BY <1>1, <1>7, BackgroundInFlight DEF InFlight
  <2>2. req[s].path = p /\ Size[req[s].file] = Size[f]
    BY <1>1, <1>3, <2>1, InFlightPath DEF Tidy
  <2>. QED
    BY <1>1, <2>1, <2>2, FinishSteps DEF FinishSize, EarlyLabels
<1>8. ASSUME NEW s \in Session, NEW t \in Session, ~Ready(s), ~Ready(t),
             req[s].path = p, req[t].path = p
      PROVE  s = t
  BY <1>1, <1>8, PathsApart, TypeParts DEF Tidy
<1>9. /\ offset <= PartLen(p)' \/ offset = Size[f]
      /\ \A s \in Session : InFlight(s, KeyOf[f])' =>
           /\ pc'[s] \in EarlyLabels => offset = PartLen(p)' \/ offset = Size[f]
           /\ pc'[s] \in FullLabels => offset = Size[f]
  <2>1. CASE PartLen(p)' = PartLen(p)
    BY <1>4, <1>7, <2>1
  <2>2. ASSUME NEW t \in Session, ~Ready(t), req[t].path = p, ChunkWrite(t)
        PROVE  /\ offset <= PartLen(p)' \/ offset = Size[f]
               /\ \A s \in Session : InFlight(s, KeyOf[f])' =>
                    /\ pc'[s] \in EarlyLabels => offset = PartLen(p)' \/ offset = Size[f]
                    /\ pc'[s] \in FullLabels => offset = Size[f]
    <3>1. PartLen(p) <= PartLen(p)'
      BY <1>1, <2>2, MoverLengths
    <3>2. pc[t] \notin EarlyLabels /\ pc[t] \notin FullLabels
      BY <2>2 DEF ChunkWrite, EarlyLabels, FullLabels
    <3>. QED BY <1>2, <1>4, <1>5, <1>6, <1>7, <1>8, <2>2, <3>1, <3>2
  <2>3. ASSUME NEW t \in Session, ~Ready(t), req[t].path = p, CommitUnlink(t)
        PROVE  offset = Size[f]
    <3>1. pc[t] \in FullLabels
      BY <2>3 DEF CommitUnlink, FullLabels
    <3>2. InFlight(t, KeyOf[f])
      BY <1>1, <1>3, <2>3 DEF InFlight, TypeOK, RequestsOK
    <3>. QED BY <1>4, <3>1, <3>2
  <2>4. CASE part'[p] = part[p] /\ (part[p] # Nil => disk'[part[p]] = disk[part[p]])
    <3>1. PartLen(p)' = PartLen(p)
      BY <2>4 DEF PartLen
    <3>. QED BY <2>1, <3>1
  <2>5. ASSUME NEW t \in Session, ~Ready(t), req[t].path = p, ChunkOpen(t) \/ FinishCreate(t)
        PROVE  PartLen(p)' = PartLen(p)
    BY <1>1, <2>5, MoverLengths
  <2>. QED BY <1>1, <2>1, <2>2, <2>3, <2>4, <2>5, PathMoves DEF Tidy
<1>10. \A s \in Session : InFlight(s, KeyOf[S!Current])' <=> InFlight(s, KeyOf[f])'
  BY <1>1, <1>2 DEF InFlight
<1>11. PartLen(PathOf(S!Current))' = PartLen(p)'
  BY <1>3 DEF PartLen
<1>. QED BY <1>1, <1>2, <1>9, <1>10, <1>11 DEF OffsetFollows

LEMMA OffsetFollowsStep ==
  ASSUME "chdir" \notin Faults, TransferTypes, LoneInv, Tidy, OffsetFollows, ChunkFollows,
         [TransferNext]_transferVars
  PROVE  OffsetFollows'
<1>. SUFFICES ASSUME attempt' > 0, ~handed', Sending' PROVE OffsetFollows'
  BY DEF OffsetFollows
<1>1. ~Begin /\ ~Arrive
  BY DEF Begin, Arrive, Sending
<1>2. CASE UNCHANGED vars
  <2>1. idx' = idx /\ S!Current' = S!Current /\ attempt' = attempt /\ Token' = Token
    BY <1>1, <1>2, SendingMoves, SameAttempt DEF S!Current
  <2>2. /\ PathOf(S!Current)' = PathOf(S!Current)
        /\ PartLen(PathOf(S!Current))' = PartLen(PathOf(S!Current))
        /\ pc' = pc
        /\ \A s \in Session : InFlight(s, KeyOf[S!Current])' <=> InFlight(s, KeyOf[S!Current])
    BY <1>2, <2>1 DEF vars, PathOf, PartLen, InFlight, Ready
  <2>3. TypeOK /\ S!Current \in File
    BY BatchAssumption, LinkStep, <2>1, CurrentTyped
       DEF TransferTypes, S!SenderTypeOK, Sending, S!Current
  <2>4. CASE Status /\ at = "status" /\ offset' = PartLen(PathOf(S!Current))
    <3>1. offset' \in Nat
      BY LinkStep DEF S!SenderTypeOK
    <3>2. ASSUME NEW s \in Session, InFlight(s, KeyOf[S!Current]), pc[s] \in FullLabels
          PROVE  offset' = Size[S!Current]
      BY <2>3, <2>4, <3>2, InFlightPath DEF Tidy, CommitsFull
    <3>. QED BY <2>1, <2>2, <2>4, <3>1, <3>2 DEF OffsetFollows
  <2>5. CASE /\ Answer /\ handed /\ at = "chunk" /\ pc[Token] = "ok"
             /\ offset' = offset + S!ChunkLen
    <3>1. \A s \in Session : ~InFlight(s, KeyOf[S!Current])
      BY <2>5 DEF ChunkFollows, InFlight, Ready
    <3>2. offset' <= PartLen(PathOf(S!Current))
      BY <2>5 DEF ChunkFollows
    <3>. QED BY <2>1, <2>2, <3>1, <3>2 DEF OffsetFollows
  <2>6. CASE ~handed /\ Sending /\ offset' = offset
    BY <2>1, <2>2, <2>6 DEF OffsetFollows
  <2>. QED BY <1>1, <1>2, <2>4, <2>5, <2>6, SendingMoves
<1>3. CASE ~UNCHANGED vars
  <2>1. Background
    BY <1>1, <1>3 DEF TransferNext, Background, Task, SenderUser, Status, Answer, Lose,
       CancelAnswered
  <2>. QED BY <1>3, <2>1, BackgroundKeeps, BackgroundKeepsOffset
<1>. QED BY <1>2, <1>3


LEMMA BackgroundKeepsChunk ==
  ASSUME "chdir" \notin Faults, TransferTypes, HandedOK, Tidy, ChunkFollows,
         [TransferNext]_transferVars, Background, UNCHANGED <<senderVars, linkVars>>
  PROVE  ChunkFollows'
<1>1. /\ TypeOK /\ [Next]_vars /\ dir' = dir /\ Token' = Token
      /\ handed' = handed /\ at' = at /\ offset' = offset /\ idx' = idx
      /\ S!Current' = S!Current /\ S!ChunkLen' = S!ChunkLen
  BY StepIsReceiver, DirStays
     DEF TransferTypes, senderVars, linkVars, Token, S!Current, S!ChunkLen
<1>. SUFFICES ASSUME handed, at = "chunk", pc'[Token] \in {"open", "write", "ok"}
              PROVE  ChunkFollows'
  BY <1>1 DEF ChunkFollows
<1>2. Token \in Session
  BY TokenTyped DEF TransferTypes, LinkOK, LinkTypeOK
<1>3. PICK f \in File : f = S!Current /\ offset \in Nat /\ S!ChunkLen \in Nat
  BY BatchAssumption, CurrentTyped, ChunkForward DEF TransferTypes, S!SenderTypeOK
<1>4. PICK p \in Path : p = PathOf(f) /\ p[2] = KeyOf[f] /\ p = PathOf(S!Current)'
  BY <1>1, <1>3, PathOfType DEF TypeOK, PathOf
<1>5. pc[Token] \in {"open", "write", "ok"}
  <2>1. CASE Ready(Token)
    <3>1. pc'[Token] = "ok"
      <4>1. pc'[Token] \in {"idle", "ok", "error", "cancelled"}
        BY <1>1, <1>2, <2>1, BackgroundKeepsReady DEF Ready
      <4>. QED BY <4>1
    <3>. QED BY <1>1, <1>2, <2>1, <3>1, OkMoves DEF FinishRecord, Ready
  <2>2. CASE ~Ready(Token)
    BY <2>2 DEF HandedOK, ChunkLabels
  <2>. QED BY <2>1, <2>2
<1>6. /\ \A s \in Session : s # Token => ~InFlight(s, KeyOf[f])
      /\ pc[Token] \in ChunkLabels => req[Token].path = p /\ req[Token].end = offset + S!ChunkLen
      /\ pc[Token] = "ok" => offset + S!ChunkLen <= PartLen(p)
  BY <1>3, <1>4, <1>5 DEF ChunkFollows
<1>7. \A s \in Session : s # Token => ~InFlight(s, KeyOf[f])'
  BY <1>1, <1>6, BackgroundInFlight
<1>8. CASE pc[Token] \in ChunkLabels
  <2>1. Follows(Token, p)
    BY <1>2, <1>6, <1>8 DEF Tidy, WritersFollow
  <2>2. /\ pc'[Token] \in ChunkLabels => Follows(Token, p)'
        /\ pc'[Token] = "ok" => req[Token].end <= PartLen(p)'
    BY <1>1, <1>2, <1>8, <2>1, FollowStep DEF Tidy
  <2>3. pc'[Token] \in ChunkLabels => req'[Token].path = p /\ req'[Token].end = offset + S!ChunkLen
    <3>1. pc'[Token] \in ChunkLabels => ~Ready(Token) /\ pc'[Token] \notin {"idle", "ok", "error", "cancelled"}
      BY <1>8 DEF Ready, ChunkLabels
    <3>. QED BY <1>1, <1>2, <1>6, <1>8, <3>1, InFlightMoves DEF Ready
  <2>. QED BY <1>1, <1>3, <1>4, <1>6, <1>7, <1>8, <2>2, <2>3 DEF ChunkFollows, PartLen, InFlight, Ready
<1>9. CASE pc[Token] = "ok"
  <2>1. pc'[Token] = "ok"
    <3>1. pc'[Token] \in {"idle", "ok", "error", "cancelled"}
      BY <1>1, <1>2, <1>9, BackgroundKeepsReady DEF Ready
    <3>. QED BY <3>1
  <2>2. ASSUME NEW t \in Session, ~Ready(t), req[t].path = p PROVE FALSE
    <3>1. InFlight(t, KeyOf[f])
      BY <1>1, <1>4, <2>2 DEF InFlight, TypeOK, RequestsOK
    <3>2. t # Token
      BY <1>9, <2>2 DEF Ready
    <3>. QED BY <1>6, <3>1, <3>2
  <2>3. PartLen(p)' = PartLen(p)
    BY <1>1, <2>2, PathMoves DEF Tidy, PartLen
  <2>4. offset + S!ChunkLen <= PartLen(p)'
    BY <1>6, <1>9, <2>3
  <2>. QED BY <1>1, <1>3, <1>4, <1>7, <2>1, <2>4 DEF ChunkFollows, ChunkLabels, PartLen, InFlight, Ready
<1>. QED BY <1>5, <1>8, <1>9 DEF ChunkLabels

LEMMA ChunkFollowsStep ==
  ASSUME "overlap" \notin Faults, "chdir" \notin Faults, TransferTypes, HandedOK, Tidy,
         OffsetFollows, ChunkFollows, [TransferNext]_transferVars
  PROVE  ChunkFollows'
<1>. SUFFICES ASSUME handed', at' = "chunk", pc'[Token'] \in {"open", "write", "ok"}
              PROVE  ChunkFollows'
  BY DEF ChunkFollows
<1>1. ~Begin /\ TypeOK
  BY DEF Begin, TransferTypes
<1>2. CASE Arrive
  <2>1. /\ attempt > 0 /\ Token' = Token /\ at' = at /\ offset' = offset
        /\ S!Current' = S!Current /\ S!ChunkLen' = S!ChunkLen
    BY <1>2 DEF Arrive, senderVars, Token, S!Current, S!ChunkLen
  <2>2. Token \in Session
    BY <2>1, TokenTyped DEF TransferTypes, LinkOK, LinkTypeOK
  <2>3. ~Refuse(Token)
    BY <1>1, <2>1, <2>2 DEF Refuse, Reply, TypeOK
  <2>4. ChunkCheck(Token, S!Current, offset, S!ChunkLen)
    BY <1>2, <2>1, <2>3 DEF Arrive
  <2>5. /\ \A s \in Session : s # Token => pc'[s] = pc[s] /\ req'[s] = req[s]
        /\ pc'[Token] = "open" /\ req'[Token].path = PathOf(S!Current)
        /\ req'[Token].end = offset + S!ChunkLen /\ dir' = dir
    BY <1>1, <2>2, <2>4 DEF ChunkCheck, Request, TypeOK
  <2>6. \A s \in Session : ~InFlight(s, KeyOf[S!Current])
    BY <2>4 DEF ChunkCheck, MayStart
  <2>7. \A s \in Session : s # Token => ~InFlight(s, KeyOf[S!Current])'
    BY <2>1, <2>5, <2>6 DEF InFlight, Ready
  <2>8. PathOf(S!Current)' = PathOf(S!Current)
    BY <2>1, <2>5 DEF PathOf
  <2>. QED BY <2>1, <2>5, <2>7, <2>8 DEF ChunkFollows
<1>3. CASE ~Arrive /\ UNCHANGED vars
  <2>1. handed
    BY <1>1, <1>3, BackgroundKeeps DEF Background, TransferNext, Task, SenderUser, Status,
       Answer, Lose, CancelAnswered, linkVars
  <2>2. UNCHANGED <<at, idx, offset>> /\ Token' = Token
    BY <1>1, <2>1, HandedStays, SameAttempt
  <2>3. /\ S!Current' = S!Current /\ S!ChunkLen' = S!ChunkLen /\ pc' = pc /\ req' = req
        /\ PathOf(S!Current)' = PathOf(S!Current)
    BY <1>3, <2>2 DEF S!Current, S!ChunkLen, vars, PathOf
  <2>4. /\ PartLen(PathOf(S!Current))' = PartLen(PathOf(S!Current))
        /\ \A s \in Session : InFlight(s, KeyOf[S!Current])' <=> InFlight(s, KeyOf[S!Current])
    BY <1>3, <2>3 DEF vars, PartLen, InFlight, Ready
  <2>. QED BY <2>1, <2>2, <2>3, <2>4 DEF ChunkFollows
<1>4. CASE ~Arrive /\ ~UNCHANGED vars
  <2>1. Background
    BY <1>1, <1>4 DEF TransferNext, Background, Task, SenderUser, Status, Answer, Lose,
       CancelAnswered
  <2>. QED BY <1>4, <2>1, BackgroundKeeps, BackgroundKeepsChunk
<1>. QED BY <1>2, <1>3, <1>4

(* A sender that continues an interrupted upload continues it where the    *)
(* .part file ends, or before: no .part file ever has a hole, for every    *)
(* batch, number of attempts and of lost connections, and however handlers *)
(* of earlier attempts run on, are cut short or killed.  It needs what the *)
(* property itself excuses or the bytes depend on: that nobody cancels (a  *)
(* handler that finds its session cancelled removes the .part file whose   *)
(* length the next attempt has been told), that the folder stays, that     *)
(* requests of two attempts for one .part do not overlap, and that the     *)
(* bytes are those that were hashed.                                       *)
THEOREM PartsHaveNoHoles ==
  ASSUME "overlap" \notin Faults, "chdir" \notin Faults, "corrupt" \notin Faults, NoCancels
  PROVE  TransferSpec => []NoHoles
<1>. DEFINE Inv == Uncancelled /\ LoneInv /\ Tidy /\ OffsetFollows /\ ChunkFollows
<1>1. TransferInit => Inv
  <2>. SUFFICES ASSUME TransferInit PROVE Inv
    OBVIOUS
  <2>1. /\ Init /\ attempt = 0 /\ handed = FALSE /\ at = "next"
        /\ \A s \in Session : pc[s] = "idle" /\ status[s] = "none" /\ doomed[s] = {}
        /\ \A p \in Path : part[p] = Nil
    BY DEF TransferInit, Init, S!SenderInit
  <2>2. Uncancelled
    BY <2>1 DEF TransferInit, S!SenderInit, Uncancelled
  <2>3. Names /\ KeysApart /\ OneFolder /\ SessionsOK /\ Undoomed /\ Solid
    BY <2>1, InitNames DEF KeysApart, OneFolder, SessionsOK, Undoomed, Solid, Ready
  <2>4. WritersFollow /\ CommitsFull
    BY <2>1 DEF WritersFollow, CommitsFull, ChunkLabels, FullLabels
  <2>. QED BY <2>1, <2>2, <2>3, <2>4 DEF Tidy, LoneInv, OffsetFollows, ChunkFollows
<1>2. TransferTypes /\ HandedOK /\ Inv /\ [TransferNext]_transferVars => Inv'
  <2>. SUFFICES ASSUME TransferTypes, HandedOK, Inv, [TransferNext]_transferVars PROVE Inv'
    OBVIOUS
  <2>1. Uncancelled' /\ Tidy'
    BY UncancelledStep, TidyStep
  <2>2. LoneInv'
    BY LoneStep DEF Tidy
  <2>3. OffsetFollows' /\ ChunkFollows'
    BY OffsetFollowsStep, ChunkFollowsStep
  <2>. QED BY <2>1, <2>2, <2>3
<1>3. Inv => NoHoles
  BY DEF Tidy, Solid, NoHoles
<1>. QED
  BY <1>1, <1>2, <1>3, HandedHolds, PTL DEF TransferSpec
=============================================================================
