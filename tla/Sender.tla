------------------------------- MODULE Sender -------------------------------
(***************************************************************************)
(* The sending side of one transfer: the background task of start_transfer *)
(* (commands.rs) with the upload loop of client/sender.rs, and the         *)
(* TransferControl through which the pause, resume and cancel commands and *)
(* the speed limit reach it.                                               *)
(*                                                                         *)
(* The task sends its files one after the other.  For each it asks the     *)
(* receiver how much it has, sends the rest chunk by chunk and asks it to  *)
(* finish the file.  It has one request outstanding at a time: while it    *)
(* waits for the answer, "at" names the request.  The answers are inputs:  *)
(* "ok", "cancelled" for the refusal of a cancelled session, "error" for   *)
(* every other refusal or a lost connection.                               *)
(*                                                                         *)
(* A paused task sleeps on a tokio Notify.  notify_waiters wakes only a    *)
(* future that exists already, and the future is created after is_paused   *)
(* was read: with Preemptive, as on the multi-threaded runtime of the      *)
(* application, a command may run between the two.                         *)
(***************************************************************************)
EXTENDS Naturals, Sequences, FiniteSets

CONSTANTS
  File,        \* entries of the transfer request
  Queue,       \* the entries in the order they are sent
  Size,        \* length of an entry, in blocks
  ChunkSize,   \* chunk_size, in blocks
  Preemptive   \* whether other threads run between two steps of a task

ASSUME QueueAssumption == Queue \in Seq(File)
ASSUME LengthAssumption == Size \in [File -> Nat]
ASSUME ChunkAssumption == ChunkSize \in Nat \ {0}
ASSUME PreemptiveAssumption == Preemptive \in BOOLEAN

VARIABLES
  isPaused,     \* TransferControl.is_paused
  isCancelled,  \* TransferControl.cancel_token
  registered,   \* the transfer is in AppState.transfer_controls
  wakes,        \* commands that have yet to call notify_waiters
  waiter,       \* the Notified future of the paused task
  at,           \* where the task is
  idx,          \* the entry of Queue being sent
  offset,       \* current_offset
  told,         \* the cancel command's own request to the receiver
  outcome,      \* the status recorded in the history
  late          \* chunks begun since the last pause, resume or cancel

controlVars == <<isPaused, isCancelled, registered, wakes, told>>
taskVars == <<at, idx, offset, outcome>>
senderVars == <<controlVars, taskVars, waiter, late>>

Current == Queue[idx]
ChunkLen == IF Size[Current] - offset < ChunkSize THEN Size[Current] - offset ELSE ChunkSize

(* Without preemption a command stores its flag and wakes the task at once.*)
MayRun == Preemptive \/ wakes = {}

SenderInit ==
  /\ isPaused = FALSE /\ isCancelled = FALSE /\ registered = TRUE
  /\ wakes = {} /\ waiter = "none"
  /\ at = "next" /\ idx = 1 /\ offset = 0
  /\ told = "no" /\ outcome = "none" /\ late = 0

-----------------------------------------------------------------------------
(* Ways for a step of the task to go on.                                   *)

Goto(label) == at' = label /\ UNCHANGED <<registered, outcome>>

(* The history record is written and the registries forget the transfer.   *)
End(status) == /\ at' = "done"
               /\ outcome' = status
               /\ registered' = FALSE

(* send_file_resumable_controlled returned an error.                       *)
SendFailed(error) ==
  \/ isCancelled /\ Goto("tell")
  \/ ~isCancelled /\ error = "cancelled" /\ End("Cancelled")
  \/ ~isCancelled /\ error # "cancelled" /\ End("Failed")

(* The task starts to wait for a notification; with preemption the future  *)
(* is created in a step of its own.                                        *)
Sleep == IF Preemptive THEN Goto("arm") /\ UNCHANGED waiter
                       ELSE Goto("wait") /\ waiter' = "listening"

-----------------------------------------------------------------------------
(* The task of start_transfer.                                             *)

(* Faulty variants of NextFile: the last file is left out, or the receiver *)
(* is not told of the cancel.                                              *)
LeaveLast ==
  /\ at = "next" /\ MayRun
  /\ \/ idx >= Len(Queue) /\ End("Completed")
     \/ idx < Len(Queue) /\ isCancelled /\ Goto("tell")
     \/ idx < Len(Queue) /\ ~isCancelled /\ Goto("status")
  /\ UNCHANGED <<isPaused, isCancelled, wakes, told, idx, offset, waiter, late>>
EndUntold ==
  /\ at = "next" /\ MayRun
  /\ \/ idx > Len(Queue) /\ End("Completed")
     \/ idx <= Len(Queue) /\ isCancelled /\ End("Cancelled")
     \/ idx <= Len(Queue) /\ ~isCancelled /\ Goto("status")
  /\ UNCHANGED <<isPaused, isCancelled, wakes, told, idx, offset, waiter, late>>

(* The next file, or the end of the batch.                                 *)
NextFile ==
  /\ at = "next" /\ MayRun
  /\ \/ idx > Len(Queue) /\ End("Completed")
     \/ idx <= Len(Queue) /\ isCancelled /\ Goto("tell")
     \/ idx <= Len(Queue) /\ ~isCancelled /\ Goto("status")
  /\ UNCHANGED <<isPaused, isCancelled, wakes, told, idx, offset, waiter, late>>

(* get_transfer_status_url: how much of the file the receiver has.         *)
StatusAnswered(answer, length) ==
  /\ at = "status" /\ MayRun
  /\ \/ answer = "ok" /\ offset' = length /\ Goto("open")
     \/ answer # "ok" /\ SendFailed(answer) /\ UNCHANGED offset
  /\ UNCHANGED <<isPaused, isCancelled, wakes, told, idx, waiter, late>>

(* Faulty variant of OpenFile: the offset is not compared with the size.   *)
AcceptAnyOffset ==
  /\ at = "open" /\ MayRun
  /\ \/ isCancelled /\ Goto("tell")
     \/ ~isCancelled /\ offset = Size[Current] /\ Goto("sent")
     \/ ~isCancelled /\ offset # Size[Current] /\ Goto("loop")
  /\ UNCHANGED <<isPaused, isCancelled, wakes, told, idx, offset, waiter, late>>

(* The entry of send_file_chunks_with_control.                             *)
OpenFile ==
  /\ at = "open" /\ MayRun
  /\ \/ isCancelled /\ Goto("tell")
     \/ ~isCancelled /\ offset > Size[Current] /\ End("Failed")
     \/ ~isCancelled /\ offset = Size[Current] /\ Goto("sent")
     \/ ~isCancelled /\ offset < Size[Current] /\ Goto("loop")
  /\ UNCHANGED <<isPaused, isCancelled, wakes, told, idx, offset, waiter, late>>

(* Faulty variants of LoopHead: the pause is not looked at, and the loop   *)
(* runs while current_offset <= file.size.                                 *)
IgnorePause ==
  /\ at = "loop" /\ MayRun
  /\ \/ offset >= Size[Current] /\ Goto("sent")
     \/ offset < Size[Current] /\ isCancelled /\ Goto("tell")
     \/ offset < Size[Current] /\ ~isCancelled /\ Goto("send")
  /\ UNCHANGED <<isPaused, isCancelled, wakes, told, idx, offset, waiter, late>>
LoopPastEnd ==
  /\ at = "loop" /\ MayRun
  /\ \/ offset > Size[Current] /\ Goto("sent") /\ UNCHANGED waiter
     \/ /\ offset <= Size[Current]
        /\ \/ isCancelled /\ Goto("tell") /\ UNCHANGED waiter
           \/ ~isCancelled /\ isPaused /\ Sleep
           \/ ~isCancelled /\ ~isPaused /\ Goto("send") /\ UNCHANGED waiter
  /\ UNCHANGED <<isPaused, isCancelled, wakes, told, idx, offset, late>>

(* The head of the chunk loop: cancelled, paused or clear to send.         *)
LoopHead ==
  /\ at = "loop" /\ MayRun
  /\ \/ offset >= Size[Current] /\ Goto("sent") /\ UNCHANGED waiter
     \/ /\ offset < Size[Current]
        /\ \/ isCancelled /\ Goto("tell") /\ UNCHANGED waiter
           \/ ~isCancelled /\ isPaused /\ Sleep
           \/ ~isCancelled /\ ~isPaused /\ Goto("send") /\ UNCHANGED waiter
  /\ UNCHANGED <<isPaused, isCancelled, wakes, told, idx, offset, late>>

(* pause_notify.notified() is created, after is_paused was seen set.       *)
CreateNotified ==
  /\ at = "arm"
  /\ Goto("wait") /\ waiter' = "listening"
  /\ UNCHANGED <<isPaused, isCancelled, wakes, told, idx, offset, late>>

(* Faulty variant of PauseEnds: the pause does not watch the cancel token. *)
DeafPause ==
  /\ at = "wait" /\ MayRun
  /\ waiter = "woken" /\ Goto("recheck")
  /\ waiter' = "none"
  /\ UNCHANGED <<isPaused, isCancelled, wakes, told, idx, offset, late>>

(* The select! of the pause loop: cancelled, or notified.                  *)
PauseEnds ==
  /\ at = "wait" /\ MayRun
  /\ \/ isCancelled /\ Goto("tell")
     \/ waiter = "woken" /\ Goto("recheck")
  /\ waiter' = "none"
  /\ UNCHANGED <<isPaused, isCancelled, wakes, told, idx, offset, late>>

(* while ctrl.is_paused(), after a notification.                           *)
Recheck ==
  /\ at = "recheck" /\ MayRun
  /\ \/ isPaused /\ Sleep
     \/ ~isPaused /\ Goto("send") /\ UNCHANGED waiter
  /\ UNCHANGED <<isPaused, isCancelled, wakes, told, idx, offset, late>>

(* A chunk is read from the file and sent.                                 *)
SendChunk ==
  /\ at = "send" /\ MayRun
  /\ Goto("chunk")
  /\ late' = IF isPaused \/ isCancelled THEN late + 1 ELSE late
  /\ UNCHANGED <<isPaused, isCancelled, wakes, told, idx, offset, waiter>>

ChunkAnswered(answer) ==
  /\ at = "chunk" /\ MayRun
  /\ \/ answer = "ok" /\ offset' = offset + ChunkLen /\ Goto("loop")
     \/ answer # "ok" /\ SendFailed(answer) /\ UNCHANGED offset
  /\ UNCHANGED <<isPaused, isCancelled, wakes, told, idx, waiter, late>>

(* The file to send has gone, or is shorter than it was when it was hashed.*)
SourceError ==
  /\ at \in {"open", "send"} /\ MayRun
  /\ SendFailed("error")
  /\ UNCHANGED <<isPaused, isCancelled, wakes, told, idx, offset, waiter, late>>

(* Every byte is acknowledged: one more look at the token, then finish.    *)
FileSent ==
  /\ at = "sent" /\ MayRun
  /\ IF isCancelled THEN Goto("tell") ELSE Goto("finish")
  /\ UNCHANGED <<isPaused, isCancelled, wakes, told, idx, offset, waiter, late>>

FinishAnswered(answer) ==
  /\ at = "finish" /\ MayRun
  /\ \/ answer = "ok" /\ Goto("next") /\ idx' = idx + 1
     \/ answer # "ok" /\ End("Failed") /\ UNCHANGED idx
  /\ UNCHANGED <<isPaused, isCancelled, wakes, told, offset, waiter, late>>

(* The receiver's answer to the task's cancel request does not matter.     *)
TellAnswered ==
  /\ at = "tell" /\ MayRun
  /\ End("Cancelled")
  /\ UNCHANGED <<isPaused, isCancelled, wakes, told, idx, offset, waiter, late>>

-----------------------------------------------------------------------------
(* The commands of the user interface.                                     *)

Pause ==
  /\ registered /\ MayRun
  /\ isPaused' = TRUE /\ wakes' = wakes \cup {"pause"} /\ late' = 0
  /\ UNCHANGED <<isCancelled, registered, told, taskVars, waiter>>

Resume ==
  /\ registered /\ MayRun
  /\ isPaused' = FALSE /\ wakes' = wakes \cup {"resume"} /\ late' = 0
  /\ UNCHANGED <<isCancelled, registered, told, taskVars, waiter>>

(* cancel_transfer: AppState::cancel_session takes the transfer out of the *)
(* registries and cancels the token; the command then asks the receiver,   *)
(* as it does for a transfer that has ended and is not registered.         *)
Cancel ==
  /\ MayRun
  /\ \/ /\ registered /\ registered' = FALSE
        /\ isCancelled' = TRUE /\ late' = 0
        /\ wakes' = wakes \cup {"cancel"}
        /\ UNCHANGED told
     \/ /\ ~registered /\ told' = "sent"
        /\ UNCHANGED <<registered, isCancelled, late, wakes>>
  /\ UNCHANGED <<isPaused, taskVars, waiter>>

SetSpeedLimit ==
  /\ registered /\ MayRun
  /\ wakes' = wakes \cup {"limit"}
  /\ UNCHANGED <<isPaused, isCancelled, registered, told, taskVars, waiter, late>>

(* notify_waiters, the second half of each of these calls.                 *)
NotifyWaiters(w) ==
  /\ w \in wakes
  /\ wakes' = wakes \ {w}
  /\ waiter' = IF waiter = "listening" THEN "woken" ELSE waiter
  /\ told' = IF w = "cancel" THEN "sent" ELSE told
  /\ UNCHANGED <<isPaused, isCancelled, registered, taskVars, late>>

(* The command's cancel request is answered.                               *)
CommandAnswered ==
  /\ told = "sent" /\ MayRun
  /\ told' = "done"
  /\ UNCHANGED <<isPaused, isCancelled, registered, wakes, taskVars, waiter, late>>

-----------------------------------------------------------------------------
Answers == {"ok", "cancelled", "error"}

(* Steps of the task that need no answer.                                  *)
Local == \/ NextFile \/ OpenFile \/ LoopHead \/ CreateNotified \/ PauseEnds
         \/ Recheck \/ SendChunk \/ FileSent

(* The length the receiver reports is that of its .part file; one that is  *)
(* too long stands for all of them.                                        *)
Lengths == IF at = "status" THEN 0 .. Size[Current] + 1 ELSE {}

Answered == \/ \E a \in Answers : \/ \E n \in Lengths : StatusAnswered(a, n)
                                  \/ ChunkAnswered(a) \/ FinishAnswered(a)
            \/ TellAnswered

Notified == \E w \in {"pause", "resume", "cancel", "limit"} : NotifyWaiters(w)

Command == Pause \/ Resume \/ Cancel \/ SetSpeedLimit

SenderNext == Local \/ SourceError \/ Answered \/ Command \/ Notified \/ CommandAnswered

SenderSpec == SenderInit /\ [][SenderNext]_senderVars

(* The runtime runs the commands that have begun and gives the task a turn *)
(* again and again, between two commands also when they never cease (hence *)
(* strong fairness: MayRun is false in the middle of each); every request  *)
(* is answered or fails.                                                   *)
FairSender == SenderSpec /\ SF_senderVars(Local) /\ SF_senderVars(Answered)
                         /\ WF_senderVars(Notified)

-----------------------------------------------------------------------------
SenderTypeOK ==
  /\ isPaused \in BOOLEAN /\ isCancelled \in BOOLEAN /\ registered \in BOOLEAN
  /\ wakes \subseteq {"pause", "resume", "cancel", "limit"}
  /\ waiter \in {"none", "listening", "woken"}
  /\ at \in {"next", "status", "open", "loop", "arm", "wait", "recheck", "send",
             "chunk", "sent", "finish", "tell", "done"}
  /\ idx \in 1 .. Len(Queue) + 1
  /\ offset \in Nat
  /\ at \notin {"next", "tell", "done"} => idx <= Len(Queue)
  /\ at \in {"arm", "wait", "recheck", "send", "chunk"} => offset < Size[Current]
  /\ told \in {"no", "sent", "done"}
  /\ outcome \in {"none", "Completed", "Cancelled", "Failed"}
  /\ late \in Nat

(* Once the transfer is paused or cancelled at most one more chunk is      *)
(* begun: the one whose check had been passed already.                     *)
OneChunkAfterStop == late <= 1

(* A file is finished only when the receiver has acknowledged all of it,   *)
(* counted from the length it reported.                                    *)
FinishesWhole == at \in {"sent", "finish"} => offset = Size[Current]

(* A cancelled transfer ends, also when it is paused.                      *)
CancelEnds == isCancelled ~> outcome # "none"

(* A transfer that is resumed for good goes on and ends: "Resume the       *)
(* transfer stream if paused" (sender.rs:86).                              *)
ResumeEnds == <>[]~isPaused => <>(outcome # "none")
=============================================================================
