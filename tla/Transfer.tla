------------------------------ MODULE Transfer ------------------------------
(***************************************************************************)
(* One batch of files sent from one device to another: the task of module  *)
(* Sender and the sessions of module Receiver, joined by the requests of   *)
(* /api/v1/transfer.  When an attempt has not completed, the user may send *)
(* the same files again, which is a new session that finds the .part files *)
(* of the earlier one.                                                     *)
(*                                                                         *)
(* A request is handed to the receiver, whose handler answers it; but the  *)
(* connection may be lost, before or after the handler has done its work,  *)
(* and the sender then sees an error while the handler runs on.            *)
(***************************************************************************)
EXTENDS Receiver, Sequences

CONSTANTS
  Queue,        \* the entries in the order they are sent
  ChunkSize,    \* chunk_size, in blocks
  Preemptive,   \* whether other threads run between two steps of a task
  Attempts,     \* the session of each attempt, in order
  MaxLosses,    \* how many answers may be lost
  Users         \* what the users may do, a subset of AllUsers

AllUsers == {"pause",   \* pause and resume on the sender
             "cancel",  \* cancel on the sender
             "refuse",  \* cancel on the receiver
             "idle"}    \* leave a session idle until it is pruned

ASSUME BatchAssumption ==
  /\ Queue \in Seq(File)
  /\ \A s \in Session : Offers[s] = {Queue[i] : i \in DOMAIN Queue}
ASSUME AttemptsAssumption ==
  /\ Attempts \in Seq(Session)
  /\ \A m, n \in DOMAIN Attempts : Attempts[m] = Attempts[n] => m = n
ASSUME LossAssumption == MaxLosses \in Nat /\ Users \subseteq AllUsers
ASSUME PaceAssumption == ChunkSize \in Nat \ {0} /\ Preemptive \in BOOLEAN

VARIABLES isPaused, isCancelled, registered, wakes, waiter, at, idx, offset, told,
          outcome, late
VARIABLES
  attempt,   \* the attempt that runs or ran last; 0 before the first
  handed,    \* the task's request has reached the receiver
  losses     \* answers lost so far

S == INSTANCE Sender

senderVars == <<isPaused, isCancelled, registered, wakes, told, at, idx, offset,
                outcome, waiter, late>>

linkVars == <<attempt, handed, losses>>
transferVars == <<vars, senderVars, linkVars>>

Token == Attempts[attempt]

TransferInit == Init /\ S!SenderInit /\ attempt = 0 /\ handed = FALSE /\ losses = 0

(* request_transfer is accepted and start_transfer spawns its task.        *)
Begin ==
  /\ attempt = 0 \/ outcome \in {"Failed", "Cancelled"}
  /\ attempt < Len(Attempts)
  /\ attempt' = attempt + 1
  /\ \E s \in {Attempts[attempt + 1]} : CreateSession(s)
  /\ isPaused' = FALSE /\ isCancelled' = FALSE /\ registered' = TRUE
  /\ wakes' = {} /\ waiter' = "none" /\ told' = "no"
  /\ at' = "next" /\ idx' = 1 /\ offset' = 0 /\ outcome' = "none" /\ late' = 0
  /\ UNCHANGED <<handed, losses>>

(* Steps of the sending application alone.                                 *)
Task ==
  /\ attempt > 0 /\ S!Local
  /\ UNCHANGED <<vars, linkVars>>

SenderUser ==
  /\ attempt > 0
  /\ \/ "pause" \in Users /\ (S!Pause \/ S!Resume)
     \/ "cancel" \in Users /\ S!Cancel
     \/ S!Notified
  /\ UNCHANGED <<vars, linkVars>>

(* handle_transfer_status answers under the sessions lock.                 *)
Status ==
  /\ attempt > 0 /\ at = "status"
  /\ \/ Accepting(Token) /\ S!StatusAnswered("ok", PartLen(PathOf(S!Current)))
     \/ status[Token] = "Cancelled" /\ S!StatusAnswered("cancelled", 0)
     \/ status[Token] = "gone" /\ S!StatusAnswered("error", 0)
  /\ UNCHANGED <<vars, linkVars>>

(* The task's chunk or finish request arrives.                             *)
Arrive ==
  /\ attempt > 0 /\ ~handed /\ handed' = TRUE
  /\ \/ at = "chunk" /\ ChunkCheck(Token, S!Current, offset, S!ChunkLen)
     \/ at = "finish" /\ FinishCheck(Token, S!Current)
     \/ at \in {"chunk", "finish"} /\ Refuse(Token)
  /\ UNCHANGED <<senderVars, attempt, losses>>

(* The handler's answer reaches the task.                                  *)
Answer ==
  /\ handed /\ Ready(Token) /\ handed' = FALSE
  /\ S!ChunkAnswered(pc[Token]) \/ S!FinishAnswered(pc[Token])
  /\ UNCHANGED <<vars, attempt, losses>>

(* Faulty variant of Lose: the request that was lost is taken for the next.*)
KeepHanded ==
  /\ attempt > 0 /\ losses < MaxLosses
  /\ \/ S!StatusAnswered("error", 0)
     \/ S!ChunkAnswered("error")
     \/ S!FinishAnswered("error")
     \/ S!TellAnswered
  /\ losses' = losses + 1
  /\ UNCHANGED <<vars, attempt, handed>>

(* The connection is lost while the task waits.                            *)
Lose ==
  /\ attempt > 0 /\ losses < MaxLosses
  /\ \/ S!StatusAnswered("error", 0)
     \/ S!ChunkAnswered("error")
     \/ S!FinishAnswered("error")
     \/ S!TellAnswered
  /\ handed' = FALSE /\ losses' = losses + 1
  /\ UNCHANGED <<vars, attempt>>

(* A session is cancelled: by the task that was cancelled, by the cancel   *)
(* command itself, which may have been for an earlier attempt and still be *)
(* on its way, or by the user of the receiver.                             *)
CancelArrives(s) ==
  /\ \/ "refuse" \in Users
     \/ attempt > 0 /\ s = Token /\ (at = "tell" \/ told = "sent")
     \/ "cancel" \in Users /\ \E n \in 1 .. attempt - 1 : s = Attempts[n]
  /\ CancelMark(s)
  /\ UNCHANGED <<senderVars, linkVars>>

(* The cancel request is answered when the session is cancelled and its    *)
(* .part files are removed, or when the session is unknown; at once when   *)
(* another request or the user of the receiver is cancelling it already.   *)
CancelAnswered ==
  /\ attempt > 0 /\ ~Accepting(Token)
  /\ \/ doomed[Token] = {}
     \/ "refuse" \in Users \/ (at = "tell" /\ told # "no")
  /\ S!TellAnswered \/ S!CommandAnswered
  /\ UNCHANGED <<vars, linkVars>>

(* The handlers and the maintenance of the receiver go on.                 *)
Handler(s) == \/ ChunkOpen(s) \/ ChunkWrite(s) \/ ChunkUpdate(s)
              \/ FinishCreate(s) \/ FinishSize(s) \/ FinishVerify(s)
              \/ CommitLink(s) \/ CommitCreateCopy(s) \/ CommitCopy(s)
              \/ CommitUnlink(s) \/ FinishRecord(s)
              \/ \E p \in Path : CancelRemove(s, p)

Handlers == /\ \E s \in Session : Handler(s)
            /\ UNCHANGED <<senderVars, linkVars>>

(* What may go wrong: a file operation on either side, a session that is   *)
(* not used for an hour, a new download folder, a crash of the receiver.   *)
InUse(s) == \/ ~Ready(s)
            \/ attempt > 0 /\ s = Token /\ at \notin {"arm", "wait", "recheck", "done"}

Trouble ==
  \/ /\ \/ \E s \in Session : Abort(s) \/ ("idle" \in Users /\ ~InUse(s) /\ Prune(s))
        \/ \E d \in Dir : SetDownloadDir(d)
        \/ Crash
     /\ UNCHANGED <<senderVars, linkVars>>
  \/ /\ "abort" \in Faults /\ attempt > 0 /\ S!SourceError
     /\ UNCHANGED <<vars, linkVars>>

TransferNext == \/ Begin \/ Task \/ SenderUser \/ Status \/ Arrive \/ Answer \/ Lose
                \/ \E s \in Session : CancelArrives(s)
                \/ CancelAnswered \/ Handlers \/ Trouble

TransferSpec == TransferInit /\ [][TransferNext]_transferVars

(* Both applications run, what is sent arrives or the connection is lost,  *)
(* and the user tries again when an attempt has not completed.             *)
FairTransfer ==
  /\ TransferSpec
  /\ WF_transferVars(Begin) /\ WF_transferVars(Task) /\ WF_transferVars(Status)
  /\ WF_transferVars(Arrive) /\ WF_transferVars(Answer)
  /\ WF_transferVars(CancelAnswered) /\ WF_transferVars(Handlers)

-----------------------------------------------------------------------------
LinkTypeOK ==
  /\ attempt \in 0 .. Len(Attempts)
  /\ handed \in BOOLEAN
  /\ losses \in 0 .. MaxLosses
  /\ handed => at \in {"chunk", "finish"}

(* The transfer does what Delivery promises: what was saved stays saved,   *)
(* and the sender records a batch as Completed only when an intact copy of *)
(* every file of it is in the receiver's download folder.                  *)
D == INSTANCE Delivery WITH
       Wanted <- {Queue[i] : i \in DOMAIN Queue},
       saved <- {e.file : e \in {g \in library : Settled(g) /\ Intact(g.inode, g.file)}},
       result <- outcome
Delivers == D!DeliverySpec

(* A sender that continues an interrupted upload continues it where the    *)
(* .part file ends: the file never has a hole, unless its session was      *)
(* cancelled under the request that is writing it.                         *)
NoHoles ==
  \A p \in Path : part[p] # Nil =>
    \/ disk[part[p]].good = 0 .. (disk[part[p]].len - 1)
    \/ \E s \in Session : status[s] = "Cancelled" /\ InFlight(s, p[2])

(* What the receiver has acknowledged to the task stays on its disk while  *)
(* the session is accepted: the task never goes on from an offset the      *)
(* .part file does not reach.                                              *)
UploadKept ==
  attempt > 0 /\ status[Token] = "Accepted" /\ ~handed
    /\ at \in {"open", "loop", "arm", "wait", "recheck", "send", "chunk"}
  => offset <= PartLen(PathOf(S!Current))

(* When the sender records the transfer as cancelled, and the connection   *)
(* was not lost, the receiver has its session cancelled too, or has        *)
(* dropped it as idle: it does not wait for chunks that never come.        *)
CancelAgreed ==
  outcome = "Cancelled" /\ losses = 0 => status[Token] \in {"Cancelled", "gone"}

(* When the sender records the batch as completed, so does the receiver.   *)
CompletedAgreed ==
  outcome = "Completed" => status[Token] \in {"Completed", "gone"}

(* A batch that is tried again after each lost connection is delivered in  *)
(* the end.                                                                *)
EventuallyDelivered == <>(outcome = "Completed")
=============================================================================
