------------------------------ MODULE Receiver ------------------------------
(***************************************************************************)
(* The receiving side of Easy Share: the transfer sessions of              *)
(* server/state.rs, the chunk, finish and cancel handlers of               *)
(* server/routes.rs and the .part files and saved files of                 *)
(* storage/file_manager.rs they share.                                     *)
(*                                                                         *)
(* An HTTP handler is a sequence of atomic steps: it reads the session     *)
(* under the sessions lock, releases the lock, works on the file system,   *)
(* and takes the lock again to record the result.  Between two steps any   *)
(* other handler, cancel or maintenance task may run.  A sender has at     *)
(* most one chunk or finish request of a session in flight                 *)
(* (client/sender.rs awaits every response), so each session has one       *)
(* request slot; a cancel request runs beside it.                          *)
(*                                                                         *)
(* File contents are abstracted to blocks: a file on disk (an inode) has a *)
(* length and the set of blocks that hold the bytes the sender hashed.  A  *)
(* block below the length that is not in the set is a hole left by a seek, *)
(* or holds bytes that differ from the hashed ones.                        *)
(***************************************************************************)
EXTENDS Naturals, FiniteSets

CONSTANTS
  Session,    \* tokens of the sessions that will be created
  File,       \* entries of transfer requests
  Key,        \* names of .part files: sanitized file name and hash prefix
  KeyOf,      \* the .part name of an entry
  Size,       \* length of an entry, in blocks
  Offers,     \* the entries of each session's transfer request
  Dir,        \* download folders the user may choose
  Inode,      \* files on disk; bounds how many exist at once
  Nil,        \* no inode
  HardLinks,  \* the folders on the file system with hard links
  Faults      \* what may go wrong in this instance, a subset of AllFaults

AllFaults == {"overlap",   \* requests of two sessions for one .part in flight
              "abort",     \* a handler ends early: disconnect or I/O error
              "corrupt",   \* bytes differ from the ones that were hashed
              "chdir",     \* the download folder is changed
              "crash",     \* the application is killed and started again,
              "torn",      \* also between the two steps of a commit
              "stuck"}     \* a .part file is not removed, which nobody notices

ASSUME SizeAssumption == Size \in [File -> Nat]
ASSUME KeyAssumption ==
  /\ KeyOf \in [File -> Key]
  /\ \A f, g \in File : KeyOf[f] = KeyOf[g] => Size[f] = Size[g]
ASSUME OffersAssumption == Offers \in [Session -> SUBSET File]
ASSUME NilAssumption == Nil \notin Inode
ASSUME ModeAssumption == HardLinks \subseteq Dir /\ Faults \subseteq AllFaults

VARIABLES
  dir,         \* ServerState.download_dir
  status,      \* SessionState.status; "none" before, "gone" after its lifetime
  progress,    \* SessionState.file_progress
  savedPaths,  \* the keys of SessionState.saved_paths
  pc,          \* where the session's request is
  req,         \* the locals of that request's handler
  doomed,      \* .part files a cancel_session call has yet to remove
  part,        \* the inode at each .part path
  disk,        \* contents of the inodes
  library      \* files in the download folders: which entry, which inode

sessionVars == <<status, progress, savedPaths>>
fileVars == <<part, disk, library>>
vars == <<dir, status, progress, savedPaths, pc, req, doomed, part, disk, library>>

Path == Dir \X Key
PathOf(f) == <<dir, KeyOf[f]>>

Blocks(f) == 0 .. (Size[f] - 1)
Empty == [len |-> 0, good |-> {}]
Contents == [len : Nat, good : SUBSET Nat]

(* The .part file is removed; a failure is ignored wherever this is done.  *)
Unlink(p) ==
  part' \in {[part EXCEPT ![p] = Nil]} \cup (IF "stuck" \in Faults THEN {part} ELSE {})

PartLen(p) == IF part[p] = Nil THEN 0 ELSE disk[part[p]].len

(* The BLAKE3 hash of the inode is the one the sender announced for f.     *)
Intact(i, f) == disk[i].len = Size[f] /\ disk[i].good = Blocks(f)

(* The contents after writing one block at position k.                     *)
WithBlock(c, k, ok) ==
  [len  |-> IF k < c.len THEN c.len ELSE k + 1,
   good |-> IF ok THEN c.good \cup {k} ELSE c.good \ {k}]

Exists(s) == status[s] \in {"Accepted", "Completed", "Cancelled"}
Accepting(s) == status[s] \in {"Accepted", "Completed"}

(* The request slot is free; it remembers the last response.               *)
Ready(s) == pc[s] \in {"idle", "ok", "error", "cancelled"}
InFlight(s, k) == ~Ready(s) /\ KeyOf[req[s].file] = k
MayStart(f) == "overlap" \in Faults \/ \A s \in Session : ~InFlight(s, KeyOf[f])

Referenced(i) == \/ \E p \in Path : part[p] = i
                 \/ \E s \in Session : req[s].fd = i
                 \/ \E e \in library : e.inode = i
Free == {i \in Inode : ~Referenced(i)}

NoRequest == [file |-> Nil, path |-> Nil, pos |-> 0, end |-> 0,
              fd |-> Nil, detached |-> FALSE]
Request(f, off, end) == [file |-> f, path |-> PathOf(f), pos |-> off, end |-> end,
                         fd |-> Nil, detached |-> FALSE]

NoProgress == [f \in File |-> 0]

Reply(s, answer) == /\ pc' = [pc EXCEPT ![s] = answer]
                    /\ req' = [req EXCEPT ![s] = NoRequest]
Goto(s, label) == pc' = [pc EXCEPT ![s] = label] /\ UNCHANGED req

-----------------------------------------------------------------------------
Init ==
  /\ dir \in Dir
  /\ status = [s \in Session |-> "none"]
  /\ progress = [s \in Session |-> NoProgress]
  /\ savedPaths = [s \in Session |-> {}]
  /\ pc = [s \in Session |-> "idle"]
  /\ req = [s \in Session |-> NoRequest]
  /\ doomed = [s \in Session |-> {}]
  /\ part = [p \in Path |-> Nil]
  /\ disk = [i \in Inode |-> Empty]
  /\ library = {}

(* create_session: the offsets of the response, and the session's first    *)
(* progress, are the lengths of the .part files found on disk.             *)
CreateSession(s) ==
  /\ status[s] = "none"
  /\ status' = [status EXCEPT ![s] = "Accepted"]
  /\ progress' = [progress EXCEPT ![s] =
       [f \in File |-> IF f \in Offers[s] THEN PartLen(PathOf(f)) ELSE 0]]
  /\ UNCHANGED <<dir, savedPaths, pc, req, doomed, part, disk, library>>

-----------------------------------------------------------------------------
(* handle_transfer_chunk                                                   *)

(* A chunk or finish request whose session is unknown or cancelled.        *)
Refuse(s) ==
  /\ Ready(s)
  /\ \/ status[s] = "Cancelled" /\ Reply(s, "cancelled")
     \/ status[s] = "gone" /\ Reply(s, "error")
  /\ UNCHANGED <<dir, sessionVars, doomed, fileVars>>

ChunkCheck(s, f, off, n) ==
  /\ Ready(s) /\ Accepting(s) /\ f \in Offers[s] /\ MayStart(f)
  /\ pc' = [pc EXCEPT ![s] = "open"]
  /\ req' = [req EXCEPT ![s] = Request(f, off, off + n)]
  /\ UNCHANGED <<dir, sessionVars, doomed, fileVars>>

(* Faulty variant of ChunkOpen: truncate(true) instead of truncate(false). *)
TruncatingOpen(s) ==
  /\ pc[s] = "open"
  /\ pc' = [pc EXCEPT ![s] = "write"]
  /\ \E i \in (IF part[req[s].path] = Nil THEN Free ELSE {part[req[s].path]}) :
       /\ req' = [req EXCEPT ![s].fd = i]
       /\ part' = [part EXCEPT ![req[s].path] = i]
       /\ disk' = [disk EXCEPT ![i] = Empty]
  /\ UNCHANGED <<dir, sessionVars, doomed, library>>

(* Open the .part file, creating it if it is not there.                    *)
ChunkOpen(s) ==
  /\ pc[s] = "open"
  /\ pc' = [pc EXCEPT ![s] = "write"]
  /\ LET p == req[s].path IN
     \/ /\ part[p] # Nil
        /\ req' = [req EXCEPT ![s].fd = part[p]]
        /\ UNCHANGED <<part, disk>>
     \/ /\ part[p] = Nil
        /\ \E i \in Free :
             /\ req' = [req EXCEPT ![s].fd = i]
             /\ part' = [part EXCEPT ![p] = i]
             /\ disk' = [disk EXCEPT ![i] = Empty]
  /\ UNCHANGED <<dir, sessionVars, doomed, library>>

(* Faulty variant of ChunkWrite: the length of the body is not checked.    *)
UnboundedWrite(s) ==
  /\ pc[s] = "write" /\ req[s].pos <= Size[req[s].file]
  /\ disk' = [disk EXCEPT ![req[s].fd] = WithBlock(@, req[s].pos, TRUE)]
  /\ req' = [req EXCEPT ![s].pos = @ + 1]
  /\ UNCHANGED <<dir, sessionVars, pc, doomed, part, library>>

(* One block of the body reaches the open file, wherever its name went.    *)
ChunkWrite(s) ==
  /\ pc[s] = "write" /\ req[s].pos < req[s].end
  /\ \E ok \in (IF "corrupt" \in Faults THEN BOOLEAN ELSE {TRUE}) :
       disk' = [disk EXCEPT ![req[s].fd] = WithBlock(@, req[s].pos, ok)]
  /\ req' = [req EXCEPT ![s].pos = @ + 1]
  /\ UNCHANGED <<dir, sessionVars, pc, doomed, part, library>>

(* Faulty variants of ChunkUpdate: a cancel during the write goes          *)
(* unnoticed, and the progress is recorded before the body is flushed.     *)
UpdateAfterCancel(s) ==
  /\ pc[s] = "write" /\ req[s].pos = req[s].end
  /\ IF Exists(s) THEN progress' = [progress EXCEPT ![s][req[s].file] = req[s].end]
                  ELSE UNCHANGED progress
  /\ Reply(s, "ok")
  /\ UNCHANGED <<dir, status, savedPaths, doomed, fileVars>>
UpdateBeforeFlush(s) ==
  /\ pc[s] = "write" /\ Accepting(s)
  /\ progress' = [progress EXCEPT ![s][req[s].file] = req[s].end]
  /\ Reply(s, "ok")
  /\ UNCHANGED <<dir, status, savedPaths, doomed, fileVars>>

(* The handler takes the sessions lock again and records the progress.     *)
ChunkUpdate(s) ==
  /\ pc[s] = "write" /\ req[s].pos = req[s].end
  /\ \/ /\ Accepting(s)
        /\ progress' = [progress EXCEPT ![s][req[s].file] = req[s].end]
        /\ Reply(s, "ok")
        /\ UNCHANGED part
     \/ /\ status[s] = "Cancelled"
        /\ Unlink(req[s].path)
        /\ Reply(s, "cancelled")
        /\ UNCHANGED progress
     \/ /\ ~Exists(s)
        /\ Reply(s, "ok")
        /\ UNCHANGED <<progress, part>>
  /\ UNCHANGED <<dir, status, savedPaths, doomed, disk, library>>

-----------------------------------------------------------------------------
(* handle_transfer_finish                                                  *)

FinishCheck(s, f) ==
  /\ Ready(s) /\ Accepting(s) /\ f \in Offers[s] /\ MayStart(f)
  /\ pc' = [pc EXCEPT ![s] = "create"]
  /\ req' = [req EXCEPT ![s] = Request(f, 0, 0)]
  /\ UNCHANGED <<dir, sessionVars, doomed, fileVars>>

(* Faulty variant of FinishCreate: an empty file needs a .part as well.    *)
RequirePart(s) ==
  /\ pc[s] = "create"
  /\ IF part[req[s].path] # Nil THEN Goto(s, "size") ELSE Reply(s, "error")
  /\ UNCHANGED <<dir, sessionVars, doomed, fileVars>>

(* An empty file has no chunks, so its .part is created here; any other    *)
(* file must have one.                                                     *)
FinishCreate(s) ==
  /\ pc[s] = "create"
  /\ LET p == req[s].path IN
     \/ /\ part[p] # Nil
        /\ Goto(s, "size")
        /\ UNCHANGED <<part, disk>>
     \/ /\ part[p] = Nil /\ Size[req[s].file] = 0
        /\ \E i \in Free : /\ part' = [part EXCEPT ![p] = i]
                           /\ disk' = [disk EXCEPT ![i] = Empty]
        /\ Goto(s, "size")
     \/ /\ part[p] = Nil /\ Size[req[s].file] # 0
        /\ Reply(s, "error")
        /\ UNCHANGED <<part, disk>>
  /\ UNCHANGED <<dir, sessionVars, doomed, library>>

FinishSize(s) ==
  /\ pc[s] = "size"
  /\ IF part[req[s].path] # Nil /\ PartLen(req[s].path) = Size[req[s].file]
       THEN Goto(s, "verify")
       ELSE Reply(s, "error")
  /\ UNCHANGED <<dir, sessionVars, doomed, fileVars>>

(* Faulty variant of FinishVerify: a .part of the right length is trusted. *)
TrustLength(s) ==
  /\ pc[s] = "verify"
  /\ Goto(s, "commit")
  /\ UNCHANGED <<dir, sessionVars, doomed, fileVars>>

(* The hash is computed over whatever the .part path names now.  A request *)
(* whose entry has no hash is not checked; this sender always sends one.   *)
FinishVerify(s) ==
  /\ pc[s] = "verify"
  /\ IF part[req[s].path] # Nil /\ Intact(part[req[s].path], req[s].file)
       THEN Goto(s, "commit")
       ELSE Reply(s, "error")
  /\ UNCHANGED <<dir, sessionVars, doomed, fileVars>>

(* The download folder is read again for the commit, so it need not be the *)
(* one the .part is in.                                                    *)
Linkable(s) == {req[s].path[1], dir} \subseteq HardLinks

(* commit_part_file: the .part is hard-linked under a free name, which     *)
(* fails if it has gone away since it was verified.  That a name is taken  *)
(* by others six times in a row is left out.                               *)
CommitLink(s) ==
  /\ pc[s] = "commit" /\ Linkable(s)
  /\ LET i == part[req[s].path] IN
     IF i = Nil
       THEN Reply(s, "error") /\ UNCHANGED library
       ELSE /\ library' = library \cup {[file |-> req[s].file, inode |-> i]}
            /\ Goto(s, "unlink")
  /\ UNCHANGED <<dir, sessionVars, doomed, part, disk>>

(* Without hard links a new file is created in the download folder ...     *)
CommitCreateCopy(s) ==
  /\ pc[s] = "commit" /\ ~Linkable(s)
  /\ IF part[req[s].path] = Nil
       THEN Reply(s, "error") /\ UNCHANGED <<disk, library>>
       ELSE \E i \in Free :
              /\ library' = library \cup {[file |-> req[s].file, inode |-> i]}
              /\ disk' = [disk EXCEPT ![i] = Empty]
              /\ pc' = [pc EXCEPT ![s] = "copy"]
              /\ req' = [req EXCEPT ![s].fd = i]
  /\ UNCHANGED <<dir, sessionVars, doomed, part>>

(* ... and the .part is copied into it; a failed copy is removed again.    *)
CommitCopy(s) ==
  /\ pc[s] = "copy"
  /\ LET i == part[req[s].path] IN
     IF i = Nil
       THEN /\ library' = {e \in library : e.inode # req[s].fd}
            /\ Reply(s, "error")
            /\ UNCHANGED disk
       ELSE /\ disk' = [disk EXCEPT ![req[s].fd] = disk[i]]
            /\ Goto(s, "unlink")
            /\ UNCHANGED library
  /\ UNCHANGED <<dir, sessionVars, doomed, part>>

(* Faulty variant of CommitUnlink: the .part name is removed by the        *)
(* handler and not by the commit that outlives it.                         *)
UnlinkUnlessDetached(s) ==
  /\ pc[s] = "unlink"
  /\ IF req[s].detached
       THEN Reply(s, "error") /\ UNCHANGED part
       ELSE Goto(s, "record") /\ part' = [part EXCEPT ![req[s].path] = Nil]
  /\ UNCHANGED <<dir, sessionVars, doomed, disk, library>>

(* The .part name is removed; a detached commit has no one to answer.      *)
CommitUnlink(s) ==
  /\ pc[s] = "unlink"
  /\ Unlink(req[s].path)
  /\ IF req[s].detached THEN Reply(s, "error") ELSE Goto(s, "record")
  /\ UNCHANGED <<dir, sessionVars, doomed, disk, library>>

(* Faulty variant of FinishRecord: the session is looked at before the     *)
(* progress of the file is recorded.                                       *)
RecordTooLate(s) ==
  /\ pc[s] = "record" /\ Exists(s)
  /\ progress' = [progress EXCEPT ![s][req[s].file] = Size[req[s].file]]
  /\ savedPaths' = [savedPaths EXCEPT ![s] = @ \cup {req[s].file}]
  /\ status' = IF Offers[s] \subseteq savedPaths[s]
                 THEN [status EXCEPT ![s] = "Completed"] ELSE status
  /\ Reply(s, "ok")
  /\ UNCHANGED <<dir, doomed, fileVars>>

(* Under the sessions lock again: the file is done, and the session too if *)
(* the progress of every offered file has reached its size.                *)
FinishRecord(s) ==
  /\ pc[s] = "record"
  /\ LET f == req[s].file
         done == [progress[s] EXCEPT ![f] = Size[f]]
     IN
     \/ /\ Exists(s)
        /\ progress' = [progress EXCEPT ![s] = done]
        /\ savedPaths' = [savedPaths EXCEPT ![s] = @ \cup {f}]
        /\ status' = IF \A g \in Offers[s] : done[g] >= Size[g]
                       THEN [status EXCEPT ![s] = "Completed"] ELSE status
     \/ ~Exists(s) /\ UNCHANGED sessionVars
  /\ Reply(s, "ok")
  /\ UNCHANGED <<dir, doomed, fileVars>>

-----------------------------------------------------------------------------
(* cancel_session, called for a cancel request of the sender and when the  *)
(* user cancels on this device.                                            *)

CancelMark(s) ==
  /\ Accepting(s)
  /\ status' = [status EXCEPT ![s] = "Cancelled"]
  /\ doomed' = [doomed EXCEPT ![s] = @ \cup {PathOf(f) : f \in Offers[s]}]
  /\ UNCHANGED <<dir, progress, savedPaths, pc, req, fileVars>>

(* Faulty variant of CancelRemove: the files already saved are removed too.*)
CancelRemoveSaved(s, p) ==
  /\ p \in doomed[s]
  /\ part' = [part EXCEPT ![p] = Nil]
  /\ library' = {e \in library : e.file \notin savedPaths[s]}
  /\ doomed' = [doomed EXCEPT ![s] = @ \ {p}]
  /\ UNCHANGED <<dir, sessionVars, pc, req, disk>>

CancelRemove(s, p) ==
  /\ p \in doomed[s]
  /\ Unlink(p)
  /\ doomed' = [doomed EXCEPT ![s] = @ \ {p}]
  /\ UNCHANGED <<dir, sessionVars, pc, req, disk, library>>

(* prune_expired_sessions: the session has been idle for an hour.          *)
Prune(s) ==
  /\ Exists(s)
  /\ status' = [status EXCEPT ![s] = "gone"]
  /\ progress' = [progress EXCEPT ![s] = NoProgress]
  /\ savedPaths' = [savedPaths EXCEPT ![s] = {}]
  /\ UNCHANGED <<dir, pc, req, doomed, fileVars>>

(* The user picks another download folder in the settings.                 *)
SetDownloadDir(d) ==
  /\ "chdir" \in Faults /\ d # dir
  /\ dir' = d
  /\ UNCHANGED <<sessionVars, pc, req, doomed, fileVars>>

(* A handler ends early: the connection is lost, the body is refused or a  *)
(* file operation fails.  Nothing is cleaned up.  A commit already handed  *)
(* to the blocking pool runs on, but nobody records its result.            *)
Abort(s) ==
  /\ "abort" \in Faults
  /\ \/ /\ pc[s] \in {"open", "write", "create", "size", "verify", "record"}
        /\ Reply(s, "error")
     \/ /\ pc[s] \in {"commit", "copy", "unlink"} /\ ~req[s].detached
        /\ req' = [req EXCEPT ![s].detached = TRUE]
        /\ UNCHANGED pc
  /\ UNCHANGED <<dir, sessionVars, doomed, fileVars>>

(* The process dies: sessions and handlers are lost, files stay.           *)
Crash ==
  /\ \/ "torn" \in Faults
     \/ "crash" \in Faults /\ \A s \in Session : pc[s] \notin {"copy", "unlink"}
  /\ \E s \in Session : Exists(s) \/ ~Ready(s)
  /\ status' = [s \in Session |-> IF Exists(s) THEN "gone" ELSE status[s]]
  /\ pc' = [s \in Session |-> IF Ready(s) THEN pc[s] ELSE "error"]
  /\ progress' = [s \in Session |-> NoProgress]
  /\ savedPaths' = [s \in Session |-> {}]
  /\ req' = [s \in Session |-> NoRequest]
  /\ doomed' = [s \in Session |-> {}]
  /\ UNCHANGED <<dir, fileVars>>

-----------------------------------------------------------------------------
Chunk(s) == \/ \E f \in File : \E off \in 0 .. Size[f] :
                 \E n \in 1 .. (Size[f] - off) : ChunkCheck(s, f, off, n)
            \/ ChunkOpen(s) \/ ChunkWrite(s) \/ ChunkUpdate(s)
Finish(s) == \/ \E f \in File : FinishCheck(s, f)
             \/ FinishCreate(s) \/ FinishSize(s) \/ FinishVerify(s)
             \/ CommitLink(s) \/ CommitCreateCopy(s) \/ CommitCopy(s)
             \/ CommitUnlink(s) \/ FinishRecord(s)
Cancel(s) == CancelMark(s) \/ \E p \in Path : CancelRemove(s, p)

Next == \/ \E s \in Session : \/ CreateSession(s) \/ Refuse(s)
                              \/ Chunk(s) \/ Finish(s) \/ Cancel(s)
                              \/ Prune(s) \/ Abort(s)
        \/ \E d \in Dir : SetDownloadDir(d)
        \/ Crash

Spec == Init /\ [][Next]_vars

-----------------------------------------------------------------------------
(* What a request's handler may be doing, and the values of the variables. *)
Label == {"idle", "ok", "error", "cancelled", "open", "write", "create", "size",
          "verify", "commit", "copy", "unlink", "record"}
RequestType == [file : File \cup {Nil}, path : Path \cup {Nil}, pos : Nat, end : Nat,
                fd : Inode \cup {Nil}, detached : BOOLEAN]

RequestsOK ==
  \A s \in Session : ~Ready(s) =>
    /\ req[s].file \in File
    /\ req[s].path \in Path /\ req[s].path[2] = KeyOf[req[s].file]
    /\ req[s].pos <= req[s].end /\ req[s].end <= Size[req[s].file]
    /\ pc[s] \in {"write", "copy"} => req[s].fd \in Inode

(* Every variable has its type, and a request in flight names an entry, a  *)
(* .part path of that entry's name and, once it writes, an open file.      *)
TypeOK ==
  /\ dir \in Dir
  /\ status \in [Session -> {"none", "Accepted", "Completed", "Cancelled", "gone"}]
  /\ progress \in [Session -> [File -> Nat]]
  /\ savedPaths \in [Session -> SUBSET File]
  /\ pc \in [Session -> Label]
  /\ req \in [Session -> RequestType]
  /\ doomed \in [Session -> SUBSET Path]
  /\ part \in [Path -> Inode \cup {Nil}]
  /\ disk \in [Inode -> Contents]
  /\ library \subseteq [file : File, inode : Inode]
  /\ RequestsOK

(* The file of a library entry is complete on disk: no copy into it runs.  *)
Settled(e) == \A s \in Session : pc[s] = "copy" => req[s].fd # e.inode

(* Every file in the download folder holds exactly the bytes whose hash    *)
(* the sender announced, whatever was written, cancelled or replaced       *)
(* between the verification of its .part and the commit.                   *)
SavedIntact == \A e \in library : Settled(e) => Intact(e.inode, e.file)

(* A file in the download folder is no longer reachable under a .part      *)
(* name, so that no later chunk of any session is written into it; only    *)
(* the commit that is between its hard link and the removal of the .part   *)
(* sees both names.                                                        *)
NoAliasing ==
  \A e \in library, p \in Path :
    part[p] = e.inode => \E s \in Session : pc[s] = "unlink" /\ req[s].path = p

(* A file that is in the download folder stays there with its contents:    *)
(* no chunk, cancel, commit or prune of any session touches it again.      *)
SavedFileStable ==
  [][\A e \in library : Settled(e) =>
       e \in library' /\ disk'[e.inode] = disk[e.inode]]_vars

(* When a cancel has run and the cancelled session's last request has been *)
(* answered, none of the session's .part files is left.                    *)
CancelCleansUp ==
  \A s \in Session :
    status[s] = "Cancelled" /\ doomed[s] = {} /\ Ready(s) =>
      \A f \in Offers[s], d \in Dir : part[<<d, KeyOf[f]>>] = Nil

(* A cancelled session stays cancelled: "marks it cancelled so further     *)
(* chunks and finishes are refused" (state.rs:597-598).                    *)
CancelIsFinal ==
  [][\A s \in Session : status[s] = "Cancelled" => status'[s] \in {"Cancelled", "gone"}]_vars
=============================================================================
