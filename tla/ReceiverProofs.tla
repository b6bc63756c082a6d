--------------------------- MODULE ReceiverProofs ---------------------------
(***************************************************************************)
(* Proofs about Receiver, for every set of sessions, entries, .part names, *)
(* folders and inodes.                                                     *)
(***************************************************************************)
EXTENDS Receiver, TLAPS

StatusType == {"none", "Accepted", "Completed", "Cancelled", "gone"}

(* The conjuncts of TypeOK about the request slots and about the rest.     *)
SlotsOK == /\ pc \in [Session -> Label]
           /\ req \in [Session -> RequestType]
           /\ RequestsOK
TablesOK == /\ dir \in Dir
            /\ status \in [Session -> StatusType]
            /\ progress \in [Session -> [File -> Nat]]
            /\ savedPaths \in [Session -> SUBSET File]
            /\ doomed \in [Session -> SUBSET Path]
FilesOK == /\ part \in [Path -> Inode \cup {Nil}]
           /\ disk \in [Inode -> Contents]
           /\ library \subseteq [file : File, inode : Inode]

LEMMA TypeParts == TypeOK <=> SlotsOK /\ TablesOK /\ FilesOK
  BY DEF TypeOK, SlotsOK, TablesOK, FilesOK, StatusType

LEMMA PathOfType == ASSUME dir \in Dir, NEW f \in File
                    PROVE  PathOf(f) \in Path /\ PathOf(f)[2] = KeyOf[f]
  BY KeyAssumption DEF PathOf, Path

LEMMA EmptyType == Empty \in Contents
  BY DEF Empty, Contents

-----------------------------------------------------------------------------
(* How the three ways of moving a request keep the slots typed.            *)

LEMMA ReplyKeepsSlots ==
  ASSUME SlotsOK, NEW s \in Session, NEW a \in {"ok", "error", "cancelled"}, Reply(s, a)
  PROVE  SlotsOK'
<1>1. NoRequest \in RequestType
  BY DEF NoRequest, RequestType
<1>2. pc' \in [Session -> Label] /\ req' \in [Session -> RequestType]
  BY <1>1 DEF SlotsOK, Reply, Label
<1>3. ASSUME NEW t \in Session PROVE \/ Ready(t)'
                                     \/ pc'[t] = pc[t] /\ req'[t] = req[t]
  BY DEF SlotsOK, Reply, Ready
<1>4. RequestsOK'
  BY <1>3 DEF SlotsOK, RequestsOK, Ready
<1>5. QED
  BY <1>2, <1>4 DEF SlotsOK

LEMMA GotoKeepsSlots ==
  ASSUME SlotsOK, NEW s \in Session, ~Ready(s),
         NEW l \in {"size", "verify", "commit", "unlink", "record"}, Goto(s, l)
  PROVE  SlotsOK'
<1>1. pc' \in [Session -> Label] /\ req' \in [Session -> RequestType]
  BY DEF SlotsOK, Goto, Label
<1>2. RequestsOK'
  BY DEF SlotsOK, RequestsOK, Goto, Ready
<1>3. QED
  BY <1>1, <1>2 DEF SlotsOK

LEMMA StartKeepsSlots ==
  ASSUME SlotsOK, dir \in Dir, NEW s \in Session, NEW f \in File,
         NEW off \in Nat, NEW end \in Nat, off <= end, end <= Size[f],
         NEW l \in {"open", "create"},
         pc' = [pc EXCEPT ![s] = l],
         req' = [req EXCEPT ![s] = Request(f, off, end)]
  PROVE  SlotsOK'
<1>1. Request(f, off, end) = [file |-> f, path |-> PathOf(f), pos |-> off,
                              end |-> end, fd |-> Nil, detached |-> FALSE]
  BY DEF Request
<1>2. Request(f, off, end) \in RequestType
  <2>1. PathOf(f) \in Path
    BY PathOfType
  <2>2. /\ f \in File \cup {Nil} /\ PathOf(f) \in Path \cup {Nil}
        /\ Nil \in Inode \cup {Nil}
    BY <2>1
  <2>3. QED
    BY <1>1, <2>2 DEF RequestType
<1>3. pc' \in [Session -> Label] /\ req' \in [Session -> RequestType]
  BY <1>2 DEF SlotsOK, Label
<1>4. RequestsOK'
  <2> SUFFICES ASSUME NEW t \in Session, ~Ready(t)'
               PROVE  /\ req'[t].file \in File
                      /\ req'[t].path \in Path /\ req'[t].path[2] = KeyOf[req'[t].file]
                      /\ req'[t].pos <= req'[t].end /\ req'[t].end <= Size[req'[t].file]
                      /\ pc'[t] \in {"write", "copy"} => req'[t].fd \in Inode
    BY DEF RequestsOK
  <2>1. CASE t = s
    BY <2>1, <1>1, PathOfType DEF SlotsOK
  <2>2. CASE t # s
    BY <2>2 DEF SlotsOK, RequestsOK, Ready
  <2>3. QED
    BY <2>1, <2>2
<1>5. QED
  BY <1>3, <1>4 DEF SlotsOK

(* Opening a file: the slot moves on and remembers the inode.              *)
LEMMA OpenKeepsSlots ==
  ASSUME SlotsOK, NEW s \in Session, ~Ready(s), NEW i \in Inode,
         NEW l \in {"write", "copy"},
         pc' = [pc EXCEPT ![s] = l],
         req' = [req EXCEPT ![s].fd = i]
  PROVE  SlotsOK'
<1>1. [req[s] EXCEPT !.fd = i] \in RequestType
  BY DEF SlotsOK, RequestType
<1>2. pc' \in [Session -> Label] /\ req' \in [Session -> RequestType]
  BY <1>1 DEF SlotsOK, Label
<1>3. \A t \in Session : t # s => req'[t] = req[t] /\ pc'[t] = pc[t]
  BY DEF SlotsOK
<1>4. /\ req'[s].file = req[s].file /\ req'[s].path = req[s].path
      /\ req'[s].pos = req[s].pos /\ req'[s].end = req[s].end /\ req'[s].fd = i
  BY DEF SlotsOK, RequestType
<1>5. RequestsOK'
  BY <1>3, <1>4 DEF SlotsOK, RequestsOK, Ready
<1>6. QED
  BY <1>2, <1>5 DEF SlotsOK

LEMMA WriteKeepsSlots ==
  ASSUME SlotsOK, NEW s \in Session, pc[s] = "write", req[s].pos < req[s].end,
         req' = [req EXCEPT ![s].pos = @ + 1], pc' = pc
  PROVE  SlotsOK'
<1>1. [req[s] EXCEPT !.pos = @ + 1] \in RequestType
  BY DEF SlotsOK, RequestType
<1>2. req' \in [Session -> RequestType]
  BY <1>1 DEF SlotsOK
<1>3. \A t \in Session : t # s => req'[t] = req[t]
  BY DEF SlotsOK
<1>4. /\ req'[s].file = req[s].file /\ req'[s].path = req[s].path
      /\ req'[s].pos = req[s].pos + 1 /\ req'[s].end = req[s].end
      /\ req'[s].fd = req[s].fd
  BY DEF SlotsOK, RequestType
<1>5. req[s].pos \in Nat /\ req[s].end \in Nat
  BY DEF SlotsOK, RequestType
<1>6. RequestsOK'
  BY <1>3, <1>4, <1>5 DEF SlotsOK, RequestsOK, Ready
<1>7. QED
  BY <1>2, <1>6 DEF SlotsOK

LEMMA DetachKeepsSlots ==
  ASSUME SlotsOK, NEW s \in Session,
         req' = [req EXCEPT ![s].detached = TRUE], pc' = pc
  PROVE  SlotsOK'
<1>1. [req[s] EXCEPT !.detached = TRUE] \in RequestType
  BY DEF SlotsOK, RequestType
<1>2. req' \in [Session -> RequestType]
  BY <1>1 DEF SlotsOK
<1>3. \A t \in Session : /\ req'[t].file = req[t].file /\ req'[t].path = req[t].path
                         /\ req'[t].pos = req[t].pos /\ req'[t].end = req[t].end
                         /\ req'[t].fd = req[t].fd
  BY DEF SlotsOK, RequestType
<1>4. RequestsOK'
  BY <1>3 DEF SlotsOK, RequestsOK, Ready
<1>5. QED
  BY <1>2, <1>4 DEF SlotsOK

LEMMA StutterKeepsSlots == ASSUME SlotsOK, UNCHANGED <<pc, req>> PROVE SlotsOK'
  BY DEF SlotsOK, RequestsOK, Ready

-----------------------------------------------------------------------------
LEMMA InitTypeOK == Init => TypeOK
<1> SUFFICES ASSUME Init PROVE SlotsOK /\ TablesOK /\ FilesOK
  BY TypeParts
<1>1. SlotsOK
  BY DEF Init, SlotsOK, RequestsOK, Ready, NoRequest, RequestType, Label
<1>2. TablesOK
  BY DEF Init, TablesOK, StatusType, NoProgress
<1>3. FilesOK
  BY EmptyType DEF Init, FilesOK
<1>4. QED
  BY <1>1, <1>2, <1>3

LEMMA SlotsStep == TypeOK /\ [Next]_vars => SlotsOK'
<1> SUFFICES ASSUME SlotsOK, TablesOK, FilesOK, [Next]_vars PROVE SlotsOK'
  BY TypeParts
<1> USE DEF Ready
<1>1. ASSUME NEW s \in Session,
             \/ CreateSession(s) \/ CancelMark(s) \/ Prune(s)
             \/ \E p \in Path : CancelRemove(s, p)
      PROVE  SlotsOK'
  BY <1>1, StutterKeepsSlots DEF CreateSession, CancelMark, Prune, CancelRemove
<1>2. ASSUME NEW s \in Session, Refuse(s) \/ ChunkUpdate(s) \/ FinishRecord(s)
      PROVE  SlotsOK'
  BY <1>2, ReplyKeepsSlots DEF Refuse, ChunkUpdate, FinishRecord
<1>3. ASSUME NEW s \in Session, NEW f \in File, NEW off \in 0 .. Size[f],
             NEW n \in 1 .. (Size[f] - off), ChunkCheck(s, f, off, n)
      PROVE SlotsOK'
  <2>1. Size[f] \in Nat
    BY SizeAssumption
  <2>2. off \in Nat /\ off + n \in Nat /\ off <= off + n /\ off + n <= Size[f]
    BY <2>1
  <2>3. QED
    BY <1>3, <2>2, StartKeepsSlots DEF ChunkCheck, TablesOK
<1>4. ASSUME NEW s \in Session, NEW f \in File, FinishCheck(s, f) PROVE SlotsOK'
  <2>1. Size[f] \in Nat
    BY SizeAssumption
  <2>2. 0 \in Nat /\ 0 <= 0 /\ 0 <= Size[f]
    BY <2>1
  <2>3. /\ pc' = [pc EXCEPT ![s] = "create"]
        /\ req' = [req EXCEPT ![s] = Request(f, 0, 0)]
    BY <1>4 DEF FinishCheck
  <2>4. QED
    BY <2>2, <2>3, StartKeepsSlots DEF TablesOK
<1>5. ASSUME NEW s \in Session, ChunkOpen(s) PROVE SlotsOK'
  <2>1. req[s].path \in Path
    BY <1>5 DEF ChunkOpen, SlotsOK, RequestsOK
  <2>2. PICK i \in Inode : req' = [req EXCEPT ![s].fd = i]
    BY <1>5, <2>1 DEF ChunkOpen, FilesOK, Free
  <2>3. QED
    BY <1>5, <2>2, OpenKeepsSlots DEF ChunkOpen
<1>6. ASSUME NEW s \in Session, ChunkWrite(s) PROVE SlotsOK'
  BY <1>6, WriteKeepsSlots DEF ChunkWrite
<1>7. ASSUME NEW s \in Session,
             \/ FinishCreate(s) \/ FinishSize(s) \/ FinishVerify(s)
             \/ CommitLink(s) \/ CommitCopy(s) \/ CommitUnlink(s)
      PROVE  SlotsOK'
  <2>1. ~Ready(s)
    BY <1>7 DEF FinishCreate, FinishSize, FinishVerify, CommitLink, CommitCopy, CommitUnlink
  <2>2. \/ Reply(s, "error")
        \/ \E l \in {"size", "verify", "commit", "unlink", "record"} : Goto(s, l)
    BY <1>7 DEF FinishCreate, FinishSize, FinishVerify, CommitLink, CommitCopy, CommitUnlink
  <2>3. CASE Reply(s, "error")
    BY <2>3, ReplyKeepsSlots
  <2>4. ASSUME NEW l \in {"size", "verify", "commit", "unlink", "record"}, Goto(s, l)
        PROVE  SlotsOK'
    BY <2>1, <2>4, GotoKeepsSlots
  <2>5. QED
    BY <2>2, <2>3, <2>4
<1>8. ASSUME NEW s \in Session, CommitCreateCopy(s) PROVE SlotsOK'
  <2>1. CASE Reply(s, "error")
    BY <2>1, ReplyKeepsSlots
  <2>2. CASE \E i \in Free : /\ pc' = [pc EXCEPT ![s] = "copy"]
                             /\ req' = [req EXCEPT ![s].fd = i]
    BY <1>8, <2>2, OpenKeepsSlots DEF CommitCreateCopy, Free
  <2>3. QED
    BY <1>8, <2>1, <2>2 DEF CommitCreateCopy
<1>9. ASSUME NEW s \in Session, Abort(s) PROVE SlotsOK'
  BY <1>9, ReplyKeepsSlots, DetachKeepsSlots DEF Abort
<1>10. ASSUME NEW d \in Dir, SetDownloadDir(d) PROVE SlotsOK'
  BY <1>10, StutterKeepsSlots DEF SetDownloadDir
<1>11. CASE Crash
  <2>1. NoRequest \in RequestType
    BY DEF NoRequest, RequestType
  <2>2. QED
    BY <1>11, <2>1 DEF Crash, SlotsOK, RequestsOK, Label
<1>12. CASE UNCHANGED vars
  BY <1>12, StutterKeepsSlots DEF vars
<1>13. QED
  BY <1>1, <1>2, <1>3, <1>4, <1>5, <1>6, <1>7, <1>8, <1>9, <1>10, <1>11, <1>12
  DEF Next, Chunk, Finish, Cancel

LEMMA TablesStep == TypeOK /\ [Next]_vars => TablesOK'
<1> SUFFICES ASSUME SlotsOK, TablesOK, FilesOK, [Next]_vars PROVE TablesOK'
  BY TypeParts
<1> USE DEF StatusType
<1>1. ASSUME NEW s \in Session, CreateSession(s) PROVE TablesOK'
  <2>1. ASSUME NEW f \in File PROVE PartLen(PathOf(f)) \in Nat
    BY PathOfType DEF TablesOK, FilesOK, PartLen, Contents
  <2>2. [f \in File |-> IF f \in Offers[s] THEN PartLen(PathOf(f)) ELSE 0] \in [File -> Nat]
    BY <2>1
  <2>3. QED
    BY <1>1, <2>2 DEF CreateSession, TablesOK
<1>2. ASSUME NEW s \in Session, ChunkUpdate(s) PROVE TablesOK'
  <2>1. req[s].end \in Nat
    BY DEF SlotsOK, RequestType
  <2>2. CASE progress' = [progress EXCEPT ![s][req[s].file] = req[s].end]
    <3>1. [progress[s] EXCEPT ![req[s].file] = req[s].end] \in [File -> Nat]
      BY <2>1 DEF TablesOK
    <3>2. QED
      BY <1>2, <2>2, <3>1 DEF ChunkUpdate, TablesOK
  <2>3. CASE UNCHANGED progress
    BY <1>2, <2>3 DEF ChunkUpdate, TablesOK
  <2>4. QED
    BY <1>2, <2>2, <2>3 DEF ChunkUpdate
<1>3. ASSUME NEW s \in Session, FinishRecord(s) PROVE TablesOK'
  <2> DEFINE f == req[s].file
             done == [progress[s] EXCEPT ![f] = Size[f]]
  <2>1. f \in File
    BY <1>3 DEF FinishRecord, SlotsOK, RequestsOK, Ready
  <2>2. done \in [File -> Nat]
    BY <2>1, SizeAssumption DEF TablesOK
  <2>3. CASE UNCHANGED sessionVars
    BY <1>3, <2>3 DEF FinishRecord, TablesOK, sessionVars
  <2>4. CASE /\ progress' = [progress EXCEPT ![s] = done]
             /\ savedPaths' = [savedPaths EXCEPT ![s] = @ \cup {f}]
             /\ \/ status' = [status EXCEPT ![s] = "Completed"]
                \/ status' = status
    <3>1. savedPaths[s] \cup {f} \in SUBSET File
      BY <2>1 DEF TablesOK
    <3>2. QED
      BY <1>3, <2>2, <2>4, <3>1 DEF FinishRecord, TablesOK
  <2>5. QED
    BY <1>3, <2>3, <2>4 DEF FinishRecord
<1>4. ASSUME NEW s \in Session, CancelMark(s) PROVE TablesOK'
  <2>1. {PathOf(f) : f \in Offers[s]} \in SUBSET Path
    BY PathOfType, OffersAssumption DEF TablesOK
  <2>2. QED
    BY <1>4, <2>1 DEF CancelMark, TablesOK
<1>5. ASSUME NEW s \in Session, NEW p \in Path, CancelRemove(s, p) PROVE TablesOK'
  <2>1. doomed[s] \ {p} \in SUBSET Path
    BY DEF TablesOK
  <2>2. QED
    BY <1>5, <2>1 DEF CancelRemove, TablesOK, sessionVars
<1>6. ASSUME NEW s \in Session, Prune(s) PROVE TablesOK'
  <2>1. NoProgress \in [File -> Nat] /\ {} \in SUBSET File
    BY DEF NoProgress
  <2>2. QED
    BY <1>6, <2>1 DEF Prune, TablesOK
<1>7. ASSUME NEW d \in Dir, SetDownloadDir(d) PROVE TablesOK'
  BY <1>7 DEF SetDownloadDir, TablesOK, sessionVars
<1>8. CASE Crash
  <2>1. NoProgress \in [File -> Nat] /\ {} \in SUBSET File /\ {} \in SUBSET Path
    BY DEF NoProgress
  <2>2. status' \in [Session -> StatusType]
    BY <1>8 DEF Crash, TablesOK
  <2>3. QED
    BY <1>8, <2>1, <2>2 DEF Crash, TablesOK
<1>9. ASSUME UNCHANGED <<dir, sessionVars, doomed>> PROVE TablesOK'
  BY <1>9 DEF TablesOK, sessionVars
<1>10. ASSUME NEW s \in Session,
              \/ Refuse(s) \/ ChunkOpen(s) \/ ChunkWrite(s) \/ Abort(s)
              \/ FinishCreate(s) \/ FinishSize(s) \/ FinishVerify(s)
              \/ CommitLink(s) \/ CommitCreateCopy(s) \/ CommitCopy(s) \/ CommitUnlink(s)
              \/ \E f \in File : \/ FinishCheck(s, f)
                                 \/ \E off, n \in Nat : ChunkCheck(s, f, off, n)
       PROVE  TablesOK'
  BY <1>9, <1>10
  DEF Refuse, ChunkOpen, ChunkWrite, Abort, FinishCreate, FinishSize, FinishVerify,
      CommitLink, CommitCreateCopy, CommitCopy, CommitUnlink, FinishCheck, ChunkCheck
<1>11. CASE UNCHANGED vars
  BY <1>9, <1>11 DEF vars, sessionVars
<1>12. \A f \in File : \A off \in 0 .. Size[f] : \A n \in 1 .. (Size[f] - off) :
         off \in Nat /\ n \in Nat
  BY SizeAssumption
<1>13. QED
  BY <1>1, <1>2, <1>3, <1>4, <1>5, <1>6, <1>7, <1>8, <1>10, <1>11, <1>12
  DEF Next, Chunk, Finish, Cancel

LEMMA FilesStep == TypeOK /\ [Next]_vars => FilesOK'
<1> SUFFICES ASSUME SlotsOK, TablesOK, FilesOK, [Next]_vars PROVE FilesOK'
  BY TypeParts
<1>1. ASSUME NEW s \in Session, ~Ready(s)
      PROVE  req[s].path \in Path /\ req[s].file \in File
  BY <1>1 DEF SlotsOK, RequestsOK
<1>2. ASSUME NEW s \in Session, ChunkOpen(s) PROVE FilesOK'
  BY <1>1, <1>2, EmptyType DEF ChunkOpen, FilesOK, Free, Ready
<1>3. ASSUME NEW s \in Session, ChunkWrite(s) PROVE FilesOK'
  <2>1. req[s].fd \in Inode /\ req[s].pos \in Nat
    BY <1>3 DEF ChunkWrite, SlotsOK, RequestsOK, RequestType, Ready
  <2>2. PICK ok \in BOOLEAN :
          disk' = [disk EXCEPT ![req[s].fd] = WithBlock(@, req[s].pos, ok)]
    BY <1>3 DEF ChunkWrite
  <2>3. WithBlock(disk[req[s].fd], req[s].pos, ok) \in Contents
    BY <2>1 DEF WithBlock, Contents, FilesOK
  <2>4. QED
    BY <1>3, <2>2, <2>3 DEF ChunkWrite, FilesOK
<1>4. ASSUME NEW s \in Session, ChunkUpdate(s) PROVE FilesOK'
  BY <1>4 DEF ChunkUpdate, Unlink, FilesOK
<1>5. ASSUME NEW s \in Session, FinishCreate(s) PROVE FilesOK'
  BY <1>1, <1>5, EmptyType DEF FinishCreate, FilesOK, Free, Ready
<1>6. ASSUME NEW s \in Session, CommitLink(s) PROVE FilesOK'
  BY <1>1, <1>6 DEF CommitLink, FilesOK, Ready
<1>7. ASSUME NEW s \in Session, CommitCreateCopy(s) PROVE FilesOK'
  BY <1>1, <1>7, EmptyType DEF CommitCreateCopy, FilesOK, Free, Ready
<1>8. ASSUME NEW s \in Session, CommitCopy(s) PROVE FilesOK'
  BY <1>1, <1>8 DEF CommitCopy, FilesOK, Ready
<1>9. ASSUME NEW s \in Session, CommitUnlink(s) PROVE FilesOK'
  BY <1>9 DEF CommitUnlink, Unlink, FilesOK
<1>10. ASSUME NEW s \in Session, NEW p \in Path, CancelRemove(s, p) PROVE FilesOK'
  BY <1>10 DEF CancelRemove, Unlink, FilesOK
<1>11. ASSUME UNCHANGED fileVars PROVE FilesOK'
  BY <1>11 DEF fileVars, FilesOK
<1>12. ASSUME NEW s \in Session,
              \/ CreateSession(s) \/ Refuse(s) \/ FinishSize(s) \/ FinishVerify(s)
              \/ FinishRecord(s) \/ CancelMark(s) \/ Prune(s) \/ Abort(s)
              \/ \E f \in File : \/ FinishCheck(s, f)
                                 \/ \E off, n \in Nat : ChunkCheck(s, f, off, n)
       PROVE  FilesOK'
  BY <1>11, <1>12 DEF CreateSession, Refuse, FinishSize, FinishVerify, FinishRecord,
     CancelMark, Prune, Abort, FinishCheck, ChunkCheck, fileVars
<1>13. CASE \/ \E d \in Dir : SetDownloadDir(d)
            \/ Crash
            \/ UNCHANGED vars
  BY <1>11, <1>13 DEF SetDownloadDir, Crash, vars, fileVars
<1>14. \A f \in File : \A off \in 0 .. Size[f] : \A n \in 1 .. (Size[f] - off) :
         off \in Nat /\ n \in Nat
  BY SizeAssumption
<1>15. QED
  BY <1>2, <1>3, <1>4, <1>5, <1>6, <1>7, <1>8, <1>9, <1>10, <1>12, <1>13, <1>14
  DEF Next, Chunk, Finish, Cancel

(* Every variable of the receiver keeps its type, and a request in flight  *)
(* keeps naming an entry, its .part and its open file, whatever faults are *)
(* allowed.                                                                *)
THEOREM TypeCorrect == Spec => []TypeOK
<1>1. TypeOK /\ [Next]_vars => TypeOK'
  BY SlotsStep, TablesStep, FilesStep, TypeParts
  DEF TypeOK, SlotsOK, TablesOK, FilesOK, StatusType
<1>2. QED
  BY InitTypeOK, <1>1, PTL DEF Spec

-----------------------------------------------------------------------------
(***************************************************************************)
(* SavedIntact.  It is not inductive: between the verification of a .part  *)
(* and its commit the .part must not be replaced, a chunk handler must not *)
(* write into a file that is already in the library, and the target of a   *)
(* running copy must be reachable from nowhere else.  The argument is one  *)
(* of ownership of inodes.                                                 *)
(***************************************************************************)

(* Requests in flight work on different .part names.                       *)
KeysApart ==
  \A s, t \in Session :
    ~Ready(s) /\ ~Ready(t) /\ KeyOf[req[s].file] = KeyOf[req[t].file] => s = t

(* An inode has at most one .part name.                                    *)
PartsApart == \A p, q \in Path : part[p] = part[q] /\ part[p] # Nil => p = q

(* The file a chunk handler writes is not in the library, and if it still  *)
(* has a .part name, that is the name the handler opened.                  *)
WriterOwnsPart ==
  \A s \in Session : pc[s] = "write" =>
    /\ \A e \in library : e.inode # req[s].fd
    /\ \A p \in Path : part[p] = req[s].fd => p = req[s].path

(* The target of a copy has no .part name, is open in no other handler,    *)
(* and is the library's file for the entry that is being finished.         *)
CopyOwnsTarget ==
  \A s \in Session : pc[s] = "copy" =>
    /\ \A p \in Path : part[p] # req[s].fd
    /\ \A t \in Session : pc[t] \in {"write", "copy"} /\ req[t].fd = req[s].fd => s = t
    /\ \A e \in library : e.inode = req[s].fd => e.file = req[s].file

(* A verified .part is intact until it is committed, unless it is removed. *)
VerifiedStaysIntact ==
  \A s \in Session :
    pc[s] \in {"commit", "copy"} /\ part[req[s].path] # Nil =>
      Intact(part[req[s].path], req[s].file)

Ownership == /\ PartsApart /\ WriterOwnsPart /\ CopyOwnsTarget
             /\ VerifiedStaysIntact /\ NoAliasing /\ SavedIntact

IInv == TypeOK /\ KeysApart /\ Ownership

(* Requests of two sessions for one .part do not overlap, the process is   *)
(* not killed between the two steps of a commit, and the .part is removed. *)
Orderly == \A fault \in {"overlap", "torn", "stuck"} : fault \notin Faults

LEMMA Unlinked ==
  ASSUME "stuck" \notin Faults, NEW p, Unlink(p) PROVE part' = [part EXCEPT ![p] = Nil]
BY DEF Unlink

LEMMA PathsApart ==
  ASSUME SlotsOK, KeysApart,
         NEW s \in Session, NEW t \in Session, ~Ready(s), ~Ready(t), s # t
  PROVE  req[s].path # req[t].path
  BY DEF SlotsOK, RequestsOK, KeysApart

(* A request only starts on a .part name nobody else works on.             *)
LEMMA KeysApartStep ==
  ASSUME "overlap" \notin Faults, SlotsOK, KeysApart, [Next]_vars
  PROVE  KeysApart'
<1>1. ASSUME \A t \in Session : ~Ready(t)' => ~Ready(t) /\ req'[t].file = req[t].file
      PROVE  KeysApart'
  BY <1>1 DEF KeysApart
<1>2. ASSUME NEW s \in Session, NEW f \in File, MayStart(f),
             NEW l, pc' = [pc EXCEPT ![s] = l], NEW r, req' = [req EXCEPT ![s] = r],
             r.file = f
      PROVE  KeysApart'
  <2>1. \A t \in Session : ~InFlight(t, KeyOf[f])
    BY <1>2 DEF MayStart
  <2>2. \A t \in Session : t # s => (Ready(t)' <=> Ready(t)) /\ req'[t].file = req[t].file
    BY <1>2 DEF SlotsOK, Ready
  <2>3. req'[s].file = f
    BY <1>2 DEF SlotsOK
  <2>4. QED
    BY <2>1, <2>2, <2>3 DEF KeysApart, InFlight
<1>3. ASSUME NEW s \in Session, NEW a \in {"ok", "error", "cancelled"}, Reply(s, a) PROVE KeysApart'
  <2>1. \A t \in Session : \/ Ready(t)'
                           \/ pc'[t] = pc[t] /\ req'[t] = req[t]
    BY <1>3 DEF Reply, SlotsOK, Ready
  <2>2. QED
    BY <1>1, <2>1 DEF Ready
<1>4. ASSUME NEW s \in Session, ~Ready(s), NEW l, Goto(s, l) PROVE KeysApart'
  <2>1. \A t \in Session : req'[t] = req[t] /\ (t = s \/ pc'[t] = pc[t])
    BY <1>4 DEF Goto, SlotsOK
  <2>2. QED
    BY <1>1, <1>4, <2>1 DEF Ready
<1>5. ASSUME UNCHANGED <<pc, req>> PROVE KeysApart'
  BY <1>1, <1>5 DEF Ready
<1>6. ASSUME NEW s \in Session, ~Ready(s), NEW i,
             \/ /\ req' = [req EXCEPT ![s].fd = i]
                /\ \E l \in {"write", "copy"} : pc' = [pc EXCEPT ![s] = l]
             \/ req' = [req EXCEPT ![s].pos = i] /\ UNCHANGED pc
             \/ req' = [req EXCEPT ![s].detached = i] /\ UNCHANGED pc
      PROVE KeysApart'
  <2>1. \A t \in Session : req'[t].file = req[t].file /\ (t = s \/ pc'[t] = pc[t])
    BY <1>6 DEF SlotsOK, RequestType
  <2>2. QED
    BY <1>1, <1>6, <2>1 DEF Ready
<1>7. CASE \E s \in Session : \/ CreateSession(s) \/ CancelMark(s) \/ Prune(s)
                              \/ \E p \in Path : CancelRemove(s, p)
  BY <1>5, <1>7 DEF CreateSession, CancelMark, Prune, CancelRemove
<1>8. CASE (\E d \in Dir : SetDownloadDir(d)) \/ UNCHANGED vars
  BY <1>5, <1>8 DEF SetDownloadDir, vars
<1>9. CASE \E s \in Session : Refuse(s) \/ ChunkUpdate(s) \/ FinishRecord(s)
  BY <1>3, <1>9 DEF Refuse, ChunkUpdate, FinishRecord
<1>10. ASSUME NEW s \in Session, NEW f \in File,
              FinishCheck(s, f) \/ \E off, n \in Nat : ChunkCheck(s, f, off, n)
       PROVE  KeysApart'
  <2>1. CASE FinishCheck(s, f)
    <3>1. Request(f, 0, 0).file = f
      BY DEF Request
    <3>2. QED
      BY <1>2, <2>1, <3>1 DEF FinishCheck
  <2>2. ASSUME NEW off \in Nat, NEW n \in Nat, ChunkCheck(s, f, off, n) PROVE KeysApart'
    <3>1. Request(f, off, off + n).file = f
      BY DEF Request
    <3>2. QED
      BY <1>2, <2>2, <3>1 DEF ChunkCheck
  <2>3. QED
    BY <1>10, <2>1, <2>2
<1>11. ASSUME NEW s \in Session,
              \/ FinishCreate(s) \/ FinishSize(s) \/ FinishVerify(s)
              \/ CommitLink(s) \/ CommitCopy(s) \/ CommitUnlink(s)
       PROVE  KeysApart'
  <2>1. ~Ready(s)
    BY <1>11 DEF FinishCreate, FinishSize, FinishVerify, CommitLink, CommitCopy,
       CommitUnlink, Ready
  <2>2. Reply(s, "error") \/ \E l : Goto(s, l)
    BY <1>11 DEF FinishCreate, FinishSize, FinishVerify, CommitLink, CommitCopy, CommitUnlink
  <2>3. QED
    BY <1>3, <1>4, <2>1, <2>2
<1>12. ASSUME NEW s \in Session, CommitCreateCopy(s) \/ ChunkOpen(s) \/ ChunkWrite(s)
       PROVE  KeysApart'
  <2>1. ~Ready(s)
    BY <1>12 DEF CommitCreateCopy, ChunkOpen, ChunkWrite, Ready
  <2>2. \/ Reply(s, "error")
        \/ \E i : req' = [req EXCEPT ![s].fd = i]
                  /\ \E l \in {"write", "copy"} : pc' = [pc EXCEPT ![s] = l]
        \/ \E i : req' = [req EXCEPT ![s].pos = i] /\ UNCHANGED pc
    BY <1>12 DEF CommitCreateCopy, ChunkOpen, ChunkWrite
  <2>3. QED
    BY <1>3, <1>6, <2>1, <2>2
<1>13. ASSUME NEW s \in Session, Abort(s) PROVE KeysApart'
  <2>1. \/ Reply(s, "error")
        \/ ~Ready(s) /\ req' = [req EXCEPT ![s].detached = TRUE] /\ UNCHANGED pc
    BY <1>13 DEF Abort, Ready
  <2>2. QED
    BY <1>3, <1>6, <2>1
<1>14. CASE Crash
  BY <1>14 DEF Crash, KeysApart, Ready, SlotsOK
<1>15. \A f \in File : \A off \in 0 .. Size[f] : \A n \in 1 .. (Size[f] - off) :
         off \in Nat /\ n \in Nat
  BY SizeAssumption
<1>16. QED
  BY <1>7, <1>8, <1>9, <1>10, <1>11, <1>12, <1>13, <1>14, <1>15
  DEF Next, Chunk, Finish, Cancel

-----------------------------------------------------------------------------
(* A step that leaves the files alone and brings no handler into "write",  *)
(* "copy", "commit" or "unlink", nor takes one out of "copy" or "unlink".  *)
Quiet ==
  /\ UNCHANGED fileVars
  /\ \A t \in Session :
       /\ \/ pc'[t] \in {"write", "copy", "commit", "unlink"}
          \/ pc[t] \in {"copy", "unlink"}
          => pc'[t] = pc[t]
       /\ pc'[t] \in {"write", "copy", "commit", "unlink"} =>
            /\ req'[t].file = req[t].file /\ req'[t].path = req[t].path
            /\ req'[t].fd = req[t].fd

LEMMA QuietKeepsOwnership == ASSUME Ownership, Quiet PROVE Ownership'
<1>1. PartsApart'
  BY DEF Ownership, PartsApart, Quiet, fileVars
<1>2. WriterOwnsPart'
  BY DEF Ownership, WriterOwnsPart, Quiet, fileVars
<1>3. CopyOwnsTarget'
  BY DEF Ownership, CopyOwnsTarget, Quiet, fileVars
<1>4. VerifiedStaysIntact'
  BY DEF Ownership, VerifiedStaysIntact, Intact, Quiet, fileVars
<1>5. NoAliasing'
  BY DEF Ownership, NoAliasing, Quiet, fileVars
<1>6. SavedIntact'
  BY DEF Ownership, SavedIntact, Settled, Intact, Quiet, fileVars
<1>7. QED
  BY <1>1, <1>2, <1>3, <1>4, <1>5, <1>6 DEF Ownership

(* A new, empty .part at the path of a request that is opening or creating *)
(* it: the inode is reachable from nowhere else.                           *)
LEMMA NewPartKeepsOwnership ==
  ASSUME TypeOK, KeysApart, Ownership,
         NEW s \in Session, pc[s] \in {"open", "create"},
         pc'[s] \in {"write", "size"}, req'[s].path = req[s].path,
         \A t \in Session : t # s => pc'[t] = pc[t] /\ req'[t] = req[t],
         NEW i \in Free, part[req[s].path] = Nil,
         pc'[s] = "write" => req'[s].fd = i,
         part' = [part EXCEPT ![req[s].path] = i],
         disk' = [disk EXCEPT ![i] = Empty],
         UNCHANGED library
  PROVE  Ownership'
<1> USE DEF Ready
<1>1. SlotsOK /\ FilesOK /\ ~Ready(s) /\ req[s].path \in Path
  BY TypeParts DEF SlotsOK, RequestsOK
<1>2. /\ i \in Inode /\ i # Nil
      /\ \A p \in Path : part[p] # i
      /\ \A t \in Session : req[t].fd # i
      /\ \A e \in library : e.inode # i
  BY NilAssumption DEF Free, Referenced
<1>3. \A p \in Path : part'[p] = IF p = req[s].path THEN i ELSE part[p]
  BY <1>1 DEF FilesOK
<1>4. \A j \in Inode : j # i => disk'[j] = disk[j]
  BY <1>1 DEF FilesOK
<1>5. PartsApart'
  BY <1>2, <1>3 DEF Ownership, PartsApart
<1>6. WriterOwnsPart'
  BY <1>2, <1>3 DEF Ownership, WriterOwnsPart
<1>7. CopyOwnsTarget'
  BY <1>2, <1>3 DEF Ownership, CopyOwnsTarget
<1>8. VerifiedStaysIntact'
  <2> SUFFICES ASSUME NEW t \in Session, pc'[t] \in {"commit", "copy"},
                      part'[req'[t].path] # Nil
               PROVE  Intact(part[req[t].path], req[t].file)'
    BY DEF VerifiedStaysIntact
  <2>1. t # s /\ ~Ready(t)
    OBVIOUS
  <2>2. req[t].path # req[s].path /\ req[t].path \in Path
    BY <1>1, <2>1, PathsApart DEF SlotsOK, RequestsOK
  <2>3. part'[req'[t].path] = part[req[t].path] /\ part[req[t].path] # i
    BY <1>2, <1>3, <2>1, <2>2
  <2>4. part[req[t].path] \in Inode
    BY <1>1, <2>2, <2>3 DEF FilesOK
  <2>5. QED
    BY <1>4, <2>1, <2>3, <2>4 DEF Ownership, VerifiedStaysIntact, Intact
<1>9. NoAliasing'
  <2> SUFFICES ASSUME NEW e \in library, NEW p \in Path, part'[p] = e.inode
               PROVE  \E t \in Session : pc'[t] = "unlink" /\ req'[t].path = p
    BY DEF NoAliasing
  <2>1. part[p] = e.inode
    BY <1>2, <1>3
  <2>2. PICK t \in Session : pc[t] = "unlink" /\ req[t].path = p
    BY <2>1 DEF Ownership, NoAliasing
  <2>3. t # s
    BY <2>2
  <2>4. QED
    BY <2>2, <2>3
<1>10. SavedIntact'
  <2> SUFFICES ASSUME NEW e \in library, Settled(e)'
               PROVE  Intact(e.inode, e.file)'
    BY DEF SavedIntact
  <2>1. Settled(e)
    BY DEF Settled
  <2>2. e.inode \in Inode /\ e.inode # i
    BY <1>1, <1>2 DEF FilesOK
  <2>3. QED
    BY <1>4, <2>1, <2>2 DEF Ownership, SavedIntact, Intact
<1>11. QED
  BY <1>5, <1>6, <1>7, <1>8, <1>9, <1>10 DEF Ownership

(* A .part that is there belongs to the request at its path alone.         *)
LEMMA ReopenKeepsOwnership ==
  ASSUME TypeOK, KeysApart, Ownership,
         NEW s \in Session, pc[s] = "open",
         pc'[s] = "write", req'[s].path = req[s].path,
         \A t \in Session : t # s => pc'[t] = pc[t] /\ req'[t] = req[t],
         part[req[s].path] # Nil, req'[s].fd = part[req[s].path],
         UNCHANGED fileVars
  PROVE  Ownership'
<1> USE DEF Ready, fileVars
<1>1. SlotsOK /\ FilesOK /\ ~Ready(s) /\ req[s].path \in Path
  BY TypeParts DEF SlotsOK, RequestsOK
<1>2. PartsApart'
  BY DEF Ownership, PartsApart
<1>3. WriterOwnsPart'
  <2>1. \A e \in library : e.inode # part[req[s].path]
    <3> SUFFICES ASSUME NEW e \in library, e.inode = part[req[s].path] PROVE FALSE
      OBVIOUS
    <3>1. PICK t \in Session : pc[t] = "unlink" /\ req[t].path = req[s].path
      BY <1>1 DEF Ownership, NoAliasing
    <3>2. t # s
      BY <3>1
    <3>3. QED
      BY <1>1, <3>1, <3>2, PathsApart
  <2>2. \A p \in Path : part[p] = part[req[s].path] => p = req[s].path
    BY <1>1 DEF Ownership, PartsApart
  <2>3. QED
    BY <2>1, <2>2 DEF Ownership, WriterOwnsPart
<1>4. CopyOwnsTarget'
  BY <1>1 DEF Ownership, CopyOwnsTarget
<1>5. VerifiedStaysIntact'
  BY DEF Ownership, VerifiedStaysIntact, Intact
<1>6. NoAliasing'
  BY DEF Ownership, NoAliasing
<1>7. SavedIntact'
  BY DEF Ownership, SavedIntact, Settled, Intact
<1>8. QED
  BY <1>2, <1>3, <1>4, <1>5, <1>6, <1>7 DEF Ownership

(* A .part name goes away: by a cancel, by a chunk handler that finds its  *)
(* session cancelled, or by the commit that has linked it.                 *)
LEMMA RemovePartKeepsOwnership ==
  ASSUME TypeOK, Ownership, NEW p \in Path,
         part' = [part EXCEPT ![p] = Nil], UNCHANGED <<disk, library>>,
         \A t \in Session :
           /\ pc'[t] \in {"write", "copy", "commit"} \/ pc[t] = "copy" =>
                pc'[t] = pc[t] /\ req'[t] = req[t]
           /\ pc[t] = "unlink" /\ req[t].path # p =>
                pc'[t] = pc[t] /\ req'[t] = req[t]
  PROVE  Ownership'
<1>1. FilesOK /\ SlotsOK
  BY TypeParts
<1>2. \A q \in Path : part'[q] = IF q = p THEN Nil ELSE part[q]
  BY <1>1 DEF FilesOK
<1>3. \A s \in Session : pc[s] \in {"write", "copy"} => req[s].fd \in Inode /\ req[s].fd # Nil
  BY <1>1, NilAssumption DEF SlotsOK, RequestsOK, Ready
<1>4. PartsApart'
  BY <1>2 DEF Ownership, PartsApart
<1>5. WriterOwnsPart'
  BY <1>2, <1>3 DEF Ownership, WriterOwnsPart
<1>6. CopyOwnsTarget'
  BY <1>2, <1>3 DEF Ownership, CopyOwnsTarget
<1>7. VerifiedStaysIntact'
  <2> SUFFICES ASSUME NEW t \in Session, pc'[t] \in {"commit", "copy"},
                      part'[req'[t].path] # Nil
               PROVE  Intact(part[req[t].path], req[t].file)'
    BY DEF VerifiedStaysIntact
  <2>1. pc'[t] = pc[t] /\ req'[t] = req[t]
    OBVIOUS
  <2>2. req[t].path \in Path
    BY <1>1, <2>1 DEF SlotsOK, RequestsOK, Ready
  <2>3. part'[req'[t].path] = part[req[t].path]
    BY <1>2, <2>1, <2>2
  <2>4. QED
    BY <2>1, <2>3 DEF Ownership, VerifiedStaysIntact, Intact
<1>8. NoAliasing'
  <2> SUFFICES ASSUME NEW e \in library, NEW q \in Path, part'[q] = e.inode
               PROVE  \E t \in Session : pc'[t] = "unlink" /\ req'[t].path = q
    BY DEF NoAliasing
  <2>1. q # p /\ part[q] = e.inode
    BY <1>1, <1>2, NilAssumption DEF FilesOK
  <2>2. PICK t \in Session : pc[t] = "unlink" /\ req[t].path = q
    BY <2>1 DEF Ownership, NoAliasing
  <2>3. QED
    BY <2>1, <2>2
<1>9. SavedIntact'
  BY DEF Ownership, SavedIntact, Settled, Intact
<1>10. QED
  BY <1>4, <1>5, <1>6, <1>7, <1>8, <1>9 DEF Ownership

(* A block is written to a file that is not in the library and, if it has  *)
(* a name, only under the writer's own path.                               *)
LEMMA WriteKeepsOwnership ==
  ASSUME TypeOK, KeysApart, Ownership, NEW s \in Session, ChunkWrite(s)
  PROVE  Ownership'
<1>1. SlotsOK /\ FilesOK /\ pc[s] = "write" /\ ~Ready(s) /\ req[s].fd \in Inode
  BY TypeParts DEF ChunkWrite, SlotsOK, RequestsOK, Ready
<1>2. UNCHANGED <<pc, part, library>>
  BY DEF ChunkWrite
<1>3. \A t \in Session : /\ req'[t].file = req[t].file /\ req'[t].path = req[t].path
                         /\ req'[t].fd = req[t].fd
  BY <1>1 DEF ChunkWrite, SlotsOK, RequestType
<1>4. \A j \in Inode : j # req[s].fd => disk'[j] = disk[j]
  BY <1>1 DEF ChunkWrite, FilesOK
<1>5. PartsApart'
  BY <1>2 DEF Ownership, PartsApart
<1>6. WriterOwnsPart'
  BY <1>2, <1>3 DEF Ownership, WriterOwnsPart
<1>7. CopyOwnsTarget'
  BY <1>2, <1>3 DEF Ownership, CopyOwnsTarget
<1>8. VerifiedStaysIntact'
  <2> SUFFICES ASSUME NEW t \in Session, pc[t] \in {"commit", "copy"},
                      part[req[t].path] # Nil
               PROVE  Intact(part[req[t].path], req[t].file)'
    BY <1>2, <1>3 DEF VerifiedStaysIntact
  <2>1. t # s /\ ~Ready(t)
    BY <1>1 DEF Ready
  <2>2. req[t].path \in Path /\ req[t].path # req[s].path
    BY <1>1, <2>1, PathsApart DEF SlotsOK, RequestsOK
  <2>3. part[req[t].path] \in Inode /\ part[req[t].path] # req[s].fd
    BY <1>1, <2>2 DEF FilesOK, Ownership, WriterOwnsPart
  <2>4. QED
    BY <1>2, <1>3, <1>4, <2>3 DEF Ownership, VerifiedStaysIntact, Intact
<1>9. NoAliasing'
  BY <1>2, <1>3 DEF Ownership, NoAliasing
<1>10. SavedIntact'
  <2> SUFFICES ASSUME NEW e \in library, Settled(e)
               PROVE  Intact(e.inode, e.file)'
    BY <1>2, <1>3 DEF SavedIntact, Settled
  <2>1. e.inode \in Inode /\ e.inode # req[s].fd
    BY <1>1 DEF FilesOK, Ownership, WriterOwnsPart
  <2>2. QED
    BY <1>4, <2>1 DEF Ownership, SavedIntact, Intact
<1>11. QED
  BY <1>5, <1>6, <1>7, <1>8, <1>9, <1>10 DEF Ownership

LEMMA VerifyKeepsOwnership ==
  ASSUME TypeOK, Ownership, NEW s \in Session, FinishVerify(s)
  PROVE  Ownership'
<1>1. SlotsOK /\ pc[s] = "verify" /\ UNCHANGED fileVars
  BY TypeParts DEF FinishVerify
<1>2. CASE Reply(s, "error")
  <2>1. Quiet
    BY <1>1, <1>2 DEF Quiet, Reply, SlotsOK
  <2>2. QED
    BY <2>1, QuietKeepsOwnership
<1>3. CASE Goto(s, "commit") /\ Intact(part[req[s].path], req[s].file)
  <2>1. /\ UNCHANGED req
        /\ \A t \in Session : t # s => pc'[t] = pc[t]
        /\ pc'[s] = "commit"
    BY <1>1, <1>3 DEF Goto, SlotsOK
  <2>2. PartsApart' /\ WriterOwnsPart' /\ CopyOwnsTarget'
    BY <1>1, <2>1 DEF Ownership, PartsApart, WriterOwnsPart, CopyOwnsTarget, fileVars
  <2>3. VerifiedStaysIntact'
    BY <1>1, <1>3, <2>1 DEF Ownership, VerifiedStaysIntact, Intact, fileVars
  <2>4. NoAliasing'
    BY <1>1, <2>1 DEF Ownership, NoAliasing, fileVars
  <2>5. SavedIntact'
    BY <1>1, <2>1 DEF Ownership, SavedIntact, Settled, Intact, fileVars
  <2>6. QED
    BY <2>2, <2>3, <2>4, <2>5 DEF Ownership
<1>4. QED
  BY <1>2, <1>3 DEF FinishVerify

(* Linking the verified .part makes it a library file with a second name,  *)
(* which the request that linked it is about to remove.                    *)
LEMMA LinkKeepsOwnership ==
  ASSUME TypeOK, KeysApart, Ownership, NEW s \in Session, CommitLink(s)
  PROVE  Ownership'
<1> DEFINE i == part[req[s].path]
           e == [file |-> req[s].file, inode |-> i]
<1>1. /\ SlotsOK /\ FilesOK /\ pc[s] = "commit" /\ ~Ready(s) /\ req[s].path \in Path
      /\ UNCHANGED <<part, disk>>
  BY TypeParts DEF CommitLink, SlotsOK, RequestsOK, Ready
<1>2. CASE Reply(s, "error") /\ UNCHANGED library
  <2>1. Quiet
    BY <1>1, <1>2 DEF Quiet, Reply, SlotsOK, fileVars
  <2>2. QED
    BY <2>1, QuietKeepsOwnership
<1>3. CASE i # Nil /\ library' = library \cup {e} /\ Goto(s, "unlink")
  <2>1. /\ UNCHANGED req
        /\ \A t \in Session : t # s => pc'[t] = pc[t]
        /\ pc'[s] = "unlink"
    BY <1>1, <1>3 DEF Goto, SlotsOK
  <2>2. ASSUME NEW t \in Session, pc[t] = "write" PROVE req[t].fd # i
    <3>1. t # s /\ ~Ready(t)
      BY <1>1, <2>2 DEF Ready
    <3>2. req[t].path # req[s].path
      BY <1>1, <3>1, PathsApart
    <3>3. QED
      BY <1>1, <2>2, <3>2 DEF Ownership, WriterOwnsPart
  <2>3. ASSUME NEW t \in Session, pc[t] = "copy" PROVE req[t].fd # i
    BY <1>1, <2>3 DEF Ownership, CopyOwnsTarget
  <2>4. PartsApart'
    BY <1>1 DEF Ownership, PartsApart
  <2>5. WriterOwnsPart'
    BY <1>1, <1>3, <2>1, <2>2 DEF Ownership, WriterOwnsPart
  <2>6. CopyOwnsTarget'
    BY <1>1, <1>3, <2>1, <2>3 DEF Ownership, CopyOwnsTarget
  <2>7. VerifiedStaysIntact'
    BY <1>1, <2>1 DEF Ownership, VerifiedStaysIntact, Intact
  <2>8. NoAliasing'
    <3> SUFFICES ASSUME NEW d \in library \cup {e}, NEW p \in Path, part[p] = d.inode
                 PROVE  \E t \in Session : pc'[t] = "unlink" /\ req[t].path = p
      BY <1>1, <1>3, <2>1 DEF NoAliasing
    <3>1. CASE d = e
      BY <1>1, <1>3, <2>1, <3>1 DEF Ownership, PartsApart
    <3>2. CASE d \in library
      <4>1. PICK t \in Session : pc[t] = "unlink" /\ req[t].path = p
        BY <3>2 DEF Ownership, NoAliasing
      <4>2. QED
        BY <1>1, <2>1, <4>1
    <3>3. QED
      BY <3>1, <3>2
  <2>9. SavedIntact'
    <3>1. Intact(e.inode, e.file)
      BY <1>1, <1>3 DEF Ownership, VerifiedStaysIntact
    <3>2. ASSUME NEW d \in library, Settled(d)' PROVE Settled(d)
      BY <1>1, <2>1, <3>2 DEF Settled
    <3>3. QED
      BY <1>1, <1>3, <3>1, <3>2 DEF Ownership, SavedIntact, Intact
  <2>10. QED
    BY <2>4, <2>5, <2>6, <2>7, <2>8, <2>9 DEF Ownership
<1>4. QED
  BY <1>2, <1>3 DEF CommitLink

LEMMA CreateCopyKeepsOwnership ==
  ASSUME TypeOK, KeysApart, Ownership, NEW s \in Session, CommitCreateCopy(s)
  PROVE  Ownership'
<1>1. /\ SlotsOK /\ FilesOK /\ pc[s] = "commit" /\ ~Ready(s) /\ req[s].path \in Path
      /\ req[s].file \in File /\ UNCHANGED part
  BY TypeParts DEF CommitCreateCopy, SlotsOK, RequestsOK, Ready
<1>2. CASE Reply(s, "error") /\ UNCHANGED <<disk, library>>
  <2>1. Quiet
    BY <1>1, <1>2 DEF Quiet, Reply, SlotsOK, fileVars
  <2>2. QED
    BY <2>1, QuietKeepsOwnership
<1>3. ASSUME NEW i \in Free,
             library' = library \cup {[file |-> req[s].file, inode |-> i]},
             disk' = [disk EXCEPT ![i] = Empty],
             pc' = [pc EXCEPT ![s] = "copy"],
             req' = [req EXCEPT ![s].fd = i]
      PROVE  Ownership'
  <2> DEFINE e == [file |-> req[s].file, inode |-> i]
  <2>1. /\ i \in Inode /\ i # Nil
        /\ \A p \in Path : part[p] # i
        /\ \A t \in Session : req[t].fd # i
        /\ \A d \in library : d.inode # i
    BY NilAssumption DEF Free, Referenced
  <2>2. /\ \A t \in Session : t # s => pc'[t] = pc[t] /\ req'[t] = req[t]
        /\ pc'[s] = "copy" /\ req'[s].path = req[s].path /\ req'[s].file = req[s].file
        /\ req'[s].fd = i
    BY <1>1, <1>3 DEF SlotsOK, RequestType
  <2>3. \A j \in Inode : j # i => disk'[j] = disk[j]
    BY <1>1, <1>3 DEF FilesOK
  <2>4. PartsApart'
    BY <1>1 DEF Ownership, PartsApart
  <2>5. WriterOwnsPart'
    BY <1>1, <1>3, <2>1, <2>2 DEF Ownership, WriterOwnsPart
  <2>6. CopyOwnsTarget'
    BY <1>1, <1>3, <2>1, <2>2 DEF Ownership, CopyOwnsTarget
  <2>7. VerifiedStaysIntact'
    <3> SUFFICES ASSUME NEW t \in Session, pc'[t] \in {"commit", "copy"},
                        part[req[t].path] # Nil
                 PROVE  Intact(part[req[t].path], req[t].file)'
      BY <1>1, <2>2 DEF VerifiedStaysIntact
    <3>1. pc[t] \in {"commit", "copy"} /\ req'[t].path = req[t].path
          /\ req'[t].file = req[t].file
      BY <1>1, <2>2
    <3>2. req[t].path \in Path
      BY <1>1, <3>1 DEF SlotsOK, RequestsOK, Ready
    <3>3. part[req[t].path] \in Inode /\ part[req[t].path] # i
      BY <1>1, <2>1, <3>2 DEF FilesOK
    <3>4. QED
      BY <1>1, <2>3, <3>1, <3>3 DEF Ownership, VerifiedStaysIntact, Intact
  <2>8. NoAliasing'
    <3> SUFFICES ASSUME NEW d \in library \cup {e}, NEW p \in Path, part[p] = d.inode
                 PROVE  \E t \in Session : pc'[t] = "unlink" /\ req'[t].path = p
      BY <1>1, <1>3 DEF NoAliasing
    <3>1. d \in library
      BY <2>1
    <3>2. PICK t \in Session : pc[t] = "unlink" /\ req[t].path = p
      BY <3>1 DEF Ownership, NoAliasing
    <3>3. QED
      BY <1>1, <2>2, <3>2
  <2>9. SavedIntact'
    <3> SUFFICES ASSUME NEW d \in library \cup {e}, Settled(d)'
                 PROVE  Intact(d.inode, d.file)'
      BY <1>3 DEF SavedIntact
    <3>1. d \in library
      BY <2>2 DEF Settled
    <3>2. Settled(d)
      BY <1>1, <2>2 DEF Settled
    <3>3. d.inode \in Inode /\ d.inode # i
      BY <1>1, <2>1, <3>1 DEF FilesOK
    <3>4. QED
      BY <2>3, <3>1, <3>2, <3>3 DEF Ownership, SavedIntact, Intact
  <2>10. QED
    BY <2>4, <2>5, <2>6, <2>7, <2>8, <2>9 DEF Ownership
<1>4. QED
  BY <1>2, <1>3 DEF CommitCreateCopy

LEMMA CopyKeepsOwnership ==
  ASSUME TypeOK, KeysApart, Ownership, NEW s \in Session, CommitCopy(s)
  PROVE  Ownership'
<1> DEFINE i == part[req[s].path]
           j == req[s].fd
<1>1. /\ SlotsOK /\ FilesOK /\ pc[s] = "copy" /\ ~Ready(s) /\ req[s].path \in Path
      /\ j \in Inode /\ UNCHANGED part
  BY TypeParts DEF CommitCopy, SlotsOK, RequestsOK, Ready
<1>2. \A t \in Session : t # s /\ pc[t] = "copy" => req[t].fd # j
  BY <1>1 DEF Ownership, CopyOwnsTarget
<1>3. CASE /\ library' = {e \in library : e.inode # j}
           /\ Reply(s, "error")
           /\ UNCHANGED disk
  <2>1. /\ \A t \in Session : t # s => pc'[t] = pc[t] /\ req'[t] = req[t]
        /\ pc'[s] = "error"
    BY <1>1, <1>3 DEF Reply, SlotsOK
  <2>2. PartsApart' /\ WriterOwnsPart' /\ CopyOwnsTarget'
    BY <1>1, <1>3, <2>1 DEF Ownership, PartsApart, WriterOwnsPart, CopyOwnsTarget
  <2>3. VerifiedStaysIntact'
    BY <1>1, <1>3, <2>1 DEF Ownership, VerifiedStaysIntact, Intact
  <2>4. NoAliasing'
    BY <1>1, <1>3, <2>1 DEF Ownership, NoAliasing
  <2>5. SavedIntact'
    BY <1>1, <1>3, <2>1 DEF Ownership, SavedIntact, Settled, Intact
  <2>6. QED
    BY <2>2, <2>3, <2>4, <2>5 DEF Ownership
<1>4. CASE /\ i # Nil
           /\ disk' = [disk EXCEPT ![j] = disk[i]]
           /\ Goto(s, "unlink")
           /\ UNCHANGED library
  <2>1. /\ UNCHANGED req
        /\ \A t \in Session : t # s => pc'[t] = pc[t]
        /\ pc'[s] = "unlink"
    BY <1>1, <1>4 DEF Goto, SlotsOK
  <2>2. disk'[j] = disk[i] /\ \A k \in Inode : k # j => disk'[k] = disk[k]
    BY <1>1, <1>4 DEF FilesOK
  <2>3. PartsApart' /\ WriterOwnsPart' /\ CopyOwnsTarget'
    BY <1>1, <1>4, <2>1 DEF Ownership, PartsApart, WriterOwnsPart, CopyOwnsTarget
  <2>4. VerifiedStaysIntact'
    <3> SUFFICES ASSUME NEW t \in Session, pc[t] \in {"commit", "copy"},
                        part[req[t].path] # Nil
                 PROVE  Intact(part[req[t].path], req[t].file)'
      BY <1>1, <2>1 DEF VerifiedStaysIntact
    <3>1. req[t].path \in Path
      BY <1>1 DEF SlotsOK, RequestsOK, Ready
    <3>2. part[req[t].path] \in Inode /\ part[req[t].path] # j
      BY <1>1, <3>1 DEF FilesOK, Ownership, CopyOwnsTarget
    <3>3. QED
      BY <1>1, <2>1, <2>2, <3>2 DEF Ownership, VerifiedStaysIntact, Intact
  <2>5. NoAliasing'
    <3> SUFFICES ASSUME NEW d \in library, NEW p \in Path, part[p] = d.inode
                 PROVE  \E t \in Session : pc'[t] = "unlink" /\ req[t].path = p
      BY <1>1, <1>4, <2>1 DEF NoAliasing
    <3>1. PICK t \in Session : pc[t] = "unlink" /\ req[t].path = p
      BY DEF Ownership, NoAliasing
    <3>2. QED
      BY <1>1, <2>1, <3>1
  <2>6. SavedIntact'
    <3> SUFFICES ASSUME NEW d \in library, Settled(d)'
                 PROVE  Intact(d.inode, d.file)'
      BY <1>4 DEF SavedIntact
    <3>1. d.inode \in Inode
      BY <1>1 DEF FilesOK
    <3>2. CASE d.inode = j
      <4>1. d.file = req[s].file
        BY <1>1, <3>2 DEF Ownership, CopyOwnsTarget
      <4>2. Intact(i, req[s].file)
        BY <1>1, <1>4 DEF Ownership, VerifiedStaysIntact
      <4>3. QED
        BY <2>2, <3>2, <4>1, <4>2 DEF Intact
    <3>3. CASE d.inode # j
      <4>1. Settled(d)
        BY <1>1, <2>1, <3>3 DEF Settled
      <4>2. QED
        BY <2>2, <3>1, <3>3, <4>1 DEF Ownership, SavedIntact, Intact
    <3>4. QED
      BY <3>2, <3>3
  <2>7. QED
    BY <2>3, <2>4, <2>5, <2>6 DEF Ownership
<1>5. QED
  BY <1>3, <1>4 DEF CommitCopy

-----------------------------------------------------------------------------
(* Steps that neither touch the files nor enter or leave a commit.         *)
LEMMA QuietSteps ==
  ASSUME TypeOK, NEW s \in Session,
         \/ CreateSession(s) \/ Refuse(s) \/ FinishSize(s) \/ FinishRecord(s)
         \/ CancelMark(s) \/ Prune(s) \/ Abort(s)
         \/ \E f \in File : \/ FinishCheck(s, f)
                            \/ \E off, n \in Nat : ChunkCheck(s, f, off, n)
  PROVE  Quiet
<1>1. SlotsOK
  BY TypeParts
<1>2. ASSUME UNCHANGED <<pc, req, fileVars>> PROVE Quiet
  BY <1>2 DEF Quiet
<1>3. ASSUME NEW l \in {"ok", "error", "cancelled", "open", "create"},
             pc[s] \notin {"copy", "unlink"}, pc' = [pc EXCEPT ![s] = l],
             NEW r, req' = [req EXCEPT ![s] = r], UNCHANGED fileVars
      PROVE  Quiet
  BY <1>1, <1>3 DEF Quiet, SlotsOK
<1>4. CASE CreateSession(s) \/ CancelMark(s) \/ Prune(s)
  BY <1>2, <1>4 DEF CreateSession, CancelMark, Prune, fileVars
<1>5. CASE Refuse(s) \/ FinishRecord(s)
  BY <1>3, <1>5 DEF Refuse, FinishRecord, Reply, Ready
<1>6. CASE FinishSize(s)
  <2>1. pc[s] = "size" /\ UNCHANGED fileVars
    BY <1>6 DEF FinishSize
  <2>2. CASE Reply(s, "error")
    BY <1>3, <2>1, <2>2 DEF Reply
  <2>3. CASE Goto(s, "verify")
    BY <1>1, <2>1, <2>3 DEF Goto, Quiet, SlotsOK
  <2>4. QED
    BY <1>6, <2>2, <2>3 DEF FinishSize
<1>7. CASE Abort(s)
  <2>1. UNCHANGED fileVars
    BY <1>7 DEF Abort
  <2>2. CASE pc[s] \notin {"copy", "unlink"} /\ Reply(s, "error")
    BY <1>3, <2>1, <2>2 DEF Reply
  <2>3. CASE req' = [req EXCEPT ![s].detached = TRUE] /\ UNCHANGED pc
    <3>1. \A t \in Session : /\ req'[t].file = req[t].file
                             /\ req'[t].path = req[t].path
                             /\ req'[t].fd = req[t].fd
      BY <1>1, <2>3 DEF SlotsOK, RequestType
    <3>2. QED
      BY <2>1, <2>3, <3>1 DEF Quiet
  <2>4. QED
    BY <1>7, <2>2, <2>3 DEF Abort
<1>8. ASSUME NEW f \in File, NEW off \in Nat, NEW n \in Nat, ChunkCheck(s, f, off, n)
      PROVE  Quiet
  BY <1>3, <1>8 DEF ChunkCheck, Ready
<1>9. ASSUME NEW f \in File, FinishCheck(s, f) PROVE Quiet
  BY <1>3, <1>9 DEF FinishCheck, Ready
<1>10. QED
  BY <1>4, <1>5, <1>6, <1>7, <1>8, <1>9

LEMMA OwnershipStep ==
  ASSUME Orderly, TypeOK, KeysApart, Ownership, [Next]_vars
  PROVE  Ownership'
<1>1. SlotsOK /\ FilesOK
  BY TypeParts
<1>2. ASSUME NEW s \in Session, ~Ready(s) PROVE req[s].path \in Path
  BY <1>1, <1>2 DEF SlotsOK, RequestsOK
<1>3. ASSUME NEW s \in Session,
             \/ CreateSession(s) \/ Refuse(s) \/ FinishSize(s) \/ FinishRecord(s)
             \/ CancelMark(s) \/ Prune(s) \/ Abort(s)
             \/ \E f \in File : \/ FinishCheck(s, f)
                                \/ \E off, n \in Nat : ChunkCheck(s, f, off, n)
      PROVE  Ownership'
  BY <1>3, QuietSteps, QuietKeepsOwnership
<1>4. CASE (\E d \in Dir : SetDownloadDir(d)) \/ UNCHANGED vars
  <2>1. UNCHANGED <<pc, req, fileVars>>
    BY <1>4 DEF SetDownloadDir, vars, fileVars
  <2>2. QED
    BY <2>1, QuietKeepsOwnership DEF Quiet
<1>5. ASSUME NEW s \in Session, ChunkOpen(s) PROVE Ownership'
  <2>1. pc[s] = "open" /\ ~Ready(s) /\ UNCHANGED library
    BY <1>5 DEF ChunkOpen, Ready
  <2>2. pc'[s] = "write" /\ \A t \in Session : t # s => pc'[t] = pc[t]
    BY <1>1, <1>5 DEF ChunkOpen, SlotsOK
  <2>3. ASSUME NEW i, req' = [req EXCEPT ![s].fd = i]
        PROVE  /\ req'[s].fd = i /\ req'[s].path = req[s].path
               /\ \A t \in Session : t # s => req'[t] = req[t]
    BY <1>1, <2>3 DEF SlotsOK, RequestType
  <2>4. CASE /\ part[req[s].path] # Nil
             /\ req' = [req EXCEPT ![s].fd = part[req[s].path]]
             /\ UNCHANGED <<part, disk>>
    <3>1. UNCHANGED fileVars
      BY <2>1, <2>4 DEF fileVars
    <3>2. QED
      BY <2>1, <2>2, <2>3, <2>4, <3>1, ReopenKeepsOwnership
  <2>5. ASSUME part[req[s].path] = Nil, NEW i \in Free,
               req' = [req EXCEPT ![s].fd = i],
               part' = [part EXCEPT ![req[s].path] = i],
               disk' = [disk EXCEPT ![i] = Empty]
        PROVE  Ownership'
    <3>1. pc[s] \in {"open", "create"} /\ pc'[s] \in {"write", "size"}
      BY <2>1, <2>2
    <3>2. QED
      BY <2>1, <2>2, <2>3, <2>5, <3>1, NewPartKeepsOwnership
  <2>6. QED
    BY <1>5, <2>4, <2>5 DEF ChunkOpen
<1>6. ASSUME NEW s \in Session, FinishCreate(s) PROVE Ownership'
  <2>1. pc[s] = "create" /\ UNCHANGED library
    BY <1>6 DEF FinishCreate
  <2>2. ASSUME Goto(s, "size") \/ Reply(s, "error"), UNCHANGED <<part, disk>>
        PROVE  Ownership'
    <3>1. Quiet
      BY <1>1, <2>1, <2>2 DEF Quiet, Goto, Reply, SlotsOK, fileVars
    <3>2. QED
      BY <3>1, QuietKeepsOwnership
  <2>3. ASSUME part[req[s].path] = Nil, NEW i \in Free,
               part' = [part EXCEPT ![req[s].path] = i],
               disk' = [disk EXCEPT ![i] = Empty], Goto(s, "size")
        PROVE  Ownership'
    <3>1. /\ pc[s] \in {"open", "create"} /\ pc'[s] = "size" /\ UNCHANGED req
          /\ \A t \in Session : t # s => pc'[t] = pc[t]
      BY <1>1, <2>1, <2>3 DEF Goto, SlotsOK
    <3>2. /\ pc'[s] \in {"write", "size"} /\ req'[s].path = req[s].path
          /\ \A t \in Session : t # s => pc'[t] = pc[t] /\ req'[t] = req[t]
          /\ (pc'[s] = "write" => req'[s].fd = i)
      BY <3>1
    <3>3. QED
      BY <2>1, <2>3, <3>1, <3>2, NewPartKeepsOwnership
  <2>4. QED
    BY <1>6, <2>2, <2>3 DEF FinishCreate
<1>7. ASSUME NEW s \in Session, ChunkUpdate(s) PROVE Ownership'
  <2>1. /\ pc[s] = "write" /\ ~Ready(s) /\ UNCHANGED <<disk, library>>
        /\ \E a \in {"ok", "error", "cancelled"} : Reply(s, a)
    BY <1>7 DEF ChunkUpdate, Ready
  <2>2. \A t \in Session : \/ t = s /\ pc'[t] \in {"ok", "error", "cancelled"}
                           \/ pc'[t] = pc[t] /\ req'[t] = req[t]
    BY <1>1, <2>1 DEF Reply, SlotsOK
  <2>3. CASE UNCHANGED part
    <3>1. Quiet
      BY <2>1, <2>2, <2>3 DEF Quiet, fileVars
    <3>2. QED
      BY <3>1, QuietKeepsOwnership
  <2>4. CASE part' = [part EXCEPT ![req[s].path] = Nil]
    BY <1>2, <2>1, <2>2, <2>4, RemovePartKeepsOwnership
  <2>5. QED
    BY <1>7, <2>3, <2>4, Unlinked DEF ChunkUpdate, Orderly
<1>8. ASSUME NEW s \in Session, NEW p \in Path, CancelRemove(s, p) PROVE Ownership'
  BY <1>8, RemovePartKeepsOwnership, Unlinked DEF CancelRemove, Orderly
<1>9. ASSUME NEW s \in Session, CommitUnlink(s) PROVE Ownership'
  <2>1. /\ pc[s] = "unlink" /\ ~Ready(s) /\ UNCHANGED <<disk, library>>
        /\ part' = [part EXCEPT ![req[s].path] = Nil]
        /\ Reply(s, "error") \/ Goto(s, "record")
    BY <1>9, Unlinked DEF CommitUnlink, Orderly, Ready
  <2>2. \A t \in Session : \/ t = s /\ pc'[t] \in {"error", "record"}
                           \/ t # s /\ pc'[t] = pc[t] /\ req'[t] = req[t]
    BY <1>1, <2>1 DEF Reply, Goto, SlotsOK
  <2>3. QED
    BY <1>2, <2>1, <2>2, RemovePartKeepsOwnership
<1>10. ASSUME NEW s \in Session,
              \/ ChunkWrite(s) \/ FinishVerify(s) \/ CommitLink(s)
              \/ CommitCreateCopy(s) \/ CommitCopy(s)
       PROVE  Ownership'
  BY <1>10, WriteKeepsOwnership, VerifyKeepsOwnership, LinkKeepsOwnership,
     CreateCopyKeepsOwnership, CopyKeepsOwnership
<1>11. CASE Crash
  <2>1. /\ \A s \in Session : pc[s] \notin {"copy", "unlink"}
        /\ \A s \in Session : pc'[s] \notin {"write", "copy", "unlink", "commit"}
        /\ UNCHANGED fileVars
    BY <1>1, <1>11 DEF Crash, Orderly, Ready, SlotsOK
  <2>2. (PartsApart /\ WriterOwnsPart /\ CopyOwnsTarget /\ VerifiedStaysIntact)'
    BY <2>1 DEF Ownership, PartsApart, WriterOwnsPart, CopyOwnsTarget,
                VerifiedStaysIntact, fileVars
  <2>3. NoAliasing'
    BY <2>1 DEF Ownership, NoAliasing, fileVars
  <2>4. SavedIntact'
    BY <2>1 DEF Ownership, SavedIntact, Settled, Intact, fileVars
  <2>5. QED
    BY <2>2, <2>3, <2>4 DEF Ownership
<1>12. \A f \in File : \A off \in 0 .. Size[f] : \A n \in 1 .. (Size[f] - off) :
         off \in Nat /\ n \in Nat
  BY SizeAssumption
<1>13. QED
  BY <1>3, <1>4, <1>5, <1>6, <1>7, <1>8, <1>9, <1>10, <1>11, <1>12
  DEF Next, Chunk, Finish, Cancel

LEMMA InitIInv == Init => IInv
<1> SUFFICES ASSUME Init PROVE IInv
  OBVIOUS
<1>1. TypeOK
  BY InitTypeOK
<1>2. \A s \in Session : pc[s] = "idle"
  BY DEF Init
<1>3. library = {} /\ \A p \in Path : part[p] = Nil
  BY DEF Init
<1>4. KeysApart
  BY <1>2 DEF KeysApart, Ready
<1>5. PartsApart /\ WriterOwnsPart /\ CopyOwnsTarget /\ VerifiedStaysIntact
  BY <1>2, <1>3 DEF PartsApart, WriterOwnsPart, CopyOwnsTarget, VerifiedStaysIntact
<1>6. NoAliasing /\ SavedIntact
  BY <1>3 DEF NoAliasing, SavedIntact
<1>7. QED
  BY <1>1, <1>4, <1>5, <1>6 DEF IInv, Ownership

LEMMA IInvStep == ASSUME Orderly, IInv, [Next]_vars PROVE IInv'
<1>1. TypeOK' /\ SlotsOK
  BY SlotsStep, TablesStep, FilesStep, TypeParts
  DEF IInv, TypeOK, SlotsOK, TablesOK, FilesOK, StatusType
<1>2. QED
  BY <1>1, KeysApartStep, OwnershipStep DEF IInv, Orderly

(* The inductive invariant holds in every reachable state.                 *)
THEOREM InvariantHolds == ASSUME Orderly PROVE Spec => []IInv
<1>1. IInv /\ [Next]_vars => IInv'
  BY IInvStep
<1>2. QED
  BY InitIInv, <1>1, PTL DEF Spec

(* Every file in the download folder holds the bytes the sender hashed,    *)
(* for any number of sessions, files, folders and interleavings of chunks, *)
(* finishes, cancels, prunes, ended handlers, corrupted bytes and changes  *)
(* of folder, provided requests of two sessions for one .part do not       *)
(* overlap, the process is not killed in the middle of a commit and the    *)
(* .part files are removed.                                                *)
THEOREM SavedFilesAreIntact == ASSUME Orderly PROVE Spec => []SavedIntact
<1>1. IInv => SavedIntact
  BY DEF IInv, Ownership
<1>2. QED
  BY InvariantHolds, <1>1, PTL

(* Under the same assumptions no saved file is reachable under a .part     *)
(* name, except by the commit that is about to remove that name.           *)
THEOREM SavedFilesAreNotAliased == ASSUME Orderly PROVE Spec => []NoAliasing
<1>1. IInv => NoAliasing
  BY DEF IInv, Ownership
<1>2. QED
  BY InvariantHolds, <1>1, PTL

(* What no step does to a file of the library that no copy runs into.      *)
KeepsSavedFiles == \A e \in library : Settled(e) =>
                     e \in library' /\ disk'[e.inode] = disk[e.inode]

LEMMA KeepsSavedFilesStep ==
  ASSUME TypeOK, Ownership, [Next]_vars
  PROVE  KeepsSavedFiles
<1>1. SlotsOK /\ FilesOK
  BY TypeParts
<1> SUFFICES ASSUME NEW e \in library, Settled(e)
             PROVE  e \in library' /\ disk'[e.inode] = disk[e.inode]
  BY DEF KeepsSavedFiles
<1>2. e.inode \in Inode /\ e.inode \notin Free
  BY <1>1 DEF FilesOK, Free, Referenced
<1>3. ASSUME NEW s \in Session, ChunkOpen(s) \/ FinishCreate(s) \/ CommitCreateCopy(s)
      PROVE  e \in library' /\ disk'[e.inode] = disk[e.inode]
  <2>1. /\ e \in library'
        /\ UNCHANGED disk \/ \E i \in Free : disk' = [disk EXCEPT ![i] = Empty]
    BY <1>3 DEF ChunkOpen, FinishCreate, CommitCreateCopy
  <2>2. QED
    BY <1>1, <1>2, <2>1 DEF FilesOK
<1>4. ASSUME NEW s \in Session, ChunkWrite(s)
      PROVE  e \in library' /\ disk'[e.inode] = disk[e.inode]
  <2>1. req[s].fd # e.inode
    BY <1>4 DEF ChunkWrite, Ownership, WriterOwnsPart
  <2>2. QED
    BY <1>1, <1>2, <1>4, <2>1 DEF ChunkWrite, FilesOK
<1>5. ASSUME NEW s \in Session, CommitCopy(s)
      PROVE  e \in library' /\ disk'[e.inode] = disk[e.inode]
  <2>1. req[s].fd # e.inode
    BY <1>5 DEF CommitCopy, Settled
  <2>2. QED
    BY <1>1, <1>2, <1>5, <2>1 DEF CommitCopy, FilesOK
<1>6. ASSUME UNCHANGED disk, library \subseteq library'
      PROVE  e \in library' /\ disk'[e.inode] = disk[e.inode]
  BY <1>6
<1>7. ASSUME NEW s \in Session,
             \/ CreateSession(s) \/ Refuse(s) \/ ChunkUpdate(s) \/ FinishSize(s)
             \/ FinishVerify(s) \/ CommitLink(s) \/ CommitUnlink(s) \/ FinishRecord(s)
             \/ Cancel(s) \/ Prune(s) \/ Abort(s)
             \/ \E f \in File : \/ FinishCheck(s, f)
                                \/ \E off, n \in Nat : ChunkCheck(s, f, off, n)
      PROVE  UNCHANGED disk /\ library \subseteq library'
  BY <1>7 DEF CreateSession, Refuse, ChunkUpdate, FinishSize, FinishVerify, CommitLink,
     CommitUnlink, FinishRecord, Cancel, CancelMark, CancelRemove, Prune, Abort,
     FinishCheck, ChunkCheck, fileVars
<1>8. CASE (\E d \in Dir : SetDownloadDir(d)) \/ Crash \/ UNCHANGED vars
  BY <1>6, <1>8 DEF SetDownloadDir, Crash, vars, fileVars
<1>9. \A f \in File : \A off \in 0 .. Size[f] : \A n \in 1 .. (Size[f] - off) :
        off \in Nat /\ n \in Nat
  BY SizeAssumption
<1>10. QED
  BY <1>3, <1>4, <1>5, <1>6, <1>7, <1>8, <1>9 DEF Next, Chunk, Finish

(* No step touches a file once it is saved: no chunk, cancel, commit or    *)
(* prune of any session changes its bytes or removes it.                   *)
THEOREM SavedFilesAreStable == ASSUME Orderly PROVE Spec => SavedFileStable
<1>1. IInv /\ [Next]_vars => [KeepsSavedFiles]_vars
  BY KeepsSavedFilesStep DEF IInv
<1>2. Spec => [][KeepsSavedFiles]_vars
  BY InvariantHolds, <1>1, PTL DEF Spec
<1>3. QED
  BY <1>2 DEF SavedFileStable, KeepsSavedFiles

-----------------------------------------------------------------------------
(* What a step does to one session, whatever the others do.                *)

SessionStep(s) == \/ CreateSession(s) \/ Refuse(s) \/ Chunk(s) \/ Finish(s)
                  \/ Cancel(s) \/ Prune(s) \/ Abort(s)

LEMMA StepCases ==
  ASSUME [Next]_vars
  PROVE  \/ \E s \in Session : SessionStep(s)
         \/ \E d \in Dir : SetDownloadDir(d)
         \/ Crash
         \/ UNCHANGED vars
  BY DEF Next, SessionStep

Untouched(s) == /\ status'[s] = status[s] /\ progress'[s] = progress[s]
                /\ savedPaths'[s] = savedPaths[s]
                /\ pc'[s] = pc[s] /\ req'[s] = req[s] /\ doomed'[s] = doomed[s]

(* A session's step leaves the tables and the slot of every other alone.   *)
LEMMA OthersUntouched ==
  ASSUME TypeOK, NEW s \in Session, NEW t \in Session, s # t, SessionStep(t)
  PROVE  Untouched(s)
<1>. USE DEF TypeOK, Untouched, sessionVars
<1>1. CASE CreateSession(t) \/ Refuse(t) \/ Prune(t) \/ Abort(t)
  BY <1>1 DEF CreateSession, Refuse, Prune, Abort, Reply
<1>2. CASE Cancel(t)
  BY <1>2 DEF Cancel, CancelMark, CancelRemove
<1>3. CASE Chunk(t)
  BY <1>3 DEF Chunk, ChunkCheck, ChunkOpen, ChunkWrite, ChunkUpdate, Reply
<1>4. CASE Finish(t)
  BY <1>4 DEF Finish, FinishCheck, FinishCreate, FinishSize, FinishVerify, CommitLink,
              CommitCreateCopy, CommitCopy, CommitUnlink, FinishRecord, Reply, Goto
<1>. QED BY <1>1, <1>2, <1>3, <1>4 DEF SessionStep

(* How the status of a session changes: it is accepted, cancelled, or      *)
(* forgotten, and the handler that records a file may find it completed.   *)
LEMMA StatusMoves ==
  ASSUME TypeOK, [Next]_vars, NEW s \in Session
  PROVE  \/ status'[s] = status[s]
         \/ status[s] = "none" /\ status'[s] = "Accepted"
         \/ Accepting(s) /\ status'[s] = "Cancelled"
         \/ pc[s] = "record" /\ Exists(s) /\ status'[s] = "Completed"
         \/ Exists(s) /\ status'[s] = "gone"
<1>1. ASSUME NEW t \in Session, SessionStep(t), t # s PROVE status'[s] = status[s]
  BY <1>1, OthersUntouched DEF Untouched
<1>2. CASE CreateSession(s) \/ Prune(s) \/ Cancel(s)
  BY <1>2 DEF CreateSession, Prune, Cancel, CancelMark, CancelRemove, sessionVars, TypeOK
<1>3. CASE Refuse(s) \/ Abort(s) \/ Chunk(s)
  BY <1>3 DEF Refuse, Abort, Chunk, ChunkCheck, ChunkOpen, ChunkWrite, ChunkUpdate, sessionVars
<1>4. CASE FinishRecord(s)
  BY <1>4 DEF FinishRecord, sessionVars, TypeOK
<1>5. CASE Finish(s) /\ ~FinishRecord(s)
  BY <1>5 DEF Finish, FinishCheck, FinishCreate, FinishSize, FinishVerify, CommitLink,
              CommitCreateCopy, CommitCopy, CommitUnlink, sessionVars
<1>6. CASE Crash
  BY <1>6 DEF Crash
<1>7. CASE (\E d \in Dir : SetDownloadDir(d)) \/ UNCHANGED vars
  BY <1>7 DEF SetDownloadDir, vars, sessionVars
<1>. QED BY <1>1, <1>2, <1>3, <1>4, <1>5, <1>6, <1>7, StepCases DEF SessionStep

(* A request is refused as cancelled only while its session is cancelled.  *)
LEMMA RefusedMoves ==
  ASSUME TypeOK, [Next]_vars, NEW s \in Session, pc'[s] = "cancelled"
  PROVE  pc[s] = "cancelled" \/ (status[s] = "Cancelled" /\ status'[s] = "Cancelled")
<1>1. ASSUME NEW t \in Session, SessionStep(t), t # s PROVE pc'[s] = pc[s]
  BY <1>1, OthersUntouched DEF Untouched
<1>2. CASE CreateSession(s) \/ Prune(s) \/ Cancel(s) \/ Abort(s)
  BY <1>2 DEF CreateSession, Prune, Cancel, CancelMark, CancelRemove, Abort, Reply, TypeOK
<1>3. CASE Refuse(s) \/ Chunk(s)
  BY <1>3 DEF Refuse, Chunk, ChunkCheck, ChunkOpen, ChunkWrite, ChunkUpdate, Reply,
              Accepting, sessionVars, TypeOK
<1>4. CASE Finish(s)
  BY <1>4 DEF Finish, FinishCheck, FinishCreate, FinishSize, FinishVerify, CommitLink,
              CommitCreateCopy, CommitCopy, CommitUnlink, FinishRecord, Reply, Goto, TypeOK
<1>5. CASE Crash \/ (\E d \in Dir : SetDownloadDir(d)) \/ UNCHANGED vars
  BY <1>5 DEF Crash, SetDownloadDir, vars
<1>. QED BY <1>1, <1>2, <1>3, <1>4, <1>5, StepCases DEF SessionStep

(* A session that was never accepted has had no request, and one whose     *)
(* request was refused as cancelled is cancelled or forgotten.             *)
SessionsOK ==
  \A s \in Session : /\ status[s] = "none" => pc[s] = "idle" /\ doomed[s] = {}
                     /\ pc[s] = "cancelled" => status[s] \in {"Cancelled", "gone"}

LEMMA SessionsOKStep == ASSUME TypeOK, SessionsOK, [Next]_vars PROVE SessionsOK'
<1>. SUFFICES ASSUME NEW s \in Session
              PROVE  /\ status'[s] = "none" => pc'[s] = "idle" /\ doomed'[s] = {}
                     /\ pc'[s] = "cancelled" => status'[s] \in {"Cancelled", "gone"}
  BY DEF SessionsOK
<1>1. ASSUME status'[s] = "none" PROVE pc'[s] = "idle" /\ doomed'[s] = {}
  <2>1. status[s] = "none" /\ pc[s] = "idle" /\ doomed[s] = {}
    BY <1>1, StatusMoves DEF SessionsOK
  <2>2. ASSUME NEW t \in Session, SessionStep(t), t # s
        PROVE  pc'[s] = pc[s] /\ doomed'[s] = doomed[s]
    BY <2>2, OthersUntouched DEF Untouched
  <2>3. ~SessionStep(s)
    <3>1. ~CreateSession(s)
      BY <1>1, <2>1 DEF CreateSession, TypeOK
    <3>2. ~Refuse(s) /\ ~Cancel(s) /\ ~Prune(s) /\ ~Abort(s)
      BY <2>1 DEF Refuse, Cancel, CancelMark, CancelRemove, Prune, Abort, Accepting, Exists
    <3>3. ~Chunk(s)
      BY <2>1 DEF Chunk, ChunkCheck, ChunkOpen, ChunkWrite, ChunkUpdate, Accepting
    <3>4. ~Finish(s)
      BY <2>1 DEF Finish, FinishCheck, FinishCreate, FinishSize, FinishVerify, CommitLink,
                  CommitCreateCopy, CommitCopy, CommitUnlink, FinishRecord, Accepting
    <3>. QED BY <3>1, <3>2, <3>3, <3>4 DEF SessionStep
  <2>4. CASE Crash \/ (\E d \in Dir : SetDownloadDir(d)) \/ UNCHANGED vars
    BY <2>1, <2>4 DEF Crash, SetDownloadDir, vars, Ready
  <2>. QED BY <2>1, <2>2, <2>3, <2>4, StepCases
<1>2. ASSUME pc'[s] = "cancelled" PROVE status'[s] \in {"Cancelled", "gone"}
  <2>1. CASE pc[s] = "cancelled"
    <3>1. status[s] \in {"Cancelled", "gone"}
      BY <2>1 DEF SessionsOK
    <3>. QED BY <2>1, <3>1, StatusMoves DEF Exists, Accepting
  <2>. QED BY <1>2, <2>1, RefusedMoves
<1>. QED BY <1>1, <1>2

ChunkLabels == {"open", "write"}
FinishLabels == {"create", "size", "verify", "commit", "copy", "unlink", "record"}

(* A request in flight is answered, or goes on with the same entry, path   *)
(* and end in the handler it is in.                                        *)
LEMMA InFlightMoves ==
  ASSUME TypeOK, [Next]_vars, NEW s \in Session, ~Ready(s), ~Ready(s)'
  PROVE  /\ req'[s].file = req[s].file /\ req'[s].path = req[s].path
         /\ req'[s].end = req[s].end
         /\ pc[s] \in ChunkLabels => pc'[s] \in ChunkLabels
         /\ pc[s] \in FinishLabels => pc'[s] \in FinishLabels
<1>. DEFINE Same == /\ req'[s].file = req[s].file /\ req'[s].path = req[s].path
                    /\ req'[s].end = req[s].end
            Kept == /\ pc[s] \in ChunkLabels => pc'[s] \in ChunkLabels
                    /\ pc[s] \in FinishLabels => pc'[s] \in FinishLabels
<1>. SUFFICES Same /\ Kept
  OBVIOUS
<1>1. /\ pc \in [Session -> Label] /\ req \in [Session -> RequestType]
      /\ req[s] \in RequestType
  BY DEF TypeOK
<1>2. ASSUME req' = req \/ (\E v : req' = [req EXCEPT ![s].fd = v])
               \/ (\E v : req' = [req EXCEPT ![s].pos = v])
               \/ (\E v : req' = [req EXCEPT ![s].detached = v])
      PROVE  Same
  BY <1>1, <1>2 DEF RequestType
<1>3. ASSUME NEW t \in Session, SessionStep(t), t # s PROVE Same /\ Kept
  BY <1>3, OthersUntouched DEF Untouched
<1>4. CASE CreateSession(s) \/ Prune(s) \/ Cancel(s)
  BY <1>4 DEF CreateSession, Prune, Cancel, CancelMark, CancelRemove
<1>5. CASE Refuse(s)
  BY <1>5 DEF Refuse
<1>6. CASE Abort(s)
  <2>1. ~Reply(s, "error")
    BY <1>1 DEF Reply, Ready
  <2>2. pc' = pc /\ \E v : req' = [req EXCEPT ![s].detached = v]
    BY <1>6, <2>1 DEF Abort
  <2>. QED BY <1>2, <2>2
<1>7. \A a \in {"ok", "error", "cancelled"} : ~Reply(s, a)
  BY <1>1 DEF Reply, Ready
<1>8. CASE Chunk(s)
  <2>1. ChunkOpen(s) \/ ChunkWrite(s)
    BY <1>7, <1>8 DEF Chunk, ChunkCheck, ChunkUpdate
  <2>2. Kept
    BY <1>1, <2>1 DEF ChunkOpen, ChunkWrite, ChunkLabels, FinishLabels
  <2>3. Same
    <3>1. CASE ChunkOpen(s)
      <4>1. \E v : req' = [req EXCEPT ![s].fd = v]
        BY <3>1 DEF ChunkOpen
      <4>. QED BY <1>2, <4>1
    <3>2. CASE ChunkWrite(s)
      BY <1>1, <3>2 DEF ChunkWrite, RequestType
    <3>. QED BY <2>1, <3>1, <3>2
  <2>. QED BY <2>2, <2>3
<1>9. CASE Finish(s)
  <2>1. \/ FinishCreate(s) \/ FinishSize(s) \/ FinishVerify(s) \/ CommitLink(s)
        \/ CommitCreateCopy(s) \/ CommitCopy(s) \/ CommitUnlink(s)
    BY <1>7, <1>9 DEF Finish, FinishCheck, FinishRecord
  <2>2. CASE CommitCreateCopy(s)
    <3>1. pc'[s] = "copy" /\ pc[s] = "commit" /\ \E v : req' = [req EXCEPT ![s].fd = v]
      BY <1>1, <1>7, <2>2 DEF CommitCreateCopy
    <3>. QED BY <1>2, <3>1 DEF ChunkLabels, FinishLabels
  <2>3. CASE ~CommitCreateCopy(s)
    <3>1. /\ pc[s] \in FinishLabels
          /\ Goto(s, "size") \/ Goto(s, "verify") \/ Goto(s, "commit") \/ Goto(s, "unlink")
               \/ Goto(s, "record")
      BY <1>7, <2>1, <2>3 DEF FinishCreate, FinishSize, FinishVerify, CommitLink, CommitCopy,
         CommitUnlink, FinishLabels
    <3>2. req' = req /\ pc'[s] \in FinishLabels
      BY <1>1, <3>1 DEF Goto, FinishLabels
    <3>. QED BY <1>2, <3>1, <3>2 DEF ChunkLabels, FinishLabels
  <2>. QED BY <2>2, <2>3
<1>10. CASE Crash
  BY <1>10 DEF Crash, Ready
<1>11. CASE (\E d \in Dir : SetDownloadDir(d)) \/ UNCHANGED vars
  BY <1>11 DEF SetDownloadDir, vars
<1>. QED BY <1>3, <1>4, <1>5, <1>6, <1>8, <1>9, <1>10, <1>11, StepCases DEF SessionStep

(* A request is answered "ok" at the end of its handler.                   *)
LEMMA OkMoves ==
  ASSUME TypeOK, [Next]_vars, NEW s \in Session, pc'[s] = "ok"
  PROVE  \/ pc[s] = "ok"
         \/ pc[s] = "write"
         \/ FinishRecord(s)
<1>1. ASSUME NEW t \in Session, SessionStep(t), t # s PROVE pc'[s] = pc[s]
  BY <1>1, OthersUntouched DEF Untouched
<1>2. CASE CreateSession(s) \/ Prune(s) \/ Cancel(s) \/ Abort(s) \/ Refuse(s)
  BY <1>2 DEF CreateSession, Prune, Cancel, CancelMark, CancelRemove, Abort, Refuse, Reply, TypeOK
<1>3. CASE Chunk(s)
  BY <1>3 DEF Chunk, ChunkCheck, ChunkOpen, ChunkWrite, ChunkUpdate, Reply, TypeOK
<1>4. CASE Finish(s)
  BY <1>4 DEF Finish, FinishCheck, FinishCreate, FinishSize, FinishVerify, CommitLink,
              CommitCreateCopy, CommitCopy, CommitUnlink, Reply, Goto, TypeOK
<1>5. CASE Crash \/ (\E d \in Dir : SetDownloadDir(d)) \/ UNCHANGED vars
  BY <1>5 DEF Crash, SetDownloadDir, vars
<1>. QED BY <1>1, <1>2, <1>3, <1>4, <1>5, StepCases DEF SessionStep

(* The progress of a session changes for the entry whose handler reports,  *)
(* as long as the session is not forgotten.                                *)
LEMMA ProgressMoves ==
  ASSUME TypeOK, [Next]_vars, NEW s \in Session, Exists(s), status'[s] # "gone"
  PROVE  \/ progress'[s] = progress[s]
         \/ pc[s] = "write" /\ \A f \in File : f # req[s].file =>
                                 progress'[s][f] = progress[s][f]
         \/ FinishRecord(s)
<1>1. ASSUME NEW t \in Session, SessionStep(t), t # s PROVE progress'[s] = progress[s]
  BY <1>1, OthersUntouched DEF Untouched
<1>2. CASE Cancel(s) \/ Abort(s) \/ Refuse(s)
  BY <1>2 DEF Cancel, CancelMark, CancelRemove, Abort, Refuse, sessionVars
<1>3. ~CreateSession(s) /\ ~Prune(s) /\ ~Crash
  BY DEF CreateSession, Prune, Crash, Exists, TypeOK
<1>4. CASE Chunk(s)
  <2>1. CASE ChunkUpdate(s)
    BY <2>1 DEF ChunkUpdate, TypeOK
  <2>2. CASE ~ChunkUpdate(s)
    BY <1>4, <2>2 DEF Chunk, ChunkCheck, ChunkOpen, ChunkWrite, sessionVars
  <2>. QED BY <2>1, <2>2
<1>5. CASE Finish(s) /\ ~FinishRecord(s)
  BY <1>5 DEF Finish, FinishCheck, FinishCreate, FinishSize, FinishVerify, CommitLink,
              CommitCreateCopy, CommitCopy, CommitUnlink, sessionVars
<1>6. CASE (\E d \in Dir : SetDownloadDir(d)) \/ UNCHANGED vars
  BY <1>6 DEF SetDownloadDir, vars, sessionVars
<1>. QED BY <1>1, <1>2, <1>3, <1>4, <1>5, <1>6, StepCases DEF SessionStep

-----------------------------------------------------------------------------
(* The files that are saved: only a commit adds one, and none is lost.     *)

SavedFiles == {e.file : e \in {g \in library : Settled(g) /\ Intact(g.inode, g.file)}}

(* A copying commit is entered and left by its own steps.                  *)
LEMMA CopyMoves ==
  ASSUME Orderly, TypeOK, [Next]_vars, NEW s \in Session
  PROVE  /\ pc[s] = "copy" => \/ /\ pc'[s] = "copy" /\ req'[s].fd = req[s].fd
                                 /\ req'[s].file = req[s].file
                              \/ CommitCopy(s)
         /\ pc'[s] = "copy" => pc[s] = "copy" \/ CommitCreateCopy(s)
<1>1. ASSUME NEW t \in Session, SessionStep(t), t # s PROVE pc'[s] = pc[s] /\ req'[s] = req[s]
  BY <1>1, OthersUntouched DEF Untouched
<1>2. CASE CreateSession(s) \/ Prune(s) \/ Cancel(s)
  BY <1>2 DEF CreateSession, Prune, Cancel, CancelMark, CancelRemove
<1>3. CASE Abort(s)
  <2>1. CASE pc[s] = "copy"
    <3>1. pc' = pc /\ req' = [req EXCEPT ![s].detached = TRUE]
      BY <1>3, <2>1 DEF Abort
    <3>. QED BY <2>1, <3>1 DEF TypeOK, RequestType
  <2>2. CASE pc[s] # "copy"
    BY <1>3, <2>2 DEF Abort, Reply, TypeOK
  <2>. QED BY <2>1, <2>2
<1>4. CASE Refuse(s) \/ Chunk(s)
  BY <1>4 DEF Refuse, Chunk, ChunkCheck, ChunkOpen, ChunkWrite, ChunkUpdate, Reply, Ready, TypeOK
<1>5. CASE Finish(s)
  <2>1. pc[s] = "copy" => CommitCopy(s)
    BY <1>5 DEF Finish, FinishCheck, FinishCreate, FinishSize, FinishVerify, CommitLink,
                CommitUnlink, FinishRecord, CommitCreateCopy, Ready
  <2>2. pc'[s] = "copy" => pc[s] = "copy" \/ CommitCreateCopy(s)
    BY <1>5 DEF Finish, FinishCheck, FinishCreate, FinishSize, FinishVerify, CommitLink,
                CommitCopy, CommitUnlink, FinishRecord, Reply, Goto, TypeOK
  <2>. QED BY <2>1, <2>2
<1>6. CASE Crash
  BY <1>6 DEF Crash, Orderly, Ready
<1>7. CASE (\E d \in Dir : SetDownloadDir(d)) \/ UNCHANGED vars
  BY <1>7 DEF SetDownloadDir, vars
<1>. QED BY <1>1, <1>2, <1>3, <1>4, <1>5, <1>6, <1>7, StepCases DEF SessionStep

(* Only a commit puts a file into the library.                             *)
LEMMA LibraryMoves ==
  ASSUME [Next]_vars, NEW e \in library', e \notin library
  PROVE  \E s \in Session :
           \/ CommitLink(s) /\ e.file = req[s].file
           \/ CommitCreateCopy(s) /\ req' = [req EXCEPT ![s].fd = e.inode]
<1>1. CASE (\E d \in Dir : SetDownloadDir(d)) \/ Crash \/ UNCHANGED vars
  BY <1>1 DEF SetDownloadDir, Crash, vars, fileVars
<1>2. ASSUME NEW s \in Session, SessionStep(s)
      PROVE  \/ CommitLink(s) /\ e.file = req[s].file
             \/ CommitCreateCopy(s) /\ req' = [req EXCEPT ![s].fd = e.inode]
  <2>1. CASE CommitLink(s)
    <3>1. library' \subseteq library \cup {[file |-> req[s].file, inode |-> part[req[s].path]]}
      BY <2>1 DEF CommitLink
    <3>. QED BY <2>1, <3>1
  <2>2. CASE CommitCreateCopy(s)
    <3>1. PICK i \in Free : /\ library' = library \cup {[file |-> req[s].file, inode |-> i]}
                            /\ req' = [req EXCEPT ![s].fd = i]
      BY <2>2 DEF CommitCreateCopy
    <3>2. e.inode = i
      BY <3>1
    <3>. QED BY <2>2, <3>1, <3>2
  <2>3. CASE ~CommitLink(s) /\ ~CommitCreateCopy(s)
    <3>1. library' \subseteq library
      BY <1>2, <2>3 DEF SessionStep, CreateSession, Refuse, Prune, Abort, Cancel, CancelMark,
         CancelRemove, Chunk, ChunkCheck, ChunkOpen, ChunkWrite, ChunkUpdate, Finish,
         FinishCheck, FinishCreate, FinishSize, FinishVerify, CommitCopy, CommitUnlink,
         FinishRecord, fileVars
    <3>. QED BY <3>1
  <2>. QED BY <2>1, <2>2, <2>3
<1>. QED BY <1>1, <1>2, StepCases

(* A saved file stays saved.                                               *)
LEMMA SettledStays ==
  ASSUME Orderly, IInv, [Next]_vars, NEW e \in library, Settled(e)
  PROVE  e \in library' /\ Settled(e)' /\ disk'[e.inode] = disk[e.inode]
<1>1. TypeOK /\ Ownership
  BY DEF IInv
<1>2. e \in library' /\ disk'[e.inode] = disk[e.inode]
  BY <1>1, KeepsSavedFilesStep DEF KeepsSavedFiles
<1>3. ASSUME NEW s \in Session, pc'[s] = "copy" PROVE req'[s].fd # e.inode
  <2>1. CASE pc[s] = "copy"
    <3>1. ~CommitCopy(s)
      BY <1>1, <1>3, <2>1 DEF CommitCopy, Reply, Goto, TypeOK
    <3>. QED BY <1>1, <2>1, <3>1, CopyMoves DEF Settled
  <2>2. CASE CommitCreateCopy(s)
    <3>1. PICK i \in Free : req' = [req EXCEPT ![s].fd = i]
      BY <1>1, <1>3, <2>2 DEF CommitCreateCopy, Reply, TypeOK
    <3>2. req'[s].fd = i
      BY <1>1, <3>1 DEF TypeOK, RequestType
    <3>. QED BY <3>2 DEF Free, Referenced
  <2>. QED BY <1>1, <1>3, <2>1, <2>2, CopyMoves
<1>. QED BY <1>2, <1>3 DEF Settled

LEMMA SavedIs ==
  ASSUME IInv
  PROVE  SavedFiles = {e.file : e \in {g \in library : Settled(g)}}
  BY DEF IInv, Ownership, SavedIntact, SavedFiles

LEMMA SavedStays ==
  ASSUME Orderly, IInv, [Next]_vars
  PROVE  SavedFiles \subseteq SavedFiles'
<1>1. IInv'
  BY IInvStep
<1>2. SavedFiles' = {e.file : e \in {g \in library' : Settled(g)'}}
  BY <1>1 DEF IInv, Ownership, SavedIntact, SavedFiles
<1>. QED BY <1>2, SettledStays, SavedIs

(* A step saves at most one file: the one a commit was verified for.       *)
LEMMA SavedMoves ==
  ASSUME Orderly, IInv, [Next]_vars
  PROVE  \/ SavedFiles' = SavedFiles
         \/ \E s \in Session : ~Ready(s) /\ SavedFiles' = SavedFiles \cup {req[s].file}
<1>1. IInv' /\ TypeOK /\ Ownership
  BY IInvStep DEF IInv
<1>2. SavedFiles' = {e.file : e \in {g \in library' : Settled(g)'}}
  BY <1>1 DEF IInv, Ownership, SavedIntact, SavedFiles
<1>3. ASSUME NEW s \in Session, CommitLink(s) \/ CommitCopy(s) \/ CommitCreateCopy(s),
             NEW t \in Session, CommitLink(t) \/ CommitCopy(t) \/ CommitCreateCopy(t)
      PROVE  s = t
  <2>1. ASSUME NEW u \in Session, CommitLink(u) \/ CommitCopy(u) \/ CommitCreateCopy(u)
        PROVE  pc'[u] # pc[u] /\ SessionStep(u)
    BY <1>1, <2>1 DEF CommitLink, CommitCopy, CommitCreateCopy, Reply, Goto, TypeOK,
       SessionStep, Finish
  <2>. QED BY <1>1, <1>3, <2>1, OthersUntouched DEF Untouched
<1>4. ASSUME NEW e \in library', Settled(e)', ~(e \in library /\ Settled(e))
      PROVE  \E s \in Session : (CommitLink(s) \/ CommitCopy(s)) /\ e.file = req[s].file
  <2>1. CASE e \notin library
    <3>1. PICK s \in Session :
            \/ CommitLink(s) /\ e.file = req[s].file
            \/ CommitCreateCopy(s) /\ req' = [req EXCEPT ![s].fd = e.inode]
      BY <2>1, LibraryMoves
    <3>2. CASE CommitCreateCopy(s) /\ req' = [req EXCEPT ![s].fd = e.inode]
      <4>1. part[req[s].path] # Nil
        BY <1>1, <2>1, <3>2 DEF CommitCreateCopy
      <4>2. pc'[s] = "copy" /\ req'[s].fd = e.inode
        <5>1. pc \in [Session -> Label] /\ req \in [Session -> RequestType]
          BY <1>1 DEF TypeOK
        <5>2. pc' = [pc EXCEPT ![s] = "copy"]
          BY <3>2, <4>1 DEF CommitCreateCopy
        <5>3. req'[s].fd = e.inode
          BY <3>2, <5>1 DEF RequestType
        <5>. QED BY <5>1, <5>2, <5>3
      <4>. QED BY <1>4, <4>2 DEF Settled
    <3>. QED BY <3>1, <3>2
  <2>2. CASE e \in library
    <3>1. PICK s \in Session : pc[s] = "copy" /\ req[s].fd = e.inode
      BY <1>4, <2>2 DEF Settled
    <3>2. CommitCopy(s)
      BY <1>1, <1>4, <3>1, CopyMoves DEF Settled
    <3>3. e.file = req[s].file
      BY <1>1, <2>2, <3>1 DEF Ownership, CopyOwnsTarget
    <3>. QED BY <3>2, <3>3
  <2>. QED BY <2>1, <2>2
<1>5. CASE \E s \in Session : CommitLink(s) \/ CommitCopy(s)
  <2>1. PICK s \in Session : CommitLink(s) \/ CommitCopy(s)
    BY <1>5
  <2>2. SavedFiles' \subseteq SavedFiles \cup {req[s].file}
    BY <1>2, <1>3, <1>4, <2>1, SavedIs
  <2>3. ~Ready(s)
    BY <2>1 DEF CommitLink, CommitCopy, Ready
  <2>. QED BY <2>2, <2>3, SavedStays
<1>6. CASE ~\E s \in Session : CommitLink(s) \/ CommitCopy(s)
  <2>1. SavedFiles' \subseteq SavedFiles
    BY <1>2, <1>4, <1>6, SavedIs
  <2>. QED BY <2>1, SavedStays
<1>. QED BY <1>5, <1>6

(* A commit that copies has its file in the library, and one that is about *)
(* to remove the .part, or to be recorded, has saved it.                   *)
CommitsSave ==
  \A s \in Session :
    /\ pc[s] = "copy" => [file |-> req[s].file, inode |-> req[s].fd] \in library
    /\ pc[s] \in {"unlink", "record"} => req[s].file \in SavedFiles

LEMMA CommitsSaveStep ==
  ASSUME Orderly, IInv, CommitsSave, [Next]_vars
  PROVE  CommitsSave'
<1>1. TypeOK /\ Ownership /\ IInv'
  BY IInvStep DEF IInv
<1>2. SavedFiles \subseteq SavedFiles'
  BY SavedStays
<1>3. ASSUME NEW s \in Session, pc'[s] = "copy"
      PROVE  [file |-> req'[s].file, inode |-> req'[s].fd] \in library'
  <2>1. CASE pc[s] = "copy"
    <3>1. ~CommitCopy(s)
      BY <1>1, <1>3, <2>1 DEF CommitCopy, Reply, Goto, TypeOK
    <3>2. req'[s].file = req[s].file /\ req'[s].fd = req[s].fd
      BY <1>1, <2>1, <3>1, CopyMoves
    <3>3. [file |-> req[s].file, inode |-> req[s].fd] \in library
      BY <2>1 DEF CommitsSave
    <3>4. ASSUME NEW t \in Session, CommitCopy(t)
          PROVE  [file |-> req[s].file, inode |-> req[s].fd] \in library'
      <4>1. req[s].fd # req[t].fd
        BY <1>1, <2>1, <3>1, <3>4 DEF CommitCopy, Ownership, CopyOwnsTarget
      <4>. QED BY <3>3, <3>4, <4>1 DEF CommitCopy
    <3>5. CASE ~\E t \in Session : CommitCopy(t)
      <4>1. library \subseteq library'
        <5>1. ASSUME NEW t \in Session, SessionStep(t) PROVE library \subseteq library'
          BY <3>5, <5>1 DEF SessionStep, CreateSession, Refuse, Prune, Abort, Cancel, CancelMark,
             CancelRemove, Chunk, ChunkCheck, ChunkOpen, ChunkWrite, ChunkUpdate, Finish,
             FinishCheck, FinishCreate, FinishSize, FinishVerify, CommitLink, CommitCreateCopy,
             CommitUnlink, FinishRecord, fileVars
        <5>2. CASE (\E d \in Dir : SetDownloadDir(d)) \/ Crash \/ UNCHANGED vars
          BY <5>2 DEF SetDownloadDir, Crash, vars, fileVars
        <5>. QED BY <5>1, <5>2, StepCases
      <4>. QED BY <3>2, <3>3, <4>1
    <3>. QED BY <3>2, <3>4, <3>5
  <2>2. CASE CommitCreateCopy(s)
    <3>1. PICK i \in Free : /\ req' = [req EXCEPT ![s].fd = i]
                            /\ library' = library \cup {[file |-> req[s].file, inode |-> i]}
      BY <1>1, <1>3, <2>2 DEF CommitCreateCopy, Reply, TypeOK
    <3>2. req'[s].fd = i /\ req'[s].file = req[s].file
      BY <1>1, <3>1 DEF TypeOK, RequestType
    <3>. QED BY <3>1, <3>2
  <2>. QED BY <1>1, <1>3, <2>1, <2>2, CopyMoves
<1>4. ASSUME NEW s \in Session, pc'[s] \in {"unlink", "record"}
      PROVE  req'[s].file \in SavedFiles'
  <2>1. CASE pc[s] \in {"unlink", "record"}
    <3>1. ~Ready(s) /\ ~Ready(s)'
      BY <1>4, <2>1 DEF Ready
    <3>2. req'[s].file = req[s].file
      BY <1>1, <3>1, InFlightMoves
    <3>. QED BY <1>2, <2>1, <3>2 DEF CommitsSave
  <2>2. CASE pc[s] \notin {"unlink", "record"}
    <3>1. CommitLink(s) \/ CommitCopy(s)
      <4>1. ASSUME NEW t \in Session, SessionStep(t), t # s PROVE FALSE
        BY <1>1, <1>4, <2>2, <4>1, OthersUntouched DEF Untouched
      <4>2. ~CreateSession(s) /\ ~Prune(s) /\ ~Cancel(s) /\ ~Abort(s) /\ ~Refuse(s) /\ ~Chunk(s)
        BY <1>1, <1>4, <2>2 DEF CreateSession, Prune, Cancel, CancelMark, CancelRemove, Abort,
           Refuse, Chunk, ChunkCheck, ChunkOpen, ChunkWrite, ChunkUpdate, Reply, TypeOK
      <4>3. CASE Finish(s)
        BY <1>1, <1>4, <2>2, <4>3 DEF Finish, FinishCheck, FinishCreate, FinishSize,
           FinishVerify, CommitCreateCopy, CommitUnlink, FinishRecord, Reply, Goto, TypeOK
      <4>4. ~Crash /\ ~(\E d \in Dir : SetDownloadDir(d)) /\ ~UNCHANGED vars
        BY <1>4, <2>2 DEF Crash, SetDownloadDir, vars, Ready
      <4>. QED BY <4>1, <4>2, <4>3, <4>4, StepCases DEF SessionStep
    <3>2. req'[s].file = req[s].file
      BY <1>1, <1>4, <3>1 DEF CommitLink, CommitCopy, Reply, Goto, TypeOK
    <3>3. \A t \in Session : pc'[t] = "copy" => t # s /\ pc[t] = "copy" /\ req'[t] = req[t]
      <4>1. SessionStep(s)
        BY <3>1 DEF SessionStep, Finish
      <4>. QED BY <1>1, <1>4, <4>1, OthersUntouched DEF Untouched
    <3>4. CASE CommitLink(s)
      <4>1. PICK i : i = part[req[s].path]
        OBVIOUS
      <4>2. i # Nil /\ library' = library \cup {[file |-> req[s].file, inode |-> i]}
        BY <1>1, <1>4, <3>4, <4>1 DEF CommitLink, Reply, TypeOK
      <4>3. req[s].path \in Path
        BY <1>1, <3>4 DEF CommitLink, TypeOK, RequestsOK, Ready
      <4>4. \A t \in Session : pc'[t] = "copy" => req'[t].fd # i
        BY <1>1, <3>3, <4>1, <4>3 DEF Ownership, CopyOwnsTarget
      <4>5. PICK e \in library' : e = [file |-> req[s].file, inode |-> i]
        BY <4>2
      <4>6. Settled(e)'
        BY <4>4, <4>5 DEF Settled
      <4>. QED BY <1>1, <3>2, <4>5, <4>6 DEF IInv, Ownership, SavedIntact, SavedFiles
    <3>5. CASE CommitCopy(s)
      <4>1. library' = library
        BY <1>1, <1>4, <3>5 DEF CommitCopy, Reply, TypeOK
      <4>2. PICK e \in library' : e = [file |-> req[s].file, inode |-> req[s].fd]
        BY <3>5, <4>1 DEF CommitCopy, CommitsSave
      <4>3. \A t \in Session : pc'[t] = "copy" => req'[t].fd # req[s].fd
        BY <1>1, <3>3, <3>5 DEF CommitCopy, Ownership, CopyOwnsTarget
      <4>4. Settled(e)'
        BY <4>2, <4>3 DEF Settled
      <4>. QED BY <1>1, <3>2, <4>2, <4>4 DEF IInv, Ownership, SavedIntact, SavedFiles
    <3>. QED BY <3>1, <3>4, <3>5
  <2>. QED BY <2>1, <2>2
<1>. QED BY <1>3, <1>4 DEF CommitsSave

(* A request in flight is about an entry that its session offers.          *)
OffersOK == \A s \in Session : ~Ready(s) => req[s].file \in Offers[s]

LEMMA OffersOKStep == ASSUME TypeOK, OffersOK, [Next]_vars PROVE OffersOK'
<1>. SUFFICES ASSUME NEW s \in Session, ~Ready(s)' PROVE req'[s].file \in Offers[s]
  BY DEF OffersOK
<1>1. CASE ~Ready(s)
  BY <1>1, InFlightMoves DEF OffersOK
<1>2. CASE Ready(s)
  <2>1. ASSUME NEW t \in Session, SessionStep(t), t # s PROVE FALSE
    BY <1>2, <2>1, OthersUntouched DEF Untouched, Ready
  <2>2. ~CreateSession(s) /\ ~Prune(s) /\ ~Cancel(s) /\ ~Abort(s) /\ ~Refuse(s)
    BY <1>2 DEF CreateSession, Prune, Cancel, CancelMark, CancelRemove, Abort, Refuse, Reply,
       Ready, TypeOK
  <2>3. CASE Chunk(s) \/ Finish(s)
    <3>1. PICK f \in File :
            \/ FinishCheck(s, f)
            \/ \E off \in 0 .. Size[f] : \E n \in 1 .. (Size[f] - off) : ChunkCheck(s, f, off, n)
      BY <1>2, <2>3 DEF Chunk, ChunkOpen, ChunkWrite, ChunkUpdate, Finish, FinishCreate,
         FinishSize, FinishVerify, CommitLink, CommitCreateCopy, CommitCopy, CommitUnlink,
         FinishRecord, Ready
    <3>2. f \in Offers[s] /\ \E off, end : req' = [req EXCEPT ![s] = Request(f, off, end)]
      BY <3>1 DEF ChunkCheck, FinishCheck
    <3>. QED BY <3>2 DEF TypeOK, Request
  <2>4. ~Crash /\ ~(\E d \in Dir : SetDownloadDir(d)) /\ ~UNCHANGED vars
    BY <1>2 DEF Crash, SetDownloadDir, vars, Ready
  <2>. QED BY <2>1, <2>2, <2>3, <2>4, StepCases DEF SessionStep
<1>. QED BY <1>1, <1>2

-----------------------------------------------------------------------------
(* What is left of a cancelled session.                                    *)

(* The folder of an instance in which nobody picks another one.            *)
LEMMA DirStays == ASSUME "chdir" \notin Faults, [Next]_vars PROVE dir' = dir
<1>1. ASSUME NEW s \in Session, SessionStep(s) PROVE dir' = dir
  <2>1. CASE CreateSession(s) \/ Refuse(s) \/ Prune(s) \/ Abort(s) \/ Cancel(s)
    BY <2>1 DEF CreateSession, Refuse, Prune, Abort, Cancel, CancelMark, CancelRemove
  <2>2. CASE Chunk(s)
    BY <2>2 DEF Chunk, ChunkCheck, ChunkOpen, ChunkWrite, ChunkUpdate
  <2>3. CASE Finish(s)
    BY <2>3 DEF Finish, FinishCheck, FinishCreate, FinishSize, FinishVerify, CommitLink,
       CommitCreateCopy, CommitCopy, CommitUnlink, FinishRecord
  <2>. QED BY <1>1, <2>1, <2>2, <2>3 DEF SessionStep
<1>2. CASE Crash \/ UNCHANGED vars
  BY <1>2 DEF Crash, vars
<1>3. \A d \in Dir : ~SetDownloadDir(d)
  BY DEF SetDownloadDir
<1>. QED BY <1>1, <1>2, <1>3, StepCases

(* A .part file appears empty and by a handler that works on it.           *)
LEMMA PartMoves ==
  ASSUME TypeOK, [Next]_vars, NEW p \in Path, part'[p] # part[p], part'[p] # Nil
  PROVE  \E t \in Session :
           /\ \/ ChunkOpen(t) /\ pc'[t] = "write"
              \/ FinishCreate(t) /\ pc'[t] = "size" /\ Size[req[t].file] = 0
           /\ ~Ready(t) /\ req[t].path = p /\ req'[t].path = p /\ req'[t].file = req[t].file
           /\ part[p] = Nil /\ disk'[part'[p]] = Empty
<1>1. /\ part \in [Path -> Inode \cup {Nil}] /\ disk \in [Inode -> Contents]
      /\ pc \in [Session -> Label] /\ req \in [Session -> RequestType]
  BY DEF TypeOK
<1>2. CASE (\E d \in Dir : SetDownloadDir(d)) \/ Crash \/ UNCHANGED vars
  BY <1>2 DEF SetDownloadDir, Crash, vars, fileVars
<1>3. ASSUME NEW s \in Session, SessionStep(s)
      PROVE  /\ \/ ChunkOpen(s) /\ pc'[s] = "write"
                \/ FinishCreate(s) /\ pc'[s] = "size" /\ Size[req[s].file] = 0
             /\ ~Ready(s) /\ req[s].path = p /\ req'[s].path = p /\ req'[s].file = req[s].file
             /\ part[p] = Nil /\ disk'[part'[p]] = Empty
  <2>1. ~CreateSession(s) /\ ~Refuse(s) /\ ~Prune(s) /\ ~Abort(s) /\ ~Cancel(s)
    BY <1>1 DEF CreateSession, Refuse, Prune, Abort, Cancel, CancelMark, CancelRemove, Unlink,
       fileVars
  <2>2. ChunkOpen(s) \/ FinishCreate(s)
    <3>1. ~ChunkWrite(s) /\ \A f \in File : \A off, n : ~ChunkCheck(s, f, off, n)
      BY DEF ChunkWrite, ChunkCheck, fileVars
    <3>2. ~ChunkUpdate(s) /\ ~CommitUnlink(s)
      BY <1>1 DEF ChunkUpdate, CommitUnlink, Unlink
    <3>3. /\ ~FinishSize(s) /\ ~FinishVerify(s) /\ ~CommitLink(s) /\ ~CommitCreateCopy(s)
          /\ ~CommitCopy(s) /\ ~FinishRecord(s) /\ \A f \in File : ~FinishCheck(s, f)
      BY DEF FinishSize, FinishVerify, CommitLink, CommitCreateCopy, CommitCopy, FinishRecord,
         FinishCheck, fileVars
    <3>. QED BY <1>3, <2>1, <3>1, <3>2, <3>3 DEF SessionStep, Chunk, Finish
  <2>3. ~Ready(s)
    BY <2>2 DEF ChunkOpen, FinishCreate, Ready
  <2>4. PICK i \in Free : /\ part[req[s].path] = Nil
                          /\ part' = [part EXCEPT ![req[s].path] = i]
                          /\ disk' = [disk EXCEPT ![i] = Empty]
    BY <2>2 DEF ChunkOpen, FinishCreate
  <2>5. i \in Inode /\ req[s].path = p /\ part'[p] = i
    BY <1>1, <2>4 DEF Free
  <2>6. disk'[part'[p]] = Empty
    BY <1>1, <2>4, <2>5
  <2>7. CASE ChunkOpen(s)
    <3>1. pc'[s] = "write" /\ req'[s].path = req[s].path /\ req'[s].file = req[s].file
      BY <1>1, <2>7 DEF ChunkOpen, RequestType
    <3>. QED BY <2>3, <2>4, <2>5, <2>6, <2>7, <3>1
  <2>8. CASE FinishCreate(s)
    <3>1. pc'[s] = "size" /\ req' = req /\ Size[req[s].file] = 0
      BY <1>1, <2>4, <2>5, <2>8 DEF FinishCreate, Goto
    <3>. QED BY <2>3, <2>4, <2>5, <2>6, <2>8, <3>1
  <2>. QED BY <2>2, <2>7, <2>8
<1>. QED BY <1>2, <1>3, StepCases

(* Who writes into an inode.                                               *)
LEMMA DiskMoves ==
  ASSUME TypeOK, [Next]_vars, NEW i \in Inode, disk'[i] # disk[i]
  PROVE  \/ i \in Free /\ disk'[i] = Empty
         \/ \E s \in Session : (ChunkWrite(s) \/ CommitCopy(s)) /\ req[s].fd = i
<1>1. disk \in [Inode -> Contents]
  BY DEF TypeOK
<1>2. CASE (\E d \in Dir : SetDownloadDir(d)) \/ Crash \/ UNCHANGED vars
  BY <1>2 DEF SetDownloadDir, Crash, vars, fileVars
<1>3. ASSUME NEW s \in Session, SessionStep(s)
      PROVE  \/ i \in Free /\ disk'[i] = Empty
             \/ (ChunkWrite(s) \/ CommitCopy(s)) /\ req[s].fd = i
  <2>1. ~CreateSession(s) /\ ~Refuse(s) /\ ~Prune(s) /\ ~Abort(s) /\ ~Cancel(s)
    BY DEF CreateSession, Refuse, Prune, Abort, Cancel, CancelMark, CancelRemove, fileVars
  <2>2. CASE Chunk(s)
    <3>1. ~ChunkUpdate(s) /\ \A f \in File : \A off, n : ~ChunkCheck(s, f, off, n)
      BY DEF ChunkUpdate, ChunkCheck, fileVars
    <3>2. CASE ChunkOpen(s)
      BY <1>1, <3>2 DEF ChunkOpen, Free
    <3>3. CASE ChunkWrite(s)
      BY <1>1, <3>3 DEF ChunkWrite
    <3>. QED BY <2>2, <3>1, <3>2, <3>3 DEF Chunk
  <2>3. CASE Finish(s)
    <3>1. /\ ~FinishSize(s) /\ ~FinishVerify(s) /\ ~CommitLink(s) /\ ~CommitUnlink(s)
          /\ ~FinishRecord(s) /\ \A f \in File : ~FinishCheck(s, f)
      BY DEF FinishSize, FinishVerify, CommitLink, CommitUnlink, FinishRecord, FinishCheck, fileVars
    <3>2. CASE FinishCreate(s) \/ CommitCreateCopy(s)
      BY <1>1, <3>2 DEF FinishCreate, CommitCreateCopy, Free
    <3>3. CASE CommitCopy(s)
      BY <1>1, <3>3 DEF CommitCopy
    <3>. QED BY <2>3, <3>1, <3>2, <3>3 DEF Finish
  <2>. QED BY <1>3, <2>1, <2>2, <2>3 DEF SessionStep
<1>. QED BY <1>2, <1>3, StepCases


(* The .part names of what handlers have open, whatever goes wrong: a file *)
(* that a chunk handler writes has at most the name it was opened under,   *)
(* and the target of a copy has none.                                      *)
Names == /\ PartsApart
         /\ \A s \in Session, p \in Path :
              /\ pc[s] = "write" /\ part[p] = req[s].fd => p = req[s].path
              /\ pc[s] = "copy" => part[p] # req[s].fd

(* How a handler comes to hold a file open.                                *)
LEMMA OpenMoves ==
  ASSUME TypeOK, [Next]_vars, NEW s \in Session
  PROVE  /\ pc'[s] = "write" => \/ ChunkOpen(s)
                                \/ /\ pc[s] = "write" /\ req'[s].fd = req[s].fd
                                   /\ req'[s].path = req[s].path
         /\ pc'[s] = "copy" => \/ CommitCreateCopy(s)
                               \/ pc[s] = "copy" /\ req'[s].fd = req[s].fd
<1>1. ASSUME NEW t \in Session, SessionStep(t), t # s PROVE pc'[s] = pc[s] /\ req'[s] = req[s]
  BY <1>1, OthersUntouched DEF Untouched
<1>2. CASE CreateSession(s) \/ Prune(s) \/ Cancel(s)
  BY <1>2 DEF CreateSession, Prune, Cancel, CancelMark, CancelRemove
<1>3. CASE Abort(s) \/ Refuse(s)
  BY <1>3 DEF Abort, Refuse, Reply, RequestType, TypeOK
<1>4. CASE Chunk(s)
  BY <1>4 DEF Chunk, ChunkCheck, ChunkOpen, ChunkWrite, ChunkUpdate, Reply, RequestType, TypeOK
<1>5. CASE Finish(s)
  BY <1>5 DEF Finish, FinishCheck, FinishCreate, FinishSize, FinishVerify, CommitLink,
     CommitCreateCopy, CommitCopy, CommitUnlink, FinishRecord, Reply, Goto, TypeOK
<1>6. CASE (\E d \in Dir : SetDownloadDir(d)) \/ Crash \/ UNCHANGED vars
  BY <1>6 DEF SetDownloadDir, Crash, vars, Ready, TypeOK
<1>. QED BY <1>1, <1>2, <1>3, <1>4, <1>5, <1>6, StepCases DEF SessionStep

LEMMA NamesStep == ASSUME TypeOK, Names, [Next]_vars PROVE Names'
<1>1. /\ part \in [Path -> Inode \cup {Nil}] /\ part' \in [Path -> Inode \cup {Nil}]
      /\ req \in [Session -> RequestType] /\ pc \in [Session -> Label]
      /\ \A s \in Session : pc[s] = "write" => req[s].path \in Path
  BY FilesStep DEF TypeOK, FilesOK, RequestsOK, Ready
<1>2. ASSUME NEW p \in Path, part'[p] # part[p], part'[p] # Nil
      PROVE  /\ part'[p] \in Free
             /\ \A q \in Path : q # p => part'[q] = part[q]
             /\ \E t \in Session : /\ ~Ready(t) /\ pc[t] # "copy" /\ req[t].path = p
                                   /\ pc'[t] = "write" => ChunkOpen(t)
  <2>1. PICK t \in Session : /\ ChunkOpen(t) \/ FinishCreate(t)
                             /\ ~Ready(t) /\ req[t].path = p /\ part[p] = Nil
    BY <1>2, PartMoves
  <2>2. \E i \in Free : part' = [part EXCEPT ![p] = i]
    BY <1>1, <1>2, <2>1 DEF ChunkOpen, FinishCreate
  <2>3. pc[t] # "copy" /\ (pc'[t] = "write" => ChunkOpen(t))
    BY <1>1, <2>1 DEF ChunkOpen, FinishCreate, Goto, Reply
  <2>. QED BY <1>1, <2>1, <2>2, <2>3
<1>3. \A i \in Free : /\ \A p \in Path : part[p] # i
                      /\ \A s \in Session : req[s].fd # i
                      /\ i # Nil
  BY NilAssumption DEF Free, Referenced
<1>4. PartsApart'
  <2>. SUFFICES ASSUME NEW p \in Path, NEW q \in Path, part'[p] = part'[q], part'[p] # Nil, p # q
                PROVE  FALSE
    BY DEF PartsApart
  <2>1. CASE part'[p] # part[p] \/ part'[q] # part[q]
    BY <1>2, <1>3, <2>1
  <2>2. CASE part'[p] = part[p] /\ part'[q] = part[q]
    BY <2>2 DEF Names, PartsApart
  <2>. QED BY <2>1, <2>2
<1>5. ASSUME NEW s \in Session, NEW p \in Path, pc'[s] = "write", part'[p] = req'[s].fd
      PROVE  p = req'[s].path
  <2>1. CASE ChunkOpen(s)
    <3>1. /\ req'[s].path = req[s].path /\ req[s].path \in Path
          /\ req'[s].fd # Nil /\ part'[req[s].path] = req'[s].fd
      <4>1. req[s].path \in Path /\ req'[s].path = req[s].path
        <5>1. pc[s] = "open" /\ req[s].path \in Path
          BY <2>1 DEF ChunkOpen, TypeOK, RequestsOK, Ready
        <5>2. \E i : req' = [req EXCEPT ![s].fd = i]
          BY <2>1 DEF ChunkOpen
        <5>. QED BY <1>1, <5>1, <5>2 DEF RequestType
      <4>2. CASE part[req[s].path] # Nil
        BY <1>1, <2>1, <4>1, <4>2 DEF ChunkOpen, RequestType
      <4>3. CASE part[req[s].path] = Nil
        <5>1. PICK i \in Free : /\ req' = [req EXCEPT ![s].fd = i]
                                /\ part' = [part EXCEPT ![req[s].path] = i]
          BY <2>1, <4>3 DEF ChunkOpen
        <5>. QED BY <1>1, <1>3, <4>1, <5>1 DEF RequestType
      <4>. QED BY <4>1, <4>2, <4>3
    <3>. QED BY <1>4, <1>5, <3>1 DEF PartsApart
  <2>2. CASE pc[s] = "write" /\ req'[s].fd = req[s].fd /\ req'[s].path = req[s].path
    <3>1. part'[p] = part[p]
      <4>1. req[s].fd # Nil
        BY <2>2, NilAssumption DEF TypeOK, RequestsOK, Ready
      <4>. QED BY <1>2, <1>3, <1>5, <2>2, <4>1
    <3>. QED BY <1>5, <2>2, <3>1 DEF Names
  <2>. QED BY <1>5, <2>1, <2>2, OpenMoves
<1>6. ASSUME NEW s \in Session, NEW p \in Path, pc'[s] = "copy", part'[p] = req'[s].fd
      PROVE  FALSE
  <2>1. CASE CommitCreateCopy(s)
    <3>1. part' = part /\ \E i \in Free : req' = [req EXCEPT ![s].fd = i]
      BY <1>1, <1>6, <2>1 DEF CommitCreateCopy, Reply
    <3>. QED BY <1>1, <1>3, <1>6, <3>1 DEF RequestType
  <2>2. CASE pc[s] = "copy" /\ req'[s].fd = req[s].fd
    <3>1. part'[p] = part[p]
      <4>1. req[s].fd # Nil
        BY <2>2, NilAssumption DEF TypeOK, RequestsOK, Ready
      <4>. QED BY <1>2, <1>3, <1>6, <2>2, <4>1
    <3>. QED BY <1>6, <2>2, <3>1 DEF Names
  <2>. QED BY <1>6, <2>1, <2>2, OpenMoves
<1>. QED BY <1>4, <1>5, <1>6 DEF Names

LEMMA InitNames == ASSUME Init PROVE Names
  BY DEF Init, Names, PartsApart

(* No session offers what another one offers.                              *)
Separate == \A s, t \in Session : s # t =>
              \A f \in Offers[s], g \in Offers[t] : KeyOf[f] # KeyOf[g]

(* An empty entry's .part file is empty: no chunk is ever written to it.   *)
EmptyParts ==
  \A p \in Path, f \in File :
    part[p] # Nil /\ KeyOf[f] = p[2] /\ Size[f] = 0 => disk[part[p]] = Empty

LEMMA EmptyPartsStep ==
  ASSUME TypeOK, Names, EmptyParts, [Next]_vars
  PROVE  EmptyParts'
<1>. SUFFICES ASSUME NEW p \in Path, NEW f \in File, part'[p] # Nil, KeyOf[f] = p[2], Size[f] = 0
              PROVE  disk'[part'[p]] = Empty
  BY DEF EmptyParts
<1>2. CASE part'[p] # part[p]
  BY <1>2, PartMoves
<1>3. CASE part'[p] = part[p]
  <2>1. part[p] \in Inode /\ disk[part[p]] = Empty
    BY <1>3 DEF EmptyParts, TypeOK
  <2>2. ~(part[p] \in Free)
    BY DEF Free, Referenced
  <2>3. ASSUME NEW s \in Session, ChunkWrite(s), req[s].fd = part[p] PROVE FALSE
    <3>1. pc[s] = "write" /\ req[s].pos < req[s].end
      BY <2>3 DEF ChunkWrite
    <3>2. p = req[s].path
      BY <2>3, <3>1 DEF Names
    <3>3. /\ req[s].file \in File /\ KeyOf[req[s].file] = KeyOf[f]
          /\ req[s].pos \in Nat /\ req[s].end \in Nat /\ req[s].end <= Size[req[s].file]
      BY <3>1, <3>2 DEF TypeOK, RequestsOK, RequestType, Ready
    <3>4. Size[req[s].file] = 0
      BY <3>3, KeyAssumption
    <3>. QED BY <3>1, <3>3, <3>4
  <2>4. ASSUME NEW s \in Session, CommitCopy(s) PROVE req[s].fd # part[p]
    BY <2>4 DEF CommitCopy, Names
  <2>. QED BY <1>3, <2>1, <2>2, <2>3, <2>4, DiskMoves
<1>. QED BY <1>2, <1>3

(* With a single folder everything is in that folder.                      *)
OneFolder == /\ \A p \in Path : part[p] # Nil => p[1] = dir
             /\ \A s \in Session : ~Ready(s) => req[s].path[1] = dir

LEMMA OneFolderStep ==
  ASSUME "chdir" \notin Faults, TypeOK, OneFolder, [Next]_vars
  PROVE  OneFolder'
<1>1. dir' = dir
  BY DirStays
<1>2. ASSUME NEW p \in Path, part'[p] # Nil PROVE p[1] = dir
  BY <1>2, PartMoves DEF OneFolder
<1>3. ASSUME NEW s \in Session, ~Ready(s)' PROVE req'[s].path[1] = dir
  <2>1. CASE ~Ready(s)
    BY <1>3, <2>1, InFlightMoves DEF OneFolder
  <2>2. CASE Ready(s)
    <3>1. ASSUME NEW t \in Session, SessionStep(t), t # s PROVE FALSE
      BY <1>3, <2>2, <3>1, OthersUntouched DEF Untouched, Ready
    <3>2. ~CreateSession(s) /\ ~Prune(s) /\ ~Cancel(s) /\ ~Abort(s) /\ ~Refuse(s)
      BY <1>3, <2>2 DEF CreateSession, Prune, Cancel, CancelMark, CancelRemove, Abort, Refuse,
         Reply, Ready, TypeOK
    <3>3. CASE Chunk(s) \/ Finish(s)
      <4>1. PICK f, off, end : f \in File /\ req' = [req EXCEPT ![s] = Request(f, off, end)]
        BY <2>2, <3>3 DEF Chunk, ChunkOpen, ChunkWrite, ChunkUpdate, Finish, FinishCreate,
           FinishSize, FinishVerify, CommitLink, CommitCreateCopy, CommitCopy, CommitUnlink,
           FinishRecord, Ready, ChunkCheck, FinishCheck
      <4>. QED BY <4>1 DEF TypeOK, Request, PathOf
    <3>4. ~Crash /\ ~(\E d \in Dir : SetDownloadDir(d)) /\ ~UNCHANGED vars
      BY <1>3, <2>2 DEF Crash, SetDownloadDir, vars, Ready
    <3>. QED BY <3>1, <3>2, <3>3, <3>4, StepCases DEF SessionStep
  <2>. QED BY <2>1, <2>2
<1>. QED BY <1>1, <1>2, <1>3 DEF OneFolder

(* A cancel begins with its mark.                                          *)
LEMMA CancelBegins ==
  ASSUME TypeOK, [Next]_vars, NEW s \in Session,
         status[s] # "Cancelled", status'[s] = "Cancelled"
  PROVE  CancelMark(s)
<1>1. ASSUME NEW t \in Session, SessionStep(t), t # s PROVE FALSE
  BY <1>1, OthersUntouched DEF Untouched
<1>2. ~CreateSession(s) /\ ~Prune(s) /\ ~Refuse(s) /\ ~Abort(s) /\ ~Chunk(s)
  BY DEF CreateSession, Prune, Refuse, Abort, Chunk, ChunkCheck, ChunkOpen, ChunkWrite,
     ChunkUpdate, sessionVars, TypeOK
<1>3. ~Finish(s)
  BY DEF Finish, FinishCheck, FinishCreate, FinishSize, FinishVerify, CommitLink,
     CommitCreateCopy, CommitCopy, CommitUnlink, FinishRecord, sessionVars, TypeOK
<1>4. \A p \in Path : ~CancelRemove(s, p)
  BY DEF CancelRemove, sessionVars
<1>5. ~Crash /\ ~UNCHANGED vars /\ \A d \in Dir : ~SetDownloadDir(d)
  BY DEF Crash, vars, SetDownloadDir, sessionVars, TypeOK
<1>. QED BY <1>1, <1>2, <1>3, <1>4, <1>5, StepCases DEF SessionStep, Cancel

(* What is still there of a cancelled session's .part files is about to be *)
(* removed: by the cancel, by the chunk handler that has it open and will  *)
(* find the session cancelled, or by the finish of an empty file, which    *)
(* cannot fail.                                                            *)
BeingRemoved(s, p) ==
  \/ p \in doomed[s]
  \/ /\ req[s].path = p
     /\ \/ pc[s] = "write"
        \/ pc[s] \in {"size", "verify", "commit", "copy", "unlink"} /\ Size[req[s].file] = 0

CleanInv ==
  \A s \in Session : status[s] = "Cancelled" =>
    \A f \in Offers[s], d \in Dir :
      part[<<d, KeyOf[f]>>] # Nil => BeingRemoved(s, <<d, KeyOf[f]>>)


(* The cancelled session's own handler goes on.                            *)
LEMMA OwnStepKeepsClean ==
  ASSUME "abort" \notin Faults, "stuck" \notin Faults, TypeOK, EmptyParts,
         NEW s \in Session, SessionStep(s),
         NEW p \in Path, status[s] = "Cancelled", status'[s] = "Cancelled",
         part[p] # Nil, part'[p] = part[p], BeingRemoved(s, p)
  PROVE  p \in doomed'[s] \/ (~(p \in doomed[s]) /\ BeingRemoved(s, p)')
<1>1. /\ pc \in [Session -> Label] /\ req \in [Session -> RequestType]
      /\ part \in [Path -> Inode \cup {Nil}] /\ doomed \in [Session -> SUBSET Path]
  BY DEF TypeOK
<1>2. ~CreateSession(s) /\ ~Prune(s) /\ ~CancelMark(s) /\ ~Abort(s)
  BY <1>1 DEF CreateSession, Prune, CancelMark, Abort, Accepting, TypeOK
<1>3. \A f \in File : ~FinishCheck(s, f) /\ \A off, n : ~ChunkCheck(s, f, off, n)
  BY DEF FinishCheck, ChunkCheck, Accepting
<1>4. CASE p \in doomed[s]
  <2>1. CASE Cancel(s)
    <3>1. PICK q \in Path : CancelRemove(s, q)
      BY <1>2, <2>1 DEF Cancel
    <3>2. q # p
      BY <1>1, <3>1, Unlinked DEF CancelRemove
    <3>. QED BY <1>1, <1>4, <3>1, <3>2 DEF CancelRemove
  <2>2. CASE ~Cancel(s)
    <3>1. UNCHANGED doomed
      BY <1>2, <1>3, <2>2 DEF SessionStep, Refuse, Chunk, ChunkOpen, ChunkWrite, ChunkUpdate,
         Finish, FinishCreate, FinishSize, FinishVerify, CommitLink, CommitCreateCopy,
         CommitCopy, CommitUnlink, FinishRecord
    <3>. QED BY <1>4, <3>1
  <2>. QED BY <2>1, <2>2
<1>5. CASE p \notin doomed[s]
  <2>1. /\ req[s].path = p /\ ~Ready(s)
        /\ \/ pc[s] = "write"
           \/ pc[s] \in {"size", "verify", "commit", "copy", "unlink"} /\ Size[req[s].file] = 0
    BY <1>5 DEF BeingRemoved, Ready
  <2>2. CASE Cancel(s)
    <3>1. UNCHANGED <<pc, req>>
      BY <1>2, <2>2 DEF Cancel, CancelRemove
    <3>. QED BY <1>5, <2>1, <3>1 DEF BeingRemoved
  <2>3. ~Refuse(s)
    BY <2>1 DEF Refuse
  <2>4. CASE Chunk(s)
    <3>1. pc[s] = "write" /\ ChunkWrite(s)
      BY <1>1, <1>3, <2>1, <2>4 DEF Chunk, ChunkOpen, ChunkWrite, ChunkUpdate, Unlink, Accepting,
         Exists
    <3>2. pc' = pc /\ req'[s].path = req[s].path
      BY <1>1, <3>1 DEF ChunkWrite, RequestType
    <3>. QED BY <1>5, <2>1, <3>1, <3>2 DEF BeingRemoved
  <2>5. CASE Finish(s)
    <3>1. /\ pc[s] \in {"size", "verify", "commit", "copy", "unlink"}
          /\ Size[req[s].file] = 0
      BY <1>3, <2>1, <2>5 DEF Finish, FinishCreate, FinishSize, FinishVerify, CommitLink,
         CommitCreateCopy, CommitCopy, CommitUnlink, FinishRecord
    <3>2. req[s].file \in File /\ p[2] = KeyOf[req[s].file]
      BY <2>1 DEF TypeOK, RequestsOK
    <3>3. disk[part[p]] = Empty
      BY <3>1, <3>2 DEF EmptyParts
    <3>4. PartLen(p) = 0 /\ Intact(part[p], req[s].file)
      <4>1. Blocks(req[s].file) = {}
        BY <3>1 DEF Blocks
      <4>. QED BY <3>1, <3>3, <4>1 DEF PartLen, Intact, Empty
    <3>5. /\ pc'[s] \in {"verify", "commit", "copy", "unlink"}
          /\ req'[s].path = p /\ req'[s].file = req[s].file
      <4>1. CASE FinishSize(s) \/ FinishVerify(s)
        BY <1>1, <2>1, <3>1, <3>4, <4>1 DEF FinishSize, FinishVerify, Goto
      <4>2. CASE CommitLink(s) \/ CommitCopy(s)
        BY <1>1, <2>1, <4>2 DEF CommitLink, CommitCopy, Goto
      <4>3. CASE CommitCreateCopy(s)
        BY <1>1, <2>1, <4>3 DEF CommitCreateCopy, RequestType
      <4>4. ~CommitUnlink(s) /\ ~FinishRecord(s) /\ ~FinishCreate(s)
        BY <1>1, <2>1, <3>1, Unlinked DEF CommitUnlink, FinishRecord, FinishCreate
      <4>. QED BY <1>3, <2>5, <4>1, <4>2, <4>3, <4>4 DEF Finish
    <3>. QED BY <1>5, <3>1, <3>5 DEF BeingRemoved
  <2>. QED BY <1>2, <2>2, <2>3, <2>4, <2>5 DEF SessionStep
<1>. QED BY <1>4, <1>5

LEMMA CleanInvStep ==
  ASSUME "abort" \notin Faults, "stuck" \notin Faults, "chdir" \notin Faults, Separate,
         TypeOK, OffersOK, EmptyParts, OneFolder, CleanInv, [Next]_vars
  PROVE  CleanInv'
<1>. SUFFICES ASSUME NEW s \in Session, status'[s] = "Cancelled", NEW f \in Offers[s],
                     NEW d \in Dir, NEW p \in Path, p = <<d, KeyOf[f]>>, part'[p] # Nil
              PROVE  BeingRemoved(s, p)'
  <2>1. \A s \in Session : Offers[s] \subseteq File
    BY OffersAssumption
  <2>2. \A f \in File, d \in Dir : <<d, KeyOf[f]>> \in Path
    BY KeyAssumption DEF Path
  <2>. QED BY <2>1, <2>2 DEF CleanInv
<1>1. f \in File /\ p[1] = d /\ p[2] = KeyOf[f]
  BY OffersAssumption
<1>2. CASE status[s] # "Cancelled"
  <2>1. CancelMark(s)
    BY <1>2, CancelBegins
  <2>2. p[1] = dir
    BY <2>1 DEF CancelMark, OneFolder, fileVars
  <2>3. PathOf(f) = p
    BY <1>1, <2>2 DEF PathOf
  <2>4. p \in doomed'[s]
    BY <2>1, <2>3 DEF CancelMark, TypeOK
  <2>. QED BY <2>4 DEF BeingRemoved
<1>3. CASE status[s] = "Cancelled" /\ part'[p] # part[p]
  <2>1. PICK t \in Session :
           /\ \/ ChunkOpen(t) /\ pc'[t] = "write"
              \/ FinishCreate(t) /\ pc'[t] = "size" /\ Size[req[t].file] = 0
           /\ ~Ready(t) /\ req[t].path = p /\ req'[t].path = p /\ req'[t].file = req[t].file
    BY <1>3, PartMoves
  <2>2. req[t].file \in Offers[t] /\ KeyOf[req[t].file] = KeyOf[f]
    BY <1>1, <2>1 DEF OffersOK, TypeOK, RequestsOK
  <2>3. t = s
    BY <2>2 DEF Separate
  <2>. QED BY <2>1, <2>3 DEF BeingRemoved
<1>4. CASE status[s] = "Cancelled" /\ part'[p] = part[p]
  <2>1. BeingRemoved(s, p)
    BY <1>4 DEF CleanInv
  <2>2. CASE SessionStep(s)
    BY <1>4, <2>1, <2>2, OwnStepKeepsClean DEF BeingRemoved
  <2>3. ASSUME NEW t \in Session, SessionStep(t), t # s PROVE BeingRemoved(s, p)'
    BY <2>1, <2>3, OthersUntouched DEF Untouched, BeingRemoved
  <2>4. ~Crash /\ \A e \in Dir : ~SetDownloadDir(e)
    BY <1>4 DEF Crash, SetDownloadDir, Exists
  <2>5. CASE UNCHANGED vars
    BY <2>1, <2>5 DEF vars, BeingRemoved
  <2>. QED BY <2>2, <2>3, <2>4, <2>5, StepCases
<1>. QED BY <1>2, <1>3, <1>4

(* When a cancel has run and the last request of the cancelled session has *)
(* been answered, none of the session's .part files is left: whatever      *)
(* handler was under way, whichever of the two was faster, and also when   *)
(* the application is restarted.  It is a theorem about sessions that      *)
(* offer different files, in one folder, whose handlers run to their end   *)
(* and remove what they mean to: one that is cut short leaves its .part    *)
(* behind, and so does the code.                                           *)
THEOREM CancelIsClean ==
  ASSUME "abort" \notin Faults, "stuck" \notin Faults, "chdir" \notin Faults, Separate
  PROVE  Spec => []CancelCleansUp
<1>. DEFINE Inv == TypeOK /\ Names /\ OffersOK /\ EmptyParts /\ OneFolder /\ CleanInv
<1>1. Init => Inv
  <2>. SUFFICES ASSUME Init PROVE Inv
    OBVIOUS
  <2>1. TypeOK /\ Names
    BY InitTypeOK, InitNames
  <2>2. \A s \in Session : Ready(s) /\ status[s] = "none"
    BY DEF Init, Ready
  <2>3. \A p \in Path : part[p] = Nil
    BY DEF Init
  <2>. QED BY <2>1, <2>2, <2>3 DEF OffersOK, EmptyParts, OneFolder, CleanInv
<1>2. Inv /\ [Next]_vars => Inv'
  <2>. SUFFICES ASSUME Inv, [Next]_vars PROVE Inv'
    OBVIOUS
  <2>1. TypeOK'
    BY SlotsStep, TablesStep, FilesStep, TypeParts
       DEF TypeOK, SlotsOK, TablesOK, FilesOK, StatusType
  <2>2. Names' /\ OffersOK' /\ EmptyParts' /\ OneFolder'
    BY NamesStep, OffersOKStep, EmptyPartsStep, OneFolderStep
  <2>. QED BY <2>1, <2>2, CleanInvStep
<1>3. Inv => CancelCleansUp
  <2>. SUFFICES ASSUME Inv, NEW s \in Session, status[s] = "Cancelled", doomed[s] = {}, Ready(s),
                       NEW f \in Offers[s], NEW d \in Dir, part[<<d, KeyOf[f]>>] # Nil
                PROVE  FALSE
    BY DEF CancelCleansUp
  <2>1. BeingRemoved(s, <<d, KeyOf[f]>>)
    BY DEF CleanInv
  <2>. QED BY <2>1 DEF BeingRemoved, Ready
<1>. QED BY <1>1, <1>2, <1>3, PTL DEF Spec
=============================================================================
