--------------------------- MODULE ReceiveHistory ---------------------------
(***************************************************************************)
(* How received transfers get into the history: the events of the request  *)
(* handlers (server/routes.rs, server/state.rs), the broadcast channel     *)
(* between them and the listener (lib.rs), and the store of the records    *)
(* (storage/history.rs), to which finished sends and the user write too.   *)
(*                                                                         *)
(*   chunk, finish, cancel --> events --> listener --+                     *)
(*                                         sender ---+--> history.json     *)
(*                                           user ---+                     *)
(*                                                                         *)
(* A session is seen from here as its status and what is there of its      *)
(* files.  The sender works through them one after the other.              *)
(***************************************************************************)
EXTENDS Naturals, SequencesExt

CONSTANTS
  Session,  \* receiving sessions, by token
  Sent,     \* transfers this device sends, by token
  Files,    \* files of a session
  Empty,    \* those of them, by position, without bytes
  Backlog,  \* events the broadcast channel keeps (256)
  Silence   \* the listener waits for an event

ASSUME FilesAssumption == Files \in Nat \ {0} /\ Empty \subseteq 1..Files
ASSUME TokensAssumption == Session \cap Sent = {}
ASSUME BacklogAssumption == Backlog \in Nat \ {0}

VARIABLES
  status,    \* sessions: status, "none" before and "gone" after its time
  counted,   \* sessions: files whose bytes are all in file_progress
  finished,  \* sessions: how many files are saved
  finishing, \* sessions whose finish handler is at work
  owed,      \* events that handlers are about to send
  events,    \* the broadcast channel, as the listener sees it
  heard,     \* the event the listener has taken
  recorded,  \* recorded_tokens
  job,       \* what each writer wants of the store
  lock,      \* who holds HISTORY_LOCK
  loaded,    \* what each writer has read under the lock
  file,      \* history.json
  missed,    \* transfers that lost an event or their record, or were killed
  added,     \* records whose add_record has returned
  kept       \* those of them the user has not deleted

sessionVars == <<status, counted, finished, finishing>>
listenerVars == <<heard, recorded>>
storeVars == <<lock, loaded, file, added, kept>>
eventVars == <<owed, events, missed>>
historyVars == <<sessionVars, eventVars, listenerVars, job, storeVars>>

Writer == {"listener", "sender", "user"}
(* A record is known by the token of its transfer.                         *)
Record == Session \cup Sent

Event == [kind : {"progress", "completed", "cancelled"}, session : Session]
ASSUME SilenceAssumption == Silence \notin Event
Evt(kind, s) == [kind |-> kind, session |-> s]
Job == [do : {"add", "delete"}, record : Record] \cup [do : {"nothing", "clear"}]
Nothing == [do |-> "nothing"]
Add(record) == [do |-> "add", record |-> record]

Exists(s) == status[s] \notin {"none", "gone"}
AllCounted(files) == 1..Files \subseteq files \cup Empty

(***************************************************************************)
(* The handlers                                                            *)
(***************************************************************************)
(* When the channel is full the oldest event is lost to the listener.      *)
Send(e) ==
  /\ events' = Append(IF Len(events) < Backlog THEN events ELSE Tail(events), e)
  /\ missed' = IF Len(events) < Backlog THEN missed
               ELSE missed \cup {Head(events).session}

(* The bytes of an earlier attempt count.                                  *)
CreateSession(s) ==
  /\ status[s] = "none"
  /\ status' = [status EXCEPT ![s] = "accepted"]
  /\ \E files \in SUBSET ((1..Files) \ Empty) : counted' = [counted EXCEPT ![s] = files]
  /\ UNCHANGED <<finished, finishing, eventVars, listenerVars, job, storeVars>>

Open(s) == status[s] \in {"accepted", "completed"}
AtRest(s) == s \notin finishing /\ Evt("completed", s) \notin owed

(* The last chunk of a file.                                               *)
Chunk(s) ==
  /\ Open(s) /\ AtRest(s)
  /\ finished[s] < Files /\ finished[s] + 1 \notin counted[s] \cup Empty
  /\ counted' = [counted EXCEPT ![s] = @ \cup {finished[s] + 1}]
  /\ Send(Evt("progress", s))
  /\ UNCHANGED <<status, finished, finishing, owed, listenerVars, job, storeVars>>

FinishCheck(s) ==
  /\ Open(s) /\ AtRest(s)
  /\ finished[s] < Files /\ finished[s] + 1 \in counted[s] \cup Empty
  /\ finishing' = finishing \cup {s}
  /\ UNCHANGED <<status, counted, finished, eventVars, listenerVars, job, storeVars>>

(* The file does not have its hash, or cannot be saved.                    *)
FinishFails(s) ==
  /\ s \in finishing
  /\ finishing' = finishing \ {s}
  /\ UNCHANGED <<status, counted, finished, eventVars, listenerVars, job, storeVars>>

(* The status changes when all bytes are counted, also from cancelled.     *)
FinishRecord(s) ==
  /\ s \in finishing
  /\ finishing' = finishing \ {s}
  /\ IF Exists(s)
       THEN /\ finished' = [finished EXCEPT ![s] = @ + 1]
            /\ counted' = [counted EXCEPT ![s] = @ \cup {finished'[s]}]
            /\ status' = [status EXCEPT ![s] = IF AllCounted(counted'[s]) THEN "completed" ELSE @]
       ELSE UNCHANGED <<status, counted, finished>>
  /\ owed' = owed \cup {Evt("completed", s)}
  /\ UNCHANGED <<events, missed, listenerVars, job, storeVars>>

(* cancel_session, by either user; the .part files go before the event.    *)
CancelSession(s) ==
  /\ Exists(s) /\ status[s] # "cancelled"
  /\ status' = [status EXCEPT ![s] = "cancelled"]
  /\ owed' = owed \cup {Evt("cancelled", s)}
  /\ UNCHANGED <<counted, finished, finishing, events, missed, listenerVars, job, storeVars>>

Emit(e) ==
  /\ owed' = owed \ {e}
  /\ Send(e)
  /\ UNCHANGED <<sessionVars, listenerVars, job, storeVars>>

(* The sender closes the connection of its cancel: the handler is dropped. *)
DropCancel(e) ==
  /\ e.kind = "cancelled"
  /\ owed' = owed \ {e}
  /\ missed' = missed \cup {e.session}
  /\ UNCHANGED <<sessionVars, events, listenerVars, job, storeVars>>

(* After an idle hour the events are heard, but for that of a cancel,      *)
(* which is no activity.                                                   *)
Prune(s) ==
  /\ Exists(s) /\ s \notin finishing
  /\ \A e \in owed \cup ToSet(events) \cup ({heard} \ {Silence}) :
       e.session = s => e.kind = "cancelled"
  /\ status' = [status EXCEPT ![s] = "gone"]
  /\ UNCHANGED <<counted, finished, finishing, eventVars, listenerVars, job, storeVars>>

(***************************************************************************)
(* The listener                                                            *)
(***************************************************************************)
Hear ==
  /\ heard = Silence /\ job["listener"] = Nothing /\ events # <<>>
  /\ heard' = Head(events)
  /\ events' = Tail(events)
  /\ UNCHANGED <<sessionVars, owed, missed, recorded, job, storeVars>>

(* What the session says now decides, not what it said at the event.       *)
Worth(e) ==
  /\ e.session \notin recorded
  /\ e.kind = "completed" => Exists(e.session) /\ AllCounted(counted[e.session])

(* Faulty variant: a session is recorded once it is heard of.              *)
ListenMarksFirst ==
  /\ heard # Silence
  /\ recorded' = recorded \cup {heard.session}
  /\ job' = IF heard.kind # "progress" /\ Worth(heard) /\ Exists(heard.session)
              THEN [job EXCEPT !["listener"] = Add(heard.session)] ELSE job
  /\ heard' = Silence
  /\ UNCHANGED <<sessionVars, eventVars, storeVars>>

Listen ==
  /\ heard # Silence
  /\ IF heard.kind # "progress" /\ Worth(heard)
       THEN /\ recorded' = recorded \cup {heard.session}
            /\ job' = IF Exists(heard.session)
                        THEN [job EXCEPT !["listener"] = Add(heard.session)] ELSE job
       ELSE UNCHANGED <<recorded, job>>
  /\ heard' = Silence
  /\ UNCHANGED <<sessionVars, eventVars, storeVars>>

(***************************************************************************)
(* The store                                                               *)
(***************************************************************************)
Want(w, wanted) ==
  /\ job[w] = Nothing
  /\ job' = [job EXCEPT ![w] = wanted]
  /\ UNCHANGED <<sessionVars, eventVars, listenerVars, storeVars>>

(* The task of a transfer this device has sent records it once.            *)
RecordSent(t) == t \notin added \cup missed /\ Want("sender", Add(t))

DeleteRecord(i) == Want("user", [do |-> "delete", record |-> file[i]])
ClearHistory == Want("user", [do |-> "clear"])

(* Faulty variant: the lock is not waited for.                             *)
LoadUnlocked(w) ==
  /\ job[w] # Nothing /\ w \notin lock
  /\ lock' = lock \cup {w}
  /\ loaded' = [loaded EXCEPT ![w] = file]
  /\ UNCHANGED <<sessionVars, eventVars, listenerVars, job, file, added, kept>>

Load(w) ==
  /\ job[w] # Nothing /\ lock = {}
  /\ lock' = {w}
  /\ loaded' = [loaded EXCEPT ![w] = file]
  /\ UNCHANGED <<sessionVars, eventVars, listenerVars, job, file, added, kept>>

(* Ids are unique: the record that is deleted is one.                      *)
Without(s, record) ==
  IF record \in ToSet(s) THEN RemoveAt(s, CHOOSE i \in DOMAIN s : s[i] = record) ELSE s

Changed(w) ==
  CASE job[w].do = "add"    -> <<job[w].record>> \o loaded[w]
    [] job[w].do = "delete" -> Without(loaded[w], job[w].record)
    [] job[w].do = "clear"  -> <<>>

(* A new file takes the place of the old one, and the lock is released.    *)
Store(w) ==
  /\ w \in lock
  /\ file' = Changed(w)
  /\ added' = IF job[w].do = "add" THEN added \cup {job[w].record} ELSE added
  /\ kept' = CASE job[w].do = "add"    -> kept \cup {job[w].record}
               [] job[w].do = "delete" -> kept \ {job[w].record}
               [] job[w].do = "clear"  -> {}
  /\ job' = [job EXCEPT ![w] = Nothing]
  /\ loaded' = [loaded EXCEPT ![w] = <<>>]
  /\ lock' = lock \ {w}
  /\ UNCHANGED <<sessionVars, eventVars, listenerVars>>

(* The file cannot be written or replaced: nobody tries again.             *)
StoreFails(w) ==
  /\ w \in lock
  /\ missed' = IF job[w].do = "add" THEN missed \cup {job[w].record} ELSE missed
  /\ job' = [job EXCEPT ![w] = Nothing]
  /\ loaded' = [loaded EXCEPT ![w] = <<>>]
  /\ lock' = lock \ {w}
  /\ UNCHANGED <<sessionVars, owed, events, listenerVars, file, added, kept>>

(* The process is killed: its sessions and all that is under way are gone. *)
Kill ==
  /\ status' = [s \in Session |-> IF Exists(s) THEN "gone" ELSE status[s]]
  /\ missed' = missed \cup {s \in Session : Exists(s)}
  /\ finishing' = {} /\ owed' = {} /\ events' = <<>>
  /\ heard' = Silence /\ recorded' = {}
  /\ job' = [w \in Writer |-> Nothing]
  /\ loaded' = [w \in Writer |-> <<>>] /\ lock' = {}
  /\ UNCHANGED <<counted, finished, file, added, kept>>

HistoryInit ==
  /\ status = [s \in Session |-> "none"]
  /\ counted = [s \in Session |-> {}] /\ finished = [s \in Session |-> 0]
  /\ finishing = {} /\ owed = {} /\ events = <<>> /\ missed = {}
  /\ heard = Silence /\ recorded = {}
  /\ job = [w \in Writer |-> Nothing]
  /\ lock = {} /\ loaded = [w \in Writer |-> <<>>]
  /\ file = <<>> /\ added = {} /\ kept = {}

SessionNext(s) ==
  \/ Chunk(s) \/ FinishCheck(s) \/ FinishFails(s) \/ FinishRecord(s)
  \/ CancelSession(s) \/ Prune(s)

(* All but the creation of sessions and the kill.                          *)
HistoryNext ==
  \/ \E s \in Session : SessionNext(s)
  \/ \E e \in owed : Emit(e) \/ DropCancel(e)
  \/ Hear \/ Listen
  \/ \E t \in Sent : RecordSent(t)
  \/ \E i \in DOMAIN file : DeleteRecord(i)
  \/ ClearHistory
  \/ \E w \in Writer : Load(w) \/ Store(w) \/ StoreFails(w)

(***************************************************************************)
(* Properties                                                              *)
(***************************************************************************)
HistoryTypeOK ==
  /\ status \in [Session -> {"none", "accepted", "completed", "cancelled", "gone"}]
  /\ counted \in [Session -> SUBSET (1..Files)] /\ finished \in [Session -> 0..Files]
  /\ finishing \subseteq Session
  /\ owed \subseteq Event /\ events \in Seq(Event) /\ Len(events) <= Backlog
  /\ heard \in Event \cup {Silence}
  /\ recorded \subseteq Session /\ missed \subseteq Record
  /\ job \in [Writer -> Job]
  /\ lock \subseteq Writer /\ loaded \in [Writer -> Seq(Record)]
  /\ file \in Seq(Record) /\ added \subseteq Record /\ kept \subseteq added

(* A transfer of several files, completed, cancelled or both, is in the    *)
(* history once; its record stays until the user deletes it, and then      *)
(* stays away, however the writers come together and whenever the process  *)
(* is killed (recorded_tokens, HISTORY_LOCK, save_history_unlocked).       *)
RecordsKept == IsInjective(file) /\ ToSet(file) = kept

Ended(s) == \/ status[s] = "completed" /\ finished[s] = Files
            \/ status[s] = "cancelled"
Quiet == owed = {} /\ events = <<>> /\ heard = Silence /\ job["listener"] = Nothing

(* When the listener has nothing left to do, every transfer that has ended *)
(* is recorded, unless one of its events or its only try to be stored was  *)
(* lost (emit_event, the listener of lib.rs, add_record).                  *)
EndedIsRecorded ==
  Quiet => \A s \in Session :
    Ended(s) => \/ s \in missed
                \/ s \in added
=============================================================================
