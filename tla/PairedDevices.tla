--------------------------- MODULE PairedDevices ---------------------------
(***************************************************************************)
(* The pairings one device has made with others: in memory, in             *)
(* pairings-trusted.json and in the requests that use them (app_state.rs,  *)
(* storage/, client/sender.rs, start_transfer in commands.rs), and what    *)
(* the other devices answer (server/).                                     *)
(*                                                                         *)
(*   connect   idle -> paired -> save                                      *)
(*   save      save -> export -> write -> idle                             *)
(*   remember  idle -> setting -> opened -> flag -> save or remove         *)
(*   encrypt   idle -> setting -> opened -> idle                           *)
(*   forget    idle -> clear -> remove -> idle                             *)
(*   send      idle -> found -> asked -> consent -> answered -> sending    *)
(*                                or refused                               *)
(*                                                                         *)
(* A command of the user interface runs in a slot of Command; another may  *)
(* run between any two of its steps.  Commands that change a file are kept *)
(* apart unless "overlap" is among the faults: the code has no lock for    *)
(* them and does not survive it.  Cryptography is ideal: a proof is right  *)
(* exactly when both sides hold the pairing.                               *)
(***************************************************************************)
EXTENDS Naturals, FiniteSets

CONSTANTS
  Host,     \* the other devices
  Command,  \* commands that may be in flight together
  MaxPairs, \* bound on the pairings made with a device
  MaxMade,  \* bound on the pairings made in all
  Faults    \* what may go wrong:
  \* "overlap"  commands change files together
  \* "probe"    a device does not say who it is
  \* "disk"     a file is not written or not removed

ASSUME BoundAssumption == MaxPairs \in Nat \ {0} /\ MaxMade \in Nat
ASSUME HostAssumption == IsFiniteSet(Host)

VARIABLES
  pairing,    \* TransferClient.pairings: the number of the pairing, 0 without
  blocked,    \* TransferClient.needs_repair
  remember,   \* AppState.remember_pairings
  settings,   \* settings.json
  trusted,    \* pairings-trusted.json
  made,       \* pairings each device has accepted so far
  known,      \* those of them its registry still holds
  encrypting, \* devices with encryption turned on
  cmd,        \* what each command is doing
  forgotten,  \* pairings the user has made this device forget
  wanted      \* whether the user wants encryption

memory == <<pairing, blocked, remember>>
hosts == <<made, known, encrypting>>
history == <<forgotten, wanted>>
vars == <<memory, settings, trusted, hosts, cmd, history>>

Pair == 0..MaxPairs
NoPairs == [h \in Host |-> 0]
Stored == [pairing : [Host -> Pair], blocked : SUBSET Host]
NoFile == [pairing |-> NoPairs, blocked |-> {}]
Export == [pairing |-> pairing, blocked |-> blocked]

Settings == [remember : BOOLEAN, encrypt : BOOLEAN]

(* Faulty variant: encryption is off unless the file says otherwise.       *)
EncryptByChoice == [remember |-> FALSE, encrypt |-> FALSE]

Defaults == [remember |-> FALSE, encrypt |-> TRUE]

(* How a transfer is encrypted: with a key or not, mixed with a pairing or *)
(* with none.                                                              *)
Secrecy == [enc : BOOLEAN, pair : Pair]
Plain == [enc |-> FALSE, pair |-> 0]

Idle == [at |-> "idle"]
At(stage) == [at |-> stage]
Requests(stages) == [at : stages, host : Host, req : Secrecy]
Commands ==
  {At(s) : s \in {"idle", "save", "export", "clear"}}
  \cup [at : {"paired"}, host : Host, pair : Pair]
  \cup [at : {"write"}, snap : Stored]
  \cup [at : {"setting", "opened"}, field : DOMAIN Defaults, to : BOOLEAN, snap : Settings]
  \cup [at : {"flag"}, to : BOOLEAN]
  \cup [at : {"remove"}, gone : [Host -> Pair]]
  \cup Requests({"found", "asked", "consent"})
  \cup [at : {"answered", "sending"}, host : Host, req : Secrecy, got : Secrecy]
  \cup [at : {"refused"}, host : Host, why : {"declined", "unknown"}]

Stage(c) == cmd[c].at
Goto(c, state) == cmd' = [cmd EXCEPT ![c] = state]

FileStages == {"save", "export", "write", "setting", "opened", "flag", "clear", "remove"}
Alone(c) ==
  "overlap" \in Faults \/ \A d \in Command \ {c} : Stage(d) \notin FileStages

(***************************************************************************)
(* Pairing                                                                 *)
(***************************************************************************)
(* The other device has accepted the confirmation; its answer is under way. *)
Connect(c, h) ==
  /\ Stage(c) = "idle" /\ made[h] < MaxPairs
  /\ Cardinality({p \in Host \X Pair : 0 < p[2] /\ p[2] <= made[p[1]]}) < MaxMade
  /\ made' = [made EXCEPT ![h] = @ + 1]
  /\ known' = [known EXCEPT ![h] = @ \cup {made'[h]}]
  /\ Goto(c, [at |-> "paired", host |-> h, pair |-> made'[h]])
  /\ UNCHANGED <<memory, settings, trusted, encrypting, history>>

(* Faulty variant: the pairing is kept in memory only.                     *)
PairUnsaved(c) ==
  /\ Stage(c) = "paired"
  /\ blocked' = blocked \ {cmd[c].host}
  /\ pairing' = [pairing EXCEPT ![cmd[c].host] = cmd[c].pair]
  /\ Goto(c, Idle)
  /\ UNCHANGED <<remember, settings, trusted, hosts, history>>

PairAnswered(c) ==
  /\ Stage(c) = "paired" /\ Alone(c)
  /\ blocked' = blocked \ {cmd[c].host}
  /\ pairing' = [pairing EXCEPT ![cmd[c].host] = cmd[c].pair]
  /\ Goto(c, At("save"))
  /\ UNCHANGED <<remember, settings, trusted, hosts, history>>

(***************************************************************************)
(* save_paired_devices                                                     *)
(***************************************************************************)
SaveCheck(c) ==
  /\ Stage(c) = "save"
  /\ Goto(c, IF remember THEN At("export") ELSE Idle)
  /\ UNCHANGED <<memory, settings, trusted, hosts, history>>

SaveExport(c) ==
  /\ Stage(c) = "export"
  /\ Goto(c, [at |-> "write", snap |-> Export])
  /\ UNCHANGED <<memory, settings, trusted, hosts, history>>

(* Faulty variant: needs_repair is not saved.                              *)
SaveWithoutBlocks(c) ==
  /\ Stage(c) = "write"
  /\ trusted' = [pairing |-> cmd[c].snap.pairing]
  /\ Goto(c, Idle)
  /\ UNCHANGED <<memory, settings, hosts, history>>

(* A temporary file is written and renamed; that it fails is not noticed.  *)
Rewrite(content) ==
  trusted' \in {content} \cup (IF "disk" \in Faults THEN {trusted} ELSE {})

SaveWrite(c) ==
  /\ Stage(c) = "write"
  /\ Rewrite(cmd[c].snap)
  /\ Goto(c, Idle)
  /\ UNCHANGED <<memory, settings, hosts, history>>

(***************************************************************************)
(* set_remember_paired_devices, set_encryption_enabled                     *)
(***************************************************************************)
LoadSettings(c, field, to) ==
  /\ Stage(c) = "idle" /\ Alone(c)
  /\ settings[field] # to
  /\ Goto(c, [at |-> "setting", field |-> field, to |-> to, snap |-> settings])
  /\ UNCHANGED <<memory, settings, trusted, hosts, history>>

(* The file is written in place: while it is empty it reads as Defaults.   *)
OpenSettings(c) ==
  /\ Stage(c) = "setting"
  /\ settings' = Defaults
  /\ wanted' = IF cmd[c].field = "encrypt" THEN cmd[c].to ELSE wanted
  /\ Goto(c, [cmd[c] EXCEPT !.at = "opened"])
  /\ UNCHANGED <<memory, trusted, hosts, forgotten>>

(* A write that fails is an error of the command, and leaves it empty.     *)
SaveSettings(c) ==
  /\ Stage(c) = "opened"
  /\ \E failed \in IF "disk" \in Faults THEN BOOLEAN ELSE {FALSE} :
       /\ settings' = IF failed THEN settings
                      ELSE [cmd[c].snap EXCEPT ![cmd[c].field] = cmd[c].to]
       /\ Goto(c, IF cmd[c].field = "remember" /\ ~failed
                    THEN [at |-> "flag", to |-> cmd[c].to] ELSE Idle)
  /\ UNCHANGED <<memory, trusted, hosts, history>>

StoreFlag(c) ==
  /\ Stage(c) = "flag"
  /\ remember' = cmd[c].to
  /\ Goto(c, IF cmd[c].to THEN At("save") ELSE [at |-> "remove", gone |-> NoPairs])
  /\ UNCHANGED <<pairing, blocked, settings, trusted, hosts, history>>

(***************************************************************************)
(* forget_paired_devices                                                   *)
(***************************************************************************)
Forget(c) ==
  /\ Stage(c) = "idle" /\ Alone(c)
  /\ Goto(c, At("clear"))
  /\ UNCHANGED <<memory, settings, trusted, hosts, history>>

ForgetClear(c) ==
  /\ Stage(c) = "clear"
  /\ pairing' = NoPairs /\ blocked' = {}
  /\ Goto(c, [at |-> "remove", gone |-> pairing])
  /\ UNCHANGED <<remember, settings, trusted, hosts, history>>

Gone(c) == [h \in Host |-> forgotten[h] \cup ({cmd[c].gone[h]} \ {0})]

(* Faulty variant: the file is left alone while pairings are not kept.     *)
RemoveIfKept(c) ==
  /\ Stage(c) = "remove"
  /\ trusted' = IF remember THEN NoFile ELSE trusted
  /\ forgotten' = Gone(c)
  /\ Goto(c, Idle)
  /\ UNCHANGED <<memory, settings, hosts, wanted>>

Remove(c) ==
  /\ Stage(c) = "remove"
  /\ Rewrite(NoFile)
  /\ forgotten' = Gone(c)
  /\ Goto(c, Idle)
  /\ UNCHANGED <<memory, settings, hosts, wanted>>

(***************************************************************************)
(* start_transfer, up to the session                                       *)
(***************************************************************************)
(* The pairing of the device; without its id, which a failed probe leaves  *)
(* unknown, none is found and needs_repair is not asked.  A device that is *)
(* not paired but sent its PIN along is paired first: Connect to its end.  *)
SendStart(c, h, found) ==
  /\ Stage(c) = "idle"
  /\ found \/ "probe" \in Faults
  /\ Goto(c, [at |-> IF found THEN "found" ELSE "asked", host |-> h,
              req |-> IF settings.encrypt
                        THEN [enc |-> TRUE, pair |-> IF found THEN pairing[h] ELSE 0]
                        ELSE Plain])
  /\ UNCHANGED <<memory, settings, trusted, hosts, history>>

SendAsk(c) ==
  /\ Stage(c) = "found"
  /\ Goto(c, IF cmd[c].req = [enc |-> TRUE, pair |-> 0] /\ cmd[c].host \in blocked
               THEN Idle ELSE [cmd[c] EXCEPT !.at = "asked"])
  /\ UNCHANGED <<memory, settings, trusted, hosts, history>>

Created(c, got) ==
  Goto(c, [at |-> "answered", host |-> cmd[c].host, req |-> cmd[c].req, got |-> got])
Refused(c, why) == Goto(c, [at |-> "refused", host |-> cmd[c].host, why |-> why])

Secured(c) == cmd[c].req.enc /\ cmd[c].host \in encrypting
Unknown(c) ==
  Secured(c) /\ cmd[c].req.pair \notin known[cmd[c].host] \cup {0}

(* The receiver checks the request before it asks its user and again when  *)
(* it creates the session.                                                 *)
HostCheck(c) ==
  /\ Stage(c) = "asked"
  /\ IF Unknown(c) THEN Refused(c, "unknown")
     ELSE Goto(c, [cmd[c] EXCEPT !.at = "consent"])
  /\ UNCHANGED <<memory, settings, trusted, hosts, history>>

HostDecline(c) ==
  /\ Stage(c) = "consent"
  /\ Refused(c, "declined")
  /\ UNCHANGED <<memory, settings, trusted, hosts, history>>

HostCreate(c) ==
  /\ Stage(c) = "consent"
  /\ IF Unknown(c) THEN Refused(c, "unknown")
     ELSE Created(c, IF Secured(c) THEN cmd[c].req ELSE Plain)
  /\ UNCHANGED <<memory, settings, trusted, hosts, history>>

(* Faulty variant: an answer without a key is taken for an old receiver.   *)
AcceptPlain(c) ==
  cmd[c].got.pair = IF cmd[c].got.enc THEN cmd[c].req.pair ELSE 0

(* negotiate_session_key                                                   *)
Negotiated(c) ==
  cmd[c].req.enc => cmd[c].got.enc /\ cmd[c].got.pair = cmd[c].req.pair

Answer(c) ==
  /\ Stage(c) = "answered"
  /\ Goto(c, IF Negotiated(c) THEN [cmd[c] EXCEPT !.at = "sending"] ELSE Idle)
  /\ UNCHANGED <<memory, settings, trusted, hosts, history>>

(* A refusal comes with status 403, which request_transfer_url returns as  *)
(* an answer: no pairing is marked, whatever the reason.                   *)
Refusal(c) ==
  /\ Stage(c) = "refused"
  /\ Goto(c, Idle)
  /\ UNCHANGED <<memory, settings, trusted, hosts, history>>

(* An answer is lost, or the transfer is over.                             *)
End(c) ==
  /\ Stage(c) \in {"paired", "found", "asked", "consent", "answered", "sending"}
  /\ Goto(c, Idle)
  /\ UNCHANGED <<memory, settings, trusted, hosts, history>>

(***************************************************************************)
(* The other devices, and a restart of this one at any point               *)
(***************************************************************************)
HostForgets(h) ==
  /\ known[h] # {}
  /\ known' = [known EXCEPT ![h] = {}]
  /\ UNCHANGED <<memory, settings, trusted, made, encrypting, cmd, history>>

HostEncryption(h) ==
  /\ encrypting' = IF h \in encrypting THEN encrypting \ {h} ELSE encrypting \cup {h}
  /\ UNCHANGED <<memory, settings, trusted, made, known, cmd, history>>

Restart ==
  /\ cmd' = [c \in Command |-> Idle]
  /\ remember' = settings.remember
  /\ pairing' = IF remember' THEN trusted.pairing ELSE NoPairs
  /\ blocked' = IF remember' THEN trusted.blocked ELSE {}
  /\ UNCHANGED <<settings, trusted, hosts, history>>

Init ==
  /\ pairing = NoPairs /\ blocked = {} /\ remember = FALSE
  /\ settings = Defaults /\ trusted = NoFile
  /\ made = NoPairs /\ known = [h \in Host |-> {}] /\ encrypting = Host
  /\ cmd = [c \in Command |-> Idle]
  /\ forgotten = [h \in Host |-> {}] /\ wanted = TRUE

CommandNext(c) ==
  \/ \E h \in Host : Connect(c, h)
  \/ PairAnswered(c) \/ SaveCheck(c) \/ SaveExport(c) \/ SaveWrite(c)
  \/ \E field \in DOMAIN Defaults, to \in BOOLEAN : LoadSettings(c, field, to)
  \/ OpenSettings(c) \/ SaveSettings(c) \/ StoreFlag(c)
  \/ Forget(c) \/ ForgetClear(c) \/ Remove(c)
  \/ \E h \in Host, found \in BOOLEAN : SendStart(c, h, found)
  \/ SendAsk(c) \/ HostCheck(c) \/ HostDecline(c) \/ HostCreate(c)
  \/ Answer(c) \/ Refusal(c) \/ End(c)

Next ==
  \/ \E c \in Command : CommandNext(c)
  \/ \E h \in Host : HostForgets(h) \/ HostEncryption(h)
  \/ Restart

Spec == Init /\ [][Next]_vars

(***************************************************************************)
(* Properties                                                              *)
(***************************************************************************)
TypeOK ==
  /\ pairing \in [Host -> Pair] /\ blocked \subseteq Host /\ remember \in BOOLEAN
  /\ settings \in Settings /\ trusted \in Stored
  /\ made \in [Host -> Pair] /\ known \in [Host -> SUBSET Pair]
  /\ encrypting \subseteq Host
  /\ cmd \in [Command -> Commands]
  /\ forgotten \in [Host -> SUBSET Pair] /\ wanted \in BOOLEAN

Resting == \A c \in Command : Stage(c) \notin FileStages

(* While pairings are remembered the file has what is in memory as soon as *)
(* no command is about to change it, whichever command was cut off before  *)
(* (save_paired_devices, set_remember_paired_devices).                     *)
FileFollows == Resting /\ remember => trusted = Export

(* A pairing the user has made the device forget is gone from memory and   *)
(* from the file, and no restart brings it back (forget_paired_devices).   *)
ForgottenIsGone ==
  \A h \in Host : {pairing[h], trusted.pairing[h]} \cap forgotten[h] = {}

(* The two ends of a transfer encrypt it the same way, also when a device  *)
(* is forgotten or turns encryption off while its user is asked            *)
(* (check_encrypted_request, negotiate_session_key).                       *)
EndsAgree == \A c \in Command : Stage(c) = "sending" => cmd[c].got = cmd[c].req

(* Nothing but the user's own choice turns encryption off: not a settings  *)
(* file that is half written, nor a kill that leaves it so (load_settings).*)
PlainIsWanted == ~settings.encrypt => ~wanted

(* When a device answers that it does not know the pairing, sending to it  *)
(* is blocked until it is paired again (start_transfer).                   *)
UnknownBlocks ==
  [][\A c \in Command :
       Refusal(c) /\ cmd[c].why = "unknown" => cmd[c].host \in blocked']_vars
=============================================================================
