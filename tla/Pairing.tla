------------------------------ MODULE Pairing ------------------------------
(***************************************************************************)
(* PIN pairing: the registry of the device that shows its PIN, and the     *)
(* runs of the devices that type it (server/state.rs, client/sender.rs).   *)
(*                                                                         *)
(*   idle --> (rotate) --> read --> answered --> over                      *)
(*                                                                         *)
(* A run is one call of pair_peer_url and the two requests it makes.  The  *)
(* start handler counts the run under the registry's lock, replaces the    *)
(* PIN and reads it under another one, so handlers overlap.  A run may end *)
(* anywhere (a time-out of the subnet sweep, a lost answer, a restart) and *)
(* leaves behind what it has done.                                         *)
(*                                                                         *)
(* SPAKE2 is ideal: the two sides agree exactly when the PINs are equal.   *)
(* So a PIN has no value here: a run knows the PIN shown or does not, and  *)
(* a new PIN is unknown to all.  Handlers take less than a tick, so a run  *)
(* is counted and recorded in the same one.                                *)
(***************************************************************************)
EXTENDS Naturals, Sequences, FiniteSets

CONSTANTS
  Run,            \* pairing runs
  PerMinute,      \* PAIR_ATTEMPTS_PER_MINUTE (5)
  BeforeRotation, \* PAIR_ATTEMPTS_BEFORE_PIN_ROTATION (10)
  MaxPending,     \* MAX_PENDING_PAIRS (64)
  MaxKeys,        \* MAX_STORED_PAIRINGS (256)
  Minute,         \* ticks of the attempt window (60 s)
  TTL,            \* PAIR_PENDING_TTL in ticks (60 s)
  Window,         \* ticks pairing stays open (600 s)
  Faults          \* what may go wrong, a subset of AllFaults

AllFaults == {
  "unrotated",    \* a handler that counted a run is dropped before it replaces the PIN
  "disk"          \* the file is not written or not removed, which nobody notices
}

ASSUME LimitAssumption ==
  /\ {PerMinute, BeforeRotation, MaxPending, MaxKeys} \subseteq Nat \ {0}
  /\ {Minute, TTL, Window} \subseteq Nat \ {0}
ASSUME RunAssumption == IsFiniteSet(Run)
ASSUME FaultsAssumption == Faults \subseteq AllFaults

VARIABLES
  open,        \* ticks until pairing closes
  since,       \* ticks since window_start
  attempts,    \* attempts_in_window
  unconfirmed, \* unconfirmed_attempts
  pending,     \* runs that wait for their confirmation
  keys,        \* runs whose key is accepted
  order,       \* the same, oldest first
  storing,     \* store_dir is set
  remember,    \* remember_paired_devices in settings.json
  file,        \* pairings-accepted.json
  at,          \* where each run stands
  knows,       \* the PIN it has is the one shown, or the one answered with
  age,         \* ticks since this process counted the run, LongAgo if it has not
  guesses      \* answers given with the PIN since it was shown or confirmed

limitVars == <<since, attempts, unconfirmed>>
keyVars == <<keys, order, file>>
settingVars == <<storing, remember>>
runVars == <<at, knows, age>>
vars == <<open, limitVars, pending, keyVars, settingVars, runVars, guesses>>

Stage == {"idle", "rotate", "read", "answered", "over"}
Handled == {r \in Run : at[r] \in {"rotate", "read"}}

LongAgo == IF TTL > Minute THEN TTL ELSE Minute

Goto(r, stage) == at' = [at EXCEPT ![r] = stage]
End(r) == Goto(r, "over") /\ knows' = [knows EXCEPT ![r] = FALSE]

(***************************************************************************)
(* POST /pair/start                                                        *)
(***************************************************************************)
Counted ==
  /\ since' = IF since >= Minute THEN 0 ELSE since
  /\ attempts' = (IF since >= Minute THEN 0 ELSE attempts) + 1

(* Faulty variant: the counter starts again, the PIN stays.                *)
NeverRotate(r) ==
  /\ unconfirmed' = IF unconfirmed >= BeforeRotation THEN 1 ELSE unconfirmed + 1
  /\ Goto(r, "read")

CountUnconfirmed(r) ==
  \/ /\ unconfirmed < BeforeRotation
     /\ unconfirmed' = unconfirmed + 1 /\ Goto(r, "read")
  \/ /\ unconfirmed >= BeforeRotation
     /\ unconfirmed' = 1 /\ Goto(r, "rotate")

(* Faulty variant: the attempts are counted and never compared.            *)
StartUnlimited(r, right) ==
  /\ at[r] = "idle" /\ open > 0
  /\ Counted /\ CountUnconfirmed(r)
  /\ knows' = [knows EXCEPT ![r] = right]
  /\ age' = [age EXCEPT ![r] = 0]
  /\ UNCHANGED <<open, pending, keyVars, settingVars, guesses>>

StartCheck(r, right) ==
  /\ at[r] = "idle" /\ open > 0
  /\ since >= Minute \/ attempts < PerMinute
  /\ Counted /\ CountUnconfirmed(r)
  /\ knows' = [knows EXCEPT ![r] = right]
  /\ age' = [age EXCEPT ![r] = 0]
  /\ UNCHANGED <<open, pending, keyVars, settingVars, guesses>>

StartRefused(r) ==
  /\ at[r] = "idle"
  /\ open = 0 \/ (since < Minute /\ attempts >= PerMinute)
  /\ End(r)
  /\ UNCHANGED <<open, limitVars, pending, keyVars, settingVars, age, guesses>>

NewPin ==
  /\ knows' = [r \in Run |-> knows[r] /\ at[r] = "answered"]
  /\ guesses' = 0

Rotate(r) ==
  /\ at[r] = "rotate"
  /\ NewPin /\ Goto(r, "read")
  /\ UNCHANGED <<open, limitVars, pending, keyVars, settingVars, age>>

Fresh == {r \in pending : age[r] < TTL}
Oldest(runs) == {r \in runs : \A q \in runs : age[q] <= age[r]}

AddPending(r) ==
  IF Cardinality(Fresh) >= MaxPending
    THEN \E old \in Oldest(Fresh) : pending' = (Fresh \ {old}) \cup {r}
    ELSE pending' = Fresh \cup {r}

(* The PIN is read and the pending run recorded; what others do in between *)
(* changes neither.                                                        *)
Respond(r) ==
  /\ at[r] = "read"
  /\ AddPending(r)
  /\ guesses' = guesses + 1
  /\ Goto(r, "answered")
  /\ UNCHANGED <<open, limitVars, keyVars, settingVars, knows, age>>

(***************************************************************************)
(* The client, and POST /pair/finish                                       *)
(***************************************************************************)
(* A wrong PIN shows on the client, before anything else is sent.          *)
ClientRejects(r) ==
  /\ at[r] = "answered" /\ ~knows[r]
  /\ End(r)
  /\ UNCHANGED <<open, limitVars, pending, keyVars, settingVars, age, guesses>>

Elems(s) == {s[i] : i \in DOMAIN s}

(* Errors of save_accepted and remove_accepted are ignored.                *)
Rewrite(content) ==
  file' \in {content} \cup (IF "disk" \in Faults THEN {file} ELSE {})

Persist == Rewrite(IF storing THEN order' ELSE file)

(* Faulty variants: the oldest key stays, or the file does.                *)
AcceptWithoutDrop(r) ==
  /\ order' = IF Len(order) >= MaxKeys THEN Append(Tail(order), r) ELSE Append(order, r)
  /\ keys' = keys \cup {r}
  /\ Persist

AcceptUnsaved(r) ==
  /\ order' = IF Len(order) >= MaxKeys THEN Append(Tail(order), r) ELSE Append(order, r)
  /\ keys' = {r} \cup (IF Len(order) >= MaxKeys THEN keys \ {Head(order)} ELSE keys)
  /\ file' = file

(* Faulty variant: the oldest is dropped one pairing too early.            *)
AcceptDropsEarly(r) ==
  /\ order' = IF Len(order) > 0 /\ Len(order) + 1 >= MaxKeys THEN Append(Tail(order), r) ELSE Append(order, r)
  /\ keys' = Elems(order')
  /\ Persist

Accept(r) ==
  /\ order' = IF Len(order) >= MaxKeys THEN Append(Tail(order), r) ELSE Append(order, r)
  /\ keys' = {r} \cup (IF Len(order) >= MaxKeys THEN keys \ {Head(order)} ELSE keys)
  /\ Persist

(* A finish takes the pending run away, also one that is late or confirms  *)
(* another PIN; only another client than ours sends the latter.            *)
PairFinish(r) ==
  /\ at[r] = "answered"
  /\ pending' = pending \ {r}
  /\ End(r)
  /\ IF r \in pending /\ age[r] < TTL /\ knows[r]
       THEN Accept(r) /\ unconfirmed' = 0 /\ guesses' = 0
       ELSE UNCHANGED <<unconfirmed, keyVars, guesses>>
  /\ UNCHANGED <<open, since, attempts, settingVars, age>>

(* The connection breaks, or the sweep gives up: a handler is dropped at   *)
(* its await, an answer is lost.                                           *)
Lose(r) ==
  /\ at[r] \in {"read", "answered"} \/ (at[r] = "rotate" /\ "unrotated" \in Faults)
  /\ End(r)
  /\ UNCHANGED <<open, limitVars, pending, keyVars, settingVars, age, guesses>>

(***************************************************************************)
(* The user of the host, and time                                          *)
(***************************************************************************)
SetWindow(ticks) ==
  /\ open # ticks /\ open' = ticks
  /\ UNCHANGED <<limitVars, pending, keyVars, settingVars, runVars, guesses>>

Regenerate ==
  /\ NewPin
  /\ UNCHANGED <<open, limitVars, pending, keyVars, settingVars, at, age>>

Forget ==
  /\ keys' = {} /\ order' = <<>>
  /\ Rewrite(IF storing THEN <<>> ELSE file)
  /\ UNCHANGED <<open, limitVars, pending, settingVars, runVars, guesses>>

(* set_remember_paired_devices: the setting first, the registry after it.  *)
SaveSetting ==
  /\ remember = storing
  /\ remember' = ~remember
  /\ UNCHANGED <<open, limitVars, pending, keyVars, storing, runVars, guesses>>

SetPersistence ==
  /\ storing' = remember
  /\ Rewrite(IF remember THEN order ELSE IF storing THEN <<>> ELSE file)
  /\ UNCHANGED <<open, limitVars, pending, keys, order, remember, runVars, guesses>>

(* A new process: a new PIN, pairing off, and the keys of the file.        *)
Restart ==
  /\ open' = 0 /\ since' = 0 /\ attempts' = 0 /\ unconfirmed' = 0
  /\ pending' = {}
  /\ storing' = remember
  /\ order' = (IF remember THEN file ELSE <<>>) /\ keys' = Elems(order')
  /\ at' = [r \in Run |-> IF r \in Handled THEN "over" ELSE at[r]]
  /\ age' = [r \in Run |-> LongAgo]
  /\ knows' = [r \in Run |-> knows[r] /\ at[r] = "answered"] /\ guesses' = 0
  /\ UNCHANGED <<remember, file>>

Older(n, limit) == IF n < limit THEN n + 1 ELSE n

Tick ==
  /\ Handled = {}
  /\ open' = IF open > 0 THEN open - 1 ELSE 0
  /\ since' = Older(since, Minute)
  /\ age' = [r \in Run |-> Older(age[r], LongAgo)]
  /\ <<open, since, age>>' # <<open, since, age>>
  /\ UNCHANGED <<attempts, unconfirmed, pending, keyVars, settingVars,
                 at, knows, guesses>>

Init ==
  /\ open = 0 /\ since = 0 /\ attempts = 0 /\ unconfirmed = 0
  /\ pending = {} /\ keys = {} /\ order = <<>>
  /\ storing = FALSE /\ remember = FALSE /\ file = <<>>
  /\ at = [r \in Run |-> "idle"] /\ knows = [r \in Run |-> FALSE]
  /\ age = [r \in Run |-> LongAgo]
  /\ guesses = 0

RunNext(r) ==
  \/ \E right \in BOOLEAN : StartCheck(r, right)
  \/ StartRefused(r) \/ Rotate(r) \/ Respond(r)
  \/ ClientRejects(r) \/ PairFinish(r) \/ Lose(r)

Next ==
  \/ \E r \in Run : RunNext(r)
  \/ SetWindow(0) \/ SetWindow(Window)
  \/ Regenerate \/ Forget \/ SaveSetting \/ SetPersistence \/ Restart \/ Tick

Spec == Init /\ [][Next]_vars

(***************************************************************************)
(* Properties                                                              *)
(***************************************************************************)
RunSeq == UNION {[1..n -> Run] : n \in 0..MaxKeys}

TypeOK ==
  /\ open \in 0..Window /\ since \in 0..Minute
  /\ attempts \in 0..PerMinute /\ unconfirmed \in 0..BeforeRotation
  /\ pending \subseteq Run /\ keys \subseteq Run
  /\ order \in RunSeq /\ file \in RunSeq
  /\ storing \in BOOLEAN /\ remember \in BOOLEAN
  /\ at \in [Run -> Stage] /\ knows \in [Run -> BOOLEAN]
  /\ age \in [Run -> 0..LongAgo]
  /\ guesses \in Nat

(* The keys and the order they are dropped in are two containers that hold *)
(* the same runs, within the limits of the registry (pair_start,           *)
(* pair_finish, load_accepted_pairings).                                   *)
RegistryAgrees ==
  /\ keys = Elems(order)
  /\ \A i, j \in DOMAIN order : order[i] = order[j] => i = j
  /\ Len(order) <= MaxKeys
  /\ Cardinality(pending) <= MaxPending /\ pending \cap keys = {}

(* While pairings are remembered the file holds the accepted ones, in      *)
(* order, so a restart loses none (PairingRegistry::persist).  It fails    *)
(* when a write may fail unnoticed ("disk").                               *)
StoredAgrees == storing => file = order

(* A PIN is replaced after a bounded number of unconfirmed answers, also   *)
(* when handlers that were counted before a rotation or a confirmation     *)
(* read it after (PAIR_ATTEMPTS_BEFORE_PIN_ROTATION).  It fails when a     *)
(* handler may be dropped before it replaces the PIN ("unrotated").        *)
GuessesBounded == guesses < BeforeRotation + 2 * PerMinute

(* No minute, wherever it begins, sees more attempts than the limit        *)
(* ("Maximum /pair/start attempts accepted per rolling minute", the        *)
(* comment on PAIR_ATTEMPTS_PER_MINUTE).  It fails: pair_start counts in   *)
(* windows, and a minute may span two that adjoin.                         *)
RollingMinute == Cardinality({r \in Run : age[r] < Minute}) <= PerMinute

(* An accepted pairing goes only when all go (the user forgets them, or a  *)
(* restart that does not remember them), when it is the oldest of a full   *)
(* registry, or when the host is killed between the setting and the store  *)
(* and comes back with an older file (pair_finish, load_accepted_pairings, *)
(* forget_accepted_pairings).                                              *)
KeysKept ==
  [][\A r \in keys \ keys' :
       \/ order' = <<>>
       \/ Len(order) = MaxKeys /\ r = Head(order)
       \/ ~storing /\ order' = file]_vars
=============================================================================
