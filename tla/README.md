# Easy Share: verification of transfers, pairing, consent and discovery

Easy Share sends files between two devices on a local network.  This project
models the parts of it that work concurrently or survive a restart, with TLA+
modules that TLC checks on small instances and theorems that TLAPS proves for
every instance.

All paths below are relative to the repository; `server/routes.rs` stands for
`src/src-tauri/src/server/routes.rs` and so on.

## Inventory

| component | source | state | operations | who calls whom |
|---|---|---|---|---|
| transfer sessions | `server/state.rs`, `server/routes.rs` | `sessions`: status, progress, saved paths, last activity | create, status, chunk, finish, cancel, prune | HTTP handlers, one task each; a maintenance task; the cancel command |
| file manager | `storage/file_manager.rs` | the `.part` files and saved files | open, write, size, hash, commit, names | the handlers; the commit runs on the blocking pool |
| sending task | `client/sender.rs`, `commands.rs`, `app_state.rs` | pause flag, cancel token, notify, file index, offset | the file loop, the chunk loop, pause, resume, cancel, speed limit | one task per transfer; commands of the user interface |
| events and history | `lib.rs`, `storage/history.rs` | broadcast channel (256), recorded tokens, `history.json` | emit, receive, record, delete, clear | the handlers emit, one listener records |
| pairing, host | `server/state.rs` | accepted keys and their order, pending runs, attempt counters, PIN, window | pair start, pair finish, open, close, forget, load | HTTP handlers, commands |
| pairing, client | `client/sender.rs`, `commands.rs` | keys per device, needs-repair marks | pair, mark, clear, export, import | commands |
| paired-device store | `app_state.rs`, `storage/pairings.rs` | two files, the remember flag | save, remember on and off, forget, load | commands, start-up |
| consent and handshake | `server/state.rs`, `lib.rs`, `commands.rs` | consent channel, pending consents | prompt, answer, time-out, expire | request handler, bridge task, expiry task, user |
| discovery | `discovery/*.rs` | two peer trackers, a channel between them | heartbeat, record, prune, manual add, mDNS | UDP task, mDNS thread, aggregator, reaper, commands |
| settings | `storage/settings.rs`, `app_state.rs` | `settings.json` | load, change one field, save | commands |
| frontend | `src/script/*.js` | the batch shown, the peers listed | start, cancel, pause, events | user, events of the backend |
| cryptography | `crypto.rs`, `pairing/pake.rs` | none | SPAKE2, X25519, ChaCha20-Poly1305 | pairing, chunks |
| scanner, adapters, metrics, tray | `pairing/scanner.rs`, `discovery/nic.rs`, `client/metrics.rs`, `tray.rs` | short-lived | probe, rank, average, show | commands, events |

What is hard in this code:

* **interleaving**: a handler reads a session under the lock, works on the file
  system without it and takes the lock again.  Another session, a cancel, a
  prune or a new download folder may come in between.  Files are named, not
  held: a `.part` is opened, hashed, linked and removed by its path.
* **partial failure**: a handler is dropped when its connection closes; a commit
  on the blocking pool runs on.  The process may be killed at any point.
* **lost answers and retries**: the sender tries again after a request whose
  effect it does not know.
* **control from outside**: pause, resume and cancel change flags that the task
  reads between two awaits.
* **two records of one fact**: the status on the receiver, the outcome on the
  sender, the history of both; a pairing in memory and in a file, on either side.
* **answers that cross**: a user's answer, the time-out of the handler that waits
  for it, the expiry of the dialog and the next request are four clocks.
* **lossy channels**: the broadcast channels drop the oldest events of a listener
  that lags, and the listener reads the session later than the event.
* **files written in steps**: `settings.json` in place, the pairings after it.

What makes the components correct, in a line each: a saved file has the bytes
that were hashed, and keeps them; acknowledged bytes stay; a cancelled transfer
ends on both sides and leaves no partial file; a completed one is complete; an
interrupted one can be continued; a stopped task stops.  What is received was
agreed to, and is in the history once.  A forgotten pairing stays forgotten, a
remembered one is there after a restart, both ends of a transfer encrypt alike, and
a PIN sees a bounded number of guesses.

## Modules

| module | what it models |
|---|---|
| `Receiver` | sessions, chunk, finish, cancel and prune, and the files on disk, in the steps between two awaits or lock sections |
| `ReceiverProofs` | theorems about `Receiver` |
| `Sender` | the task of `start_transfer`, the chunk loop, `TransferControl` and its commands |
| `SenderProofs` | theorems about `Sender` |
| `Delivery` | what a transfer promises, without the protocol |
| `Transfer` | `Sender` and `Receiver` joined by the HTTP requests, with lost answers and new attempts |
| `TransferProofs` | theorems about `Transfer` |
| `Discovery` | peers from the network to the list on screen: mDNS, UDP heartbeats, two trackers, manual peers, the frontend's list |
| `DiscoveryProofs` | theorems about `Discovery` |
| `Pairing` | the host's registry with PIN, limits, pending runs and accepted keys, and the runs of its clients |
| `PairingProofs` | theorems about `Pairing` |
| `PairedDevices` | the pairings one device has made: memory, files, settings, commands, and the requests that use them |
| `PairedDevicesProofs` | theorems about `PairedDevices` |
| `Consent` | the question to the user: handler, channel, bridge, expiry, dialog, answer |
| `ReceiveHistory` | events of received transfers, the listener that records them, the history file and its writers |
| `HistoryProofs` | what the steps of `ReceiveHistory` keep true |
| `Reception` | `Consent` and `ReceiveHistory` in one process |
| `ReceptionProofs` | theorems about `Reception` |
| `MCReceiver`, `MCSender`, ... | instances for TLC |

### Receiver

`pc[s]` is the await point at which the request of session `s` stands, `req[s]`
its locals.  The sender awaits every response, so a session has one request slot;
cancels and prunes run beside it.  A **file on disk** is an inode with a length
and the set of blocks that hold the right bytes; `part` maps the `.part` paths to
inodes and `library` is the set of saved files.  So a file that is unlinked while
a handler holds it open, a hard link with two names, a hole left by a seek and a
file that was replaced are all distinct.

| code | actions |
|---|---|
| `handle_transfer_chunk` | `ChunkCheck` (lock), `ChunkOpen`, `ChunkWrite` (a block each), `ChunkUpdate` (lock) |
| `handle_transfer_finish` | `FinishCheck` (lock), `FinishCreate`, `FinishSize`, `FinishVerify`, the commit, `FinishRecord` (lock) |
| `commit_part_file` | `CommitLink` then `CommitUnlink`, or, without hard links, `CommitCreateCopy`, `CommitCopy`, `CommitUnlink` |
| `cancel_session` | `CancelMark` (lock), then `CancelRemove` of each `.part` |
| `prune_expired_sessions` | `Prune` |
| `fs::remove_file` of a `.part`, whose error is ignored everywhere | the operator `Unlink`: with the fault `"stuck"` the file may stay |
| a handler dropped or failing | `Abort`; a commit that has begun is `detached` and runs on |
| the process killed | `Crash`: sessions and requests are gone, files stay; the fault `"crash"` kills it outside a commit's copy and unlink, `"torn"` anywhere |

The commit links into the download folder of the moment, which need not be the folder of
the `.part`, and copies unless both are in `HardLinks` (`Linkable`).  Not modelled: a
finish request without a hash, which skips the check (`server/routes.rs`, line 543; the
application's own sender always sends one), and the sixth time in a row that a free name
is taken by someone else.

Writes handed to the blocking pool count as landed when the handler goes on (the
code flushes), and the hash of a file is taken in one step.

### Sender

`at` is the await point of the task, `waiter` the `Notified` future of the pause
loop.  A command sets its flag first and calls `notify_waiters` in a second step
(`wakes` holds the calls between the two), which is what another thread can see.
With `Preemptive = FALSE` a command and the steps of the task do not interleave,
as on a single-threaded runtime; with `TRUE` they do, as in the application.
`late` counts the chunks begun since the last stop and is no state of the code.
The throttle only lets time pass and is not modelled.  `Cancel` of a transfer that is not
running any more changes nothing here, but the peer is told all the same.

### Transfer

`Begin` is an accepted request: a new session, a new task.  `handed` says that the
task's chunk or finish request has reached the receiver.  `Lose` is an error the task
sees while the handler may run on, also after it has finished.  When an attempt ends
without being completed the user may try again (`Attempts` lists the sessions).  A
cancel request may be that of an earlier attempt and arrive late.  `Trouble` collects
aborted handlers, file errors at the sender, a crash of the receiver, a new download
folder and sessions pruned when idle.

`Delivery` has two variables: the entries of which an intact copy is saved, and
the result recorded by the sender.  `Delivers` is the refinement: `saved` is
mapped to the library entries whose inode is intact and `result` to `outcome`.

### Discovery

```
heartbeats --> udp --+
                     +--> queue --> agg --> events --> list
mDNS ---> resolved --+             manual
```

`udp` is the `PeerTracker` of `UdpDiscovery`, `agg` the aggregate one, both maps
from an address to a name, a source and an age.  `queue` is the channel between
the sources and the aggregator, which makes a sender wait; `events` is the broadcast
channel, which drops the oldest events of a reader that lags.  `phase`, `fetched`
and `answer` are the frontend's start-up, its fetch of the peers and the answer of
`add_manual_peer` on its way.

| code | actions |
|---|---|
| `record_seen_with_source` | the operator `Recorded`, used by `Heartbeat`, `Aggregate`, `AddManual` |
| the UDP task: a heartbeat, the prune | `Heartbeat`, `UdpPrune` |
| the mDNS task: resolved, removed | `ServiceResolved`, `ServiceRemoved` |
| the aggregator and the reaper of manual peers | `Aggregate`, `Reap` |
| `add_manual_peer` (`commands.rs`) and its answer | `AddManual`, `ManualAnswered` |
| the bridge in `lib.rs` and the frontend's listeners | `Forward` |
| `get_discovered_peers`, `setPeerList` | `Fetch`, `Fetched`, `Subscribe` |
| `upsertPeer`, `removePeer`, the click on a card (`peers.js`) | `Upsert`, `RemovePeer`, `Select` |

The list is an array in the code and a set here: where the code takes the first
match, any match is taken.  A tick is the time a heartbeat is valid (15 s).  The
ages at which nothing more happens are not told apart.

### Pairing

A run is one call of `pair_peer_url` with its two requests; `at` says where its
handler or its client stands.  The attempts are counted in one lock section, the PIN
is replaced in another and read in a third, so runs overlap there.  SPAKE2 is ideal
and a PIN has no value: `knows[r]` says that the run has the PIN that is shown or was
answered with, and a new PIN is unknown to all.  `guesses` counts the answers given
with one PIN and is no state of the code.

| code (`server/state.rs`) | actions |
|---|---|
| `pair_start` | `StartCheck` or `StartRefused` (registry lock), `Rotate` (PIN lock), `Respond` (PIN and registry lock) |
| the client between the two requests | `ClientRejects`, `Lose` |
| `pair_finish` with `persist` | `PairFinish` |
| the pairing window, the PIN on demand | `SetWindow`, `Regenerate` |
| `forget_accepted_pairings`, the setting and `set_pairing_persistence` | `Forget`, `SaveSetting` then `SetPersistence` |
| a new process, `load_accepted_pairings` | `Restart` |

### PairedDevices

A command of the user interface runs in a slot and may be cut off after any of its
steps by `Restart`.  Pairings with a device are numbered as they are made; `made` and
`known` are the other device's side.  `wanted` is the user's last word on encryption
and `forgotten` what was forgotten; neither is state of the code.

| code | actions |
|---|---|
| `pair_peer_url`, its answer | `Connect`, `PairAnswered` |
| `save_paired_devices` (`app_state.rs`) | `SaveCheck`, `SaveExport`, `SaveWrite` |
| `set_remember_paired_devices`, `set_encryption_enabled` | `LoadSettings`, `OpenSettings` (the file is truncated), `SaveSettings`, `StoreFlag` |
| `forget_paired_devices` | `Forget`, `ForgetClear`, `Remove` |
| `start_transfer` up to the session | `SendStart`, `SendAsk`, `Answer`, `Refusal` |
| `check_encrypted_request`, consent, `create_session` on the other device | `HostCheck`, `HostDecline`, `HostCreate` |

`Alone` keeps commands that change files apart, because the code has no lock for them:
with `"overlap"` in `Faults` two commands together make `FileFollows`, `ForgottenIsGone`
and `PlainIsWanted` fail.  The errors of writing and removing the files of pairings are
ignored by the code, here and at the host: with `"disk"` in `Faults` they happen
(`Rewrite` in both modules).  The runs leave both faults out, the hazards and Known
behaviours name what they do.  `SendStart` is about a device that is known; pairing by
PIN inside `start_transfer` is `Connect` followed by it.

### Consent, ReceiveHistory, Reception

`Consent` follows a request from `evaluate_consent` through the channel (64) to the
bridge, the dialog and back.  The handler's 60 s begin when the channel takes the
request, the expiry task's 61 s when the bridge does, so the task always finds
the handler no longer waiting; that order is the guard of `Expire`, and the clocks
are not modelled beyond it.  `timeout` polls the answer, then the clock, and the receiver
of the answer is dropped after it has returned: an answer sent by another thread
between `TimeOut` and `DropReceiver` is taken and never read.

| code | actions |
|---|---|
| `evaluate_consent` | `Ask`, `Submit`, `Answered`, `TimeOut`, `DropReceiver`, `Disconnect` |
| the bridge and the expiry task (`lib.rs`) | `Bridge`, `Expire` |
| `showConsentModal`, `expireConsentModal`, the buttons (`ui.js`) | `ShowConsent`, `ExpireConsent`, `Click` |
| `respond_transfer_request` | `Respond` |

`ReceiveHistory` sees a session as its status, the files whose bytes are all counted and
the number of files finished, which is what the listener reads; a session begins with
the files an earlier attempt has left complete as `.part`.  `owed` are events a handler
is about to send, `events` the broadcast channel (256) as the listener sees it, and
every writer of `history.json` loads and replaces it under `HISTORY_LOCK`.  A record is
known by its transfer's token.

| code | actions |
|---|---|
| `create_session` | `CreateSession`, in `Reception` only behind an accepted request |
| the chunk, finish and cancel handlers and their events | `Chunk`, `FinishCheck`, `FinishFails`, `FinishRecord`, `CancelSession`, `Emit`, `DropCancel` |
| `prune_expired_sessions` | `Prune` |
| the listener with `recorded_tokens` (`lib.rs`) | `Hear`, `Listen` |
| `add_record`, `delete_record`, `clear_history` (`storage/history.rs`) | `RecordSent`, `DeleteRecord`, `ClearHistory`, `Load`, `Store`, `StoreFails` |
| the process killed | `Kill`, in `Reception` `KillApp` |

## Runs

| run | module | question | states |
|---|---|---|---|
| `receiver_shared` | `MCReceiver` | two sessions share one `.part`: are saved files intact, stable, unaliased? | 2.1 million |
| `sender_threads` | `MCSender` | does the task obey pause and cancel of other threads, and end? | 10 thousand |
| `transfer_retry` | `MCTransfer` | two attempts with faults: holes, agreement, refinement of `Delivery` | 118 thousand |
| `transfer_cancel` | `MCTransfer` | cancels of either user: agreement, kept bytes, no `.part` left | 161 thousand |
| `transfer_live` | `MCTransfer` | is a retried batch delivered? | 6 thousand |
| `discovery_peers` | `MCDiscovery` | do trackers, list and selection agree; is a device that stays listed, one that is gone dropped? | 198 thousand |
| `pairing_host` | `MCPairing` | five runs against a host with small limits: registry, file and PIN | 491 thousand |
| `paired_devices` | `MCPairedDevices` | two devices, two commands, kills: memory, file, settings, both ends | 914 thousand |
| `reception` | `MCReception` | two requests, one transfer in the history beside a sent one | 3.5 million |
| `receiver_overlap` | `MCReceiver` | finds: a chunk of another session between hash and commit is saved unchecked | |
| `pairing_minute` | `MCPairing` | finds: a minute that spans two windows sees more attempts than the limit | |
| `paired_repair` | `MCPairedDevices` | finds: a refusal for an unknown pairing does not block the next transfer | |

**Bounds.** One or two files, of two blocks and of none: two blocks give a
first, a partial and a last chunk, none gives the file without chunks.  Two
sessions are needed for one `.part` to be shared, two or three attempts for a retry
after a lost answer.  Two inodes are a `.part` and the saved file, three and four
leave room for a second one.  Two folders, `d1` with hard links and `d2` without,
give both ways of committing.  Two losses give one for each of two attempts.
`MayStart` keeps requests for one `.part` apart unless `"overlap"` is among the
faults, because the code does not survive them (`receiver_overlap`).  The runs
leave out combinations whose outcome is known to be bad: `"torn"` while
`SavedIntact` is checked (a kill in the middle of a copy leaves half a file under
the final name), a new folder or an aborted handler while `CancelCleansUp` is (the
`.part` file of the old folder, or of the aborted chunk, stays), a new folder
while `NoHoles` is (the upload continues in the new folder at the old offset).
The system may stop when every session has ended, so deadlock is not checked in
these runs.

In `discovery_peers` `d1` is heard over two addresses of different rank, `d2` is found
by mDNS alone, and behind `a4` a device answers that only a manual peer shows.  A queue
and a backlog of one make every stage wait or run full.  A manual peer lives one tick
and not two (30 s), because nothing it meets depends on how long it lives.  Deadlock is
checked: the discovery never stops.  Lost heartbeats and expired records (`"mute"`,
`"expire"`) are left out because a device that is gone for a while looks the same: the
safety properties see the same states with them, and liveness is about a device that is
heard.  The run leaves out what is known to drift apart, named in the hazards of
`PROJECT.json`: a bridge that lags, an event between the first fetch and the
subscription, an event that overtakes the answer to a fetch (the faults `"lag"`,
`"early"`, `"overtake"` that the module can switch on), a device that is found by mDNS
and by heartbeats (either source removes what the other still sees), and a manual peer
at an address that announces itself (one name at two addresses).  Two manual peers at
two ports of one address are not modelled, nor the restart of the mDNS daemon when the
user selects another network, nor `restart_discovery`, which nothing calls.

In `pairing_host` the limits are 2 attempts a minute, 1 before the PIN changes, 2
pending runs and 2 keys, and five runs exceed each of them: two whole minutes, a full
registry and one pairing more, a pending run that is dropped.  The code's own limits (5,
10, 64, 256) differ in nothing but size.  The run leaves out the fault `"unrotated"`,
with which `GuessesBounded` fails (see Known behaviours).  `paired_devices` has two
devices, two pairings and two commands: one to change a file, one to send meanwhile.  In
`reception` the transfer has an empty and a non-empty file, so it may look complete one
event before it is; the channels hold one entry each, so that they run full; three
writers meet at the history.  The runs of a pairing host are used up and transfers end,
so deadlock is not checked in `pairing_host` and `reception`; a command can always be
given, so it is in `paired_devices`.

**Fairness.** `FairSender` gives the task strong fairness: in the middle of a command it
may not run, on a runtime that does not preempt, but between two commands it gets its
turn again and again.  Calls of `notify_waiters` that are due are made.  `FairTransfer`
assumes that both applications run, that a request arrives and is answered or fails, and
that the user tries again.  The HTTP client has no time-out, so the last one is an
assumption about the network and not something the code enforces.  `FairDiscovery` lets
time pass as long as there is anything a tick is about, and no tick passes without a
heartbeat of each device that is on and sends them.  The mDNS task, the prune, the
aggregator and the bridge have strong fairness: others may take the room in a channel
again and again but not for ever, and mDNS records are repeated.  Commands are answered.
Whether a device stays is its own choice.

**Mutants.** Every property of a passing run has a faulty variant of an action
next to the action (`TrustLength`, `IgnorePause`, ...) that breaks it.

## Proofs

`ReceiverProofs` proves for all sessions, files, keys, folders and inodes:

* `TypeCorrect`: `Spec => []TypeOK`.
* `SavedFilesAreIntact`, `SavedFilesAreNotAliased`, `SavedFilesAreStable`, under
  the assumption `Orderly` (no `"overlap"`, `"torn"` or `"stuck"` in `Faults`: crashes
  outside a commit, aborted handlers, corrupt files and new folders are covered).
  The invariants checked by TLC are not inductive.  The invariant `InvariantHolds`
  proves adds who owns an inode: the `.part` of a key is held open only by requests
  of that key, requests of one key are not in flight together, an inode in the
  library has no `.part` name and no writer unless its commit is just between the
  link and the unlink, and a commit that has passed the hash has its `.part` intact
  or gone.  The last part is what a chunk of another session would break.
* `CancelIsClean`, if no handler is cut short, the folder stays, the `.part` files can
  be removed and no two sessions offer the same key (`Separate`); kills, torn commits
  and overlapping requests are covered.  The invariant: what a handler holds open has at
  most the name it was opened under (`Names`), the `.part` of an empty entry is empty,
  and a `.part` that is left of a cancelled session is still to be removed by the
  cancel, or is open in a chunk handler that will find the session cancelled, or in the
  finish of an empty file, which cannot fail any more.

`SenderProofs` proves for every queue, chunk size and number of commands:

* `SenderTypeCorrect`, where the index and the offset are within the queue and the file;
* `FinishesOnlyWhole`: the offset is the size when the loop is left;
* `StopsAfterOneChunk`: `late` is 0 where the next flag check is still to come,
  and 1 only behind a check that was passed before the stop.

`TransferProofs` proves for every batch, chunk size, number of attempts and of lost
connections:

* `TransferTypeCorrect`, `LinkTypeCorrect`, and `TransferIsReceiver`: the two
  applications do nothing to the receiver that `Receiver` does not allow, so its
  theorems hold here too.
* `CancelIsAgreed`, without hypotheses.  The invariant adds that, as long as no
  connection was lost, a handler of the running attempt works only on the request the
  task waits for.
* `CompletionIsAgreed`, if nobody cancels and the queue is not empty, with every fault.
  `ProgressInv` says that every file the task has left behind is counted in full by
  its session, and that the session is completed when the last one is finished.
* `TransferDelivers`, the refinement of `Delivery`, if requests of two attempts do not
  overlap, no kill tears a commit and the `.part` files can be removed (`Orderly`).
  Every step is shown to be a step of `Delivery` or to leave its variables alone: only a
  commit changes what is saved, by one wanted entry (`CommitsSave`), and the task leaves
  a file behind only when an intact copy is saved (`DeliverInv`).  With `"torn"` and
  `"stuck"` the refinement is checked by TLC alone (`transfer_retry`).
* `UploadIsKept` for one attempt in one folder, with every other fault, loss and
  cancel.  A finish that an earlier attempt left behind may unlink the `.part` whose
  length the next one was just told (see Known behaviours), so it does not hold of two.
* `PartsHaveNoHoles` for any number of attempts, if nobody cancels, requests of two
  attempts do not overlap, the folder stays and the bytes are those that were hashed.
  The invariant says that a chunk handler writes at the end of its `.part` or before
  it (`WritersFollow`), that a finish which has compared the lengths keeps them equal
  (`CommitsFull`), and that the offset the task continues at is at most the length of
  the `.part` or the size of the file (`OffsetFollows`): the latter beside a finish
  that an earlier attempt left behind and that may remove the `.part`.

`PairedDevicesProofs` proves for any devices, commands and numbers of pairings:

* `DevicesTypeCorrect`, and `EndsAlwaysAgree` with every fault: a request without a
  key can only have had an answer without one, and `negotiate_session_key` refuses
  the rest.
* `PlainAlwaysWanted`, `FileAlwaysFollows`, `ForgottenStaysGone`, if no two commands
  change files at once (`"overlap" \notin Faults`); the last two also if writing and
  removing the file does not fail (`"disk" \notin Faults`).  Their invariants say what a
  command carries between two steps: a snapshot of the settings with encryption off
  only if the user wants that, an export equal to what is in memory, pairings that
  leave and are not in memory any more, and pairings that arrive and are nowhere else.

`PairingProofs` proves for any number of runs and any positive limits:

* `TypeCorrect`, `RegistryCorrect`, `StoreCorrect` and `KeysStay`, whatever is lost;
  the last two if writing the file does not fail (`"disk" \notin Faults`).
  The invariant adds that the file, like the order, names no run twice, and that a
  run that was not answered yet is nowhere in the registry or the file, so that what
  is accepted is new there, also after a restart with an old file.
* `MinuteIsTwoWindows`, what is left of the limit that `pairing_minute` refutes: no
  minute sees more than twice that many runs.  Of the runs of the last minute, those
  that are not among `attempts` were counted in one earlier window, so long ago that
  they leave the minute before this window ends.
* `GuessesHold`, if no handler is dropped between its count and the rotation it owes
  (`"unrotated" \notin Faults`).  The invariant counts the handlers at work beside
  the guesses: before a rotation is due both together are at most the unconfirmed
  attempts and one window more, behind a due one only runs of this tick join.

`ReceptionProofs` proves for any requests, files and capacities of the channels,
through kills:

* `ReceptionTypeCorrect`, and `StartedIsAlwaysTold`: an answer "accepted" is in the
  responder or the handler only when `told` says so, and a dialog that was answered is
  closed, so that nothing can change what was told.
* `StaleAlwaysExpires`: the invariant adds that a request is in one place at a time
  (channel, window, dialog, replies) and that behind one that is shown or about to be
  is its expiry task or, later in the window's queue, its event.
* `ReceivedIsAlwaysAgreed`: a session that exists was agreed to, and only what was
  added by the listener, for a session that existed, is in the file.
* `RecordsAreKept`: `StoreInv` says that one writer is at the file, that what it has
  loaded is what is in it, and that what it adds is not there yet.
* `EndedIsAlwaysRecorded`: `Followed` tells where the news of an ended session may be
  (owed by a handler, in the channel, in the listener, recorded or lost), and that
  nothing is on its way about a session before it exists.

`HistoryProofs` has the lemmas of the last two: what the handlers, the channel, the
listener and the writers do to `StoreInv` and `Followed`, and what removing and
adding one record does to the file, as a sequence and as a set.

`DiscoveryProofs` proves for any devices, addresses, ranks and capacities:

* `TypeCorrect`.  `Invariance` adds that a name is only at addresses it was announced
  for, in the trackers, the channels and the list.
* `OneAddressHolds`, if an address that two names may have is the only one of each
  (`NamesUndisputed`).
* `NoGhostsHold`, if also devices share no address (`DevicesApart`) and a device
  advertises one address by mDNS (`OneAdvertised`), with every fault and for devices
  found both ways.  The invariant `GhostInv` says that an entry is backed by a source at
  that address, or that an event which removes it from there is in the queue.
* `SelectedIsListed`, with every fault, if no two identities share an address of
  which one has a second (`IdentitiesUndisputed`).
* `ListIsUpToDate`, if nobody shares an address or a name (`OneOwner`), a device is
  found one way (`OneSource`) and the frontend hears every event behind the list it
  fetched (`Orderly`); lost heartbeats and expired records are covered.  The
  invariant follows a name through all stages: the queue is a chain of events
  (`Chained`), each fits where the one before it leaves the name, the first where
  `agg` has it, and the last leaves it where its source has it.  So `agg` passes on
  the truth: the last event about a name in `events` tells where `agg` has it, and
  of a name without one the list, or the answer to the fetch, shows just that.

The instance of `discovery_peers` satisfies all these hypotheses together.  Known
behaviours tells what the code does without them.

Assumptions on constants: sizes are natural numbers, entries with the same key
have the same size (the key contains the hash), queues are sequences of entries,
limits, capacities and the size of a chunk are positive, addresses and runs are
finite in number, and the values for "nothing" (`Nothing`, `None`, `Silence`) are none
of the values they stand beside.  Every safety property of the passing runs is stated
by a theorem.  Model-checked only: the liveness properties `CancelEnds`,
`EventuallyDelivered`, `StaysListed` and `GoneIsDropped`, because fairness is defined by
`ENABLED`, which the prover does not handle, and what the theorems' hypotheses exclude.

## Known behaviours

What the code does and a reader may not expect, beside the three findings of
`PROJECT.json`:

* A finish that runs while the session is cancelled overwrites Cancelled with
  Completed (`server/routes.rs`, line 604), against the comment at
  `server/state.rs`, line 597.  `CancelIsFinal` in `Receiver` says what the comment
  does; TLC refutes it with one session and the instance `BatchOffers`.
* A resume between the check of `is_paused` and the creation of the `Notified` future
  wakes nobody (`client/sender.rs`, line 969).  `ResumeEnds` in `Sender` is refuted
  with `Preemptive = TRUE`.
* One lost answer can spoil two attempts: a finish that has saved the file cannot be
  repeated.  With one loss `EventuallyDelivered` fails with `TwoAttempts` and holds
  with `ThreeAttempts` (`transfer_live`).
* The cancel of an abandoned session removes by name the `.part` a newer session is
  uploading: `UploadKept` fails with two sessions, a receiver's cancel and aborted
  handlers.
* `handle_transfer_finish` marks a session Completed when the bytes of all files have
  been counted, which may be before the last of them is committed (`server/routes.rs`,
  line 612); so its history record may be written before the trailing files are saved.
* A cancel whose handler is dropped before it sends its event leaves no record in
  the history (`missed` in `ReceiveHistory` counts it as lost).
* Attempts to pair are counted in windows, not in the rolling minute of the comment
  at `server/state.rs`, line 89 (`pairing_minute`).  A minute across two windows sees up
  to twice the limit and no more (`MinuteIsTwoWindows`).
* A user may be told that an answer was given although nobody heard it:
  `respond_transfer_request` sends it after the clock of the handler has run out and
  before the handler drops its receiver (`server/state.rs`, line 468).  `ToldIsHeard` in
  `Consent` says otherwise and TLC refutes it.
* A `.part` that cannot be removed stays, and nobody notices: after a hard link it is a
  second name of the saved file.  With `"stuck"` in `Faults` `NoAliasing` and
  `CancelCleansUp` fail; a retry of the same batch leaves the file as it is
  (`transfer_retry`).
* Pairings that cannot be written or removed, and history records that cannot be stored,
  are not reported: with `"disk"` in `Faults` `FileFollows`, `ForgottenIsGone`,
  `StoredAgrees` and `KeysKept` fail, and `EndedIsRecorded` counts such records among the
  missed ones.  A token is in `recorded_tokens` before its record is stored, so it
  is not tried again.
* A cancel that arrives after the receiver has completed turns Completed into Cancelled:
  `CompletedAgreed` is checked and proved without cancels.
* The count of unconfirmed attempts starts again before the PIN is replaced
  (`server/state.rs`, lines 294 and 301).  A handler that is dropped at that await, by
  a client that hangs up while another handler holds `device_info`, leaves the old
  PIN for another round.  `GuessesBounded` in `Pairing` is refuted with `"unrotated"`
  in `Faults`, one attempt a minute, a rotation after two, six runs and 1 for the
  other limits.
* If the process is killed while pairings are being turned off or forgotten, the host
  may come back with the file it had before: the case `KeysKept` names last.

* mDNS takes the first of the addresses of a device in the order of a set
  (`discovery/mdns.rs`, line 104), and the task overwrites the address it had without
  reporting its loss (line 120).  With two advertised addresses the aggregate tracker
  may keep one that nobody will drop: `NoGhosts` fails without `OneAdvertised`.
* A tracker that hears a new name from a known address overwrites the entry and does
  not look for another address of that name (`record_seen_with_source`).  When an
  address changes hands while the new name has a second one, the name is at two
  addresses: `OneAddressEach` fails without `NamesUndisputed`.
* Two manual peers whose probes learn the same name are one entry in the list, which
  moves between their addresses: `SelectedListed` and `ListAgrees` fail without
  `IdentitiesUndisputed` and `OneOwner`.
* A device that is found by mDNS at one address and by heartbeats at another leaves the
  list when either source loses it, but not the aggregate tracker: `ListAgrees` fails
  without `OneSource`.

## Not modelled

* SPAKE2, X25519 and the encryption of chunks: taken as ideal, see `Pairing` and
  `PairedDevices`.
* Adapter ranking, the subnet sweep, metrics, the throttle, tray and notifications:
  they keep no state that two actors share, or only start what is modelled.
* The frontend's send view: it shows events.  A cancel before `start_transfer` has
  returned its token leaves the view and the transfer apart (`transfer.js`, line 270).
* Settings other than remember and encryption: a value each, nobody keeps a copy.
* A finish request without a hash, and the sixth collision in a row of a free name
  (`server/routes.rs`, lines 543 and 562).
* Connecting by address or by QR code (`commands.rs`, line 340), whose answer may
  carry a device id; `AddManual` is the peer without one.
* Pairing by PIN as a part of `start_transfer` (`commands.rs`, line 506) is a `Connect`
  before `SendStart`, without the step that joins them.
* A `history.json` that cannot be read is taken as empty by the code; it is replaced as
  a whole, so a kill does not make one.
* The restart of the mDNS daemon when the network is changed, and
  `restart_discovery`, which nothing calls.
* Names and paths of received files: arithmetic on strings without state.
