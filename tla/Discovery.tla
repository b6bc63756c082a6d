----------------------------- MODULE Discovery -----------------------------
(***************************************************************************)
(* Peer discovery, from the announcements of other devices to the list on  *)
(* screen (discovery/*.rs, the bridge in lib.rs, peers.js).                *)
(*                                                                         *)
(*   heartbeats --> udp --+                                                *)
(*                        +--> queue --> agg --> events --> list           *)
(*   mDNS ---> resolved --+             manual                             *)
(*                                                                         *)
(* Two PeerTrackers, "udp" and "agg", apply the same rule to the same      *)
(* announcements, but agg hears only of changes, and the list only of what *)
(* agg passes on.  Each stage expires or drops peers on its own, so the    *)
(* three can drift apart.                                                  *)
(*                                                                         *)
(* A peer is a name at an address (ip:port).  A device announces its own   *)
(* name and id; a peer added by hand is called after its ip and has no id. *)
(* One tick is the time-to-live of a heartbeat (15 s).  The list is a set: *)
(* where the code takes the first match of an array, any match is taken.   *)
(***************************************************************************)
EXTENDS Naturals, Sequences, FiniteSets, SequencesExt

CONSTANTS
  Device,      \* other devices, under the names they announce
  Addr,        \* addresses
  ManualName,  \* the name "Manual-<ip>" of each address
  ProbedName,  \* the name a probe of the address learns
  Rank,        \* ip_priority of each address, 0 is best
  Sources,     \* the addresses each device's heartbeats come from
  Advertised,  \* the addresses each device advertises by mDNS
  ManualAddr,  \* addresses the user may add by hand
  ManualTTL,   \* time-to-live of a manual peer, in ticks
  QueueCap,    \* capacity of the internal channel (128)
  BacklogCap,  \* capacity of the broadcast channel (128)
  Nothing,     \* no entry
  Faults       \* what may go wrong, a subset of AllFaults

AllFaults == {
  "mute",     \* the heartbeats of a tick are all lost
  "expire",   \* an mDNS record goes although the device is on
  "lag",      \* the bridge falls behind and loses the oldest events
  "early",    \* events arrive between the first fetch and the subscription
  "overtake"  \* an event overtakes the answer to a fetch
}

Name == Device \cup {ManualName[a] : a \in Addr} \cup {ProbedName[a] : a \in Addr}

ASSUME AddrAssumption == IsFiniteSet(Addr)
ASSUME RankAssumption == Rank \in [Addr -> Nat]
ASSUME SourcesAssumption == Sources \in [Device -> SUBSET Addr]
ASSUME AdvertisedAssumption == Advertised \in [Device -> SUBSET Addr]
ASSUME ManualAssumption == ManualAddr \subseteq Addr
ASSUME TTLAssumption == ManualTTL \in Nat \ {0}
ASSUME CapAssumption == QueueCap \in Nat \ {0} /\ BacklogCap \in Nat \ {0}
ASSUME FaultsAssumption == Faults \subseteq AllFaults

VARIABLES
  on,        \* devices that announce themselves
  heard,     \* devices of which a heartbeat came since the last tick
  resolved,  \* resolved_peers of the mDNS task
  udp,       \* the tracker of UdpDiscovery
  queue,     \* the internal channel
  agg,       \* the aggregate tracker
  events,    \* the broadcast channel, as the bridge sees it
  phase,     \* the frontend: "boot", "fetched", "live"
  fetched,   \* the answer of get_discovered_peers on its way
  answer,    \* the answer of add_manual_peer on its way
  list,      \* discoveredPeers
  selected   \* selectedPeer

trackerVars == <<resolved, udp, queue, agg>>
viewVars == <<list, selected>>
deviceVars == <<on, heard>>
vars == <<deviceVars, trackerVars, events, phase, fetched, answer, viewVars>>

UdpTTL == 1
Entry == [name : Name, source : {"udp", "manual"}, age : 0..(ManualTTL + UdpTTL)]
Event == [kind : {"discovered", "updated", "lost"}, name : Name, addr : Addr]
Peer == [id : Device \cup {Nothing}, name : Name, addr : Addr]

ASSUME NothingAssumption == Nothing \notin Name \cup Addr \cup Entry \cup Peer

(***************************************************************************)
(* PeerTracker                                                             *)
(***************************************************************************)
Known(tracker) == {a \in Addr : tracker[a] # Nothing}
Named(tracker, n) == {a \in Known(tracker) : tracker[a].name = n}

Without(tracker, gone) == [a \in Addr |-> IF a \in gone THEN Nothing ELSE tracker[a]]

(* Faulty variants: addresses of one name are not compared, or the worse    *)
(* one does not keep the entry of the better one alive.                    *)
RecordedByAddress(tracker, n, a, source) ==
  {[tracker |-> [tracker EXCEPT ![a] = [name |-> n, source |-> source, age |-> 0]],
    says |-> IF tracker[a] = Nothing
               THEN <<[kind |-> "discovered", name |-> n, addr |-> a]>> ELSE <<>>]}

RecordedBetterOnly(tracker, n, a, source) ==
  LET entry == [name |-> n, source |-> source, age |-> 0]
      olds == Named(tracker, n) \ {a}
      worse == \E old \in olds : Rank[a] > Rank[old]
  IN {IF worse THEN [tracker |-> tracker, says |-> <<>>]
      ELSE [tracker |-> [Without(tracker, olds) EXCEPT ![a] = entry],
            says |-> IF tracker[a] # Nothing THEN <<>>
                     ELSE <<[kind |-> IF olds = {} THEN "discovered" ELSE "updated",
                             name |-> n, addr |-> a]>>]}

(* What record_seen_with_source may make of an announcement: the same      *)
(* address is refreshed; of two addresses of one name the better one stays,*)
(* and the new one if they are equal.                                      *)
Recorded(tracker, n, a, source) ==
  LET entry == [name |-> n, source |-> source, age |-> 0]
      said(kind) == <<[kind |-> kind, name |-> n, addr |-> a]>>
      set == [tracker EXCEPT ![a] = entry]
      olds == Named(tracker, n)
  IN IF tracker[a] # Nothing
       THEN {[tracker |-> set,
              says |-> IF tracker[a].name = n THEN <<>> ELSE said("updated")]}
     ELSE IF olds = {}
       THEN {[tracker |-> set, says |-> said("discovered")]}
     ELSE {IF Rank[a] <= Rank[old]
             THEN [tracker |-> [set EXCEPT ![old] = Nothing], says |-> said("updated")]
             ELSE [tracker |-> [tracker EXCEPT ![old].age = 0], says |-> <<>>]
           : old \in olds}

UdpExpired == {a \in Known(udp) : udp[a].age > UdpTTL}
ManualExpired == {a \in Known(agg) : agg[a].source = "manual" /\ agg[a].age > ManualTTL}

(* Expired entries leave together, in the order of a hash map.             *)
LostEvents(tracker, gone) ==
  {[i \in DOMAIN order |-> [kind |-> "lost", name |-> tracker[order[i]].name,
                            addr |-> order[i]]] : order \in SetToSeqs(gone)}

(***************************************************************************)
(* Channels: the internal one makes the sender wait, the broadcast one     *)
(* drops the oldest events of a receiver that lags.                        *)
(***************************************************************************)
(* Faulty variant: a sender never waits.                                    *)
UnboundedSend(es) == queue' = queue \o es

Send(es) == Len(queue) + Len(es) <= QueueCap /\ queue' = queue \o es

Broadcast(es) ==
  LET all == events \o es
  IN IF Len(all) <= BacklogCap
       THEN events' = all
       ELSE /\ "lag" \in Faults
            /\ events' = SubSeq(all, Len(all) - BacklogCap + 1, Len(all))

(***************************************************************************)
(* Sources                                                                 *)
(***************************************************************************)
Heartbeat(d, a) ==
  /\ d \in on /\ a \in Sources[d]
  /\ \E r \in Recorded(udp, d, a, "udp") : udp' = r.tracker /\ Send(r.says)
  /\ heard' = heard \cup {d}
  /\ UNCHANGED <<on, resolved, agg, events, phase, fetched, answer, viewVars>>

(* Faulty variant: expired entries leave without a report.                 *)
PruneSilently ==
  /\ UdpExpired # {}
  /\ udp' = Without(udp, UdpExpired)
  /\ UNCHANGED <<deviceVars, resolved, queue, agg, events, phase, fetched, answer, viewVars>>

UdpPrune ==
  /\ UdpExpired # {}
  /\ udp' = Without(udp, UdpExpired)
  /\ \E es \in LostEvents(udp, UdpExpired) : Send(es)
  /\ UNCHANGED <<deviceVars, resolved, agg, events, phase, fetched, answer, viewVars>>

ServiceResolved(d, a) ==
  /\ d \in on /\ a \in Advertised[d]
  /\ resolved' = [resolved EXCEPT ![d] = a]
  /\ Send(<<[kind |-> "discovered", name |-> d, addr |-> a]>>)
  /\ UNCHANGED <<deviceVars, udp, agg, events, phase, fetched, answer, viewVars>>

ServiceRemoved(d) ==
  /\ resolved[d] # Nothing
  /\ d \in on => "expire" \in Faults
  /\ resolved' = [resolved EXCEPT ![d] = Nothing]
  /\ Send(<<[kind |-> "lost", name |-> d, addr |-> resolved[d]]>>)
  /\ UNCHANGED <<deviceVars, udp, agg, events, phase, fetched, answer, viewVars>>

(***************************************************************************)
(* The aggregate tracker: the task that drains the internal channel, the   *)
(* reaper of manual peers, and add_manual_peer.  What comes out of the     *)
(* channel is recorded with the source "udp", also what mDNS found.        *)
(***************************************************************************)
(* Faulty variant: a loss is passed on without dropping the entry.         *)
RelayLost ==
  /\ queue # <<>>
  /\ queue' = Tail(queue)
  /\ LET e == Head(queue)
     IN IF e.kind = "lost"
          THEN agg' = agg /\ Broadcast(<<e>>)
          ELSE \E r \in Recorded(agg, e.name, e.addr, "udp") :
                 agg' = r.tracker /\ Broadcast(r.says)
  /\ UNCHANGED <<deviceVars, resolved, udp, phase, fetched, answer, viewVars>>

Aggregate ==
  /\ queue # <<>>
  /\ queue' = Tail(queue)
  /\ LET e == Head(queue)
     IN IF e.kind = "lost"
          THEN agg' = [agg EXCEPT ![e.addr] = Nothing] /\ Broadcast(<<e>>)
          ELSE \E r \in Recorded(agg, e.name, e.addr, "udp") :
                 /\ agg' = r.tracker
                 /\ Broadcast(IF r.says = <<>> /\ e.kind = "updated" THEN <<e>> ELSE r.says)
  /\ UNCHANGED <<deviceVars, resolved, udp, phase, fetched, answer, viewVars>>

Reap ==
  /\ ManualExpired # {}
  /\ agg' = Without(agg, ManualExpired)
  /\ \E es \in LostEvents(agg, ManualExpired) : Broadcast(es)
  /\ UNCHANGED <<deviceVars, resolved, udp, queue, phase, fetched, answer, viewVars>>

(* The tracker is told the name made of the ip, under its lock.            *)
RecordManual(a) ==
  \E r \in Recorded(agg, ManualName[a], a, "manual") :
    agg' = r.tracker /\ Broadcast(r.says)

(* The command probes the address first and answers with the name it       *)
(* learns there.  The answer of connect_by_address may have an id besides, *)
(* which the tracker is not told either and which is left out.             *)
AddManual(a, n) ==
  /\ answer = Nothing /\ phase = "live"
  /\ RecordManual(a)
  /\ answer' = [id |-> Nothing, name |-> n, addr |-> a]
  /\ UNCHANGED <<deviceVars, resolved, udp, queue, phase, fetched, viewVars>>

(***************************************************************************)
(* The list on screen                                                      *)
(***************************************************************************)
PeerAt(n, a) == [id |-> IF n \in Device THEN n ELSE Nothing, name |-> n, addr |-> a]
Identity(p) == IF p.id # Nothing THEN <<"id", p.id>> ELSE <<"name", p.name>>
Matches(p, q) == Identity(p) = Identity(q) \/ p.addr = q.addr

(* {...old, ...new}: a peer without an id leaves the id of the old entry.  *)
Merged(old, new) == [new EXCEPT !.id = IF @ = Nothing THEN old.id ELSE @]

Upsert(p) ==
  LET same == {q \in list : Matches(q, p)}
      put(entry) ==
        selected' = IF selected # Nothing /\ Identity(selected) = Identity(p)
                      THEN entry ELSE selected
  IN \/ same = {} /\ list' = list \cup {p} /\ put(p)
     \/ \E q \in same :
          list' = (list \ {q}) \cup {Merged(q, p)} /\ put(Merged(q, p))

(* Faulty variants: only the identity counts, or the selection stays.      *)
RemoveByIdentity(p) ==
  /\ list' = {q \in list : Identity(q) # Identity(p)}
  /\ selected' = IF selected # Nothing /\ Identity(selected) = Identity(p)
                   THEN Nothing ELSE selected

RemoveKeepsSelection(p) ==
  list' = {q \in list : ~Matches(q, p)} /\ UNCHANGED selected

RemovePeer(p) ==
  /\ list' = {q \in list : ~Matches(q, p)}
  /\ selected' = IF selected # Nothing /\ Matches(selected, p) THEN Nothing ELSE selected

(* One entry is kept for each identity.                                    *)
SetPeerList(peers) ==
  \E kept \in SUBSET peers :
    /\ \A p \in peers : Cardinality({q \in kept : Identity(q) = Identity(p)}) = 1
    /\ list' = kept
    /\ LET same == {q \in kept : selected # Nothing /\ Identity(q) = Identity(selected)}
       IN IF same = {} THEN selected' = Nothing ELSE selected' \in same

(* The bridge emits the next event; nobody listens before "live".          *)
Forward ==
  /\ events # <<>>
  /\ \/ "early" \in Faults
     \/ phase = "boot" /\ fetched = Nothing
     \/ phase = "live" /\ (fetched = Nothing \/ "overtake" \in Faults)
  /\ events' = Tail(events)
  /\ LET p == PeerAt(Head(events).name, Head(events).addr)
     IN IF phase # "live" THEN UNCHANGED viewVars
        ELSE IF Head(events).kind = "lost" THEN RemovePeer(p) ELSE Upsert(p)
  /\ UNCHANGED <<deviceVars, trackerVars, phase, fetched, answer>>

(* get_discovered_peers at start-up and behind the refresh button.         *)
Fetch ==
  /\ phase # "fetched" /\ fetched = Nothing
  /\ fetched' = {PeerAt(agg[a].name, a) : a \in Known(agg)}
  /\ UNCHANGED <<deviceVars, trackerVars, events, phase, answer, viewVars>>

Fetched ==
  /\ fetched # Nothing
  /\ SetPeerList(fetched)
  /\ fetched' = Nothing
  /\ phase' = IF phase = "boot" THEN "fetched" ELSE phase
  /\ UNCHANGED <<deviceVars, trackerVars, events, answer>>

Subscribe ==
  /\ phase = "fetched"
  /\ phase' = "live"
  /\ UNCHANGED <<deviceVars, trackerVars, events, fetched, answer, viewVars>>

(* The command emits peer-found and answers: the peer is put in the list.  *)
ManualAnswered ==
  /\ answer # Nothing
  /\ Upsert(answer)
  /\ answer' = Nothing
  /\ UNCHANGED <<deviceVars, trackerVars, events, phase, fetched>>

Select(p) ==
  /\ p \in list
  /\ selected' = IF selected # Nothing /\ Identity(selected) = Identity(p)
                   THEN Nothing ELSE p
  /\ UNCHANGED <<deviceVars, trackerVars, events, phase, fetched, answer, list>>

(***************************************************************************)
(* Devices and time                                                        *)
(***************************************************************************)
Join(d) ==
  /\ d \notin on /\ on' = on \cup {d}
  /\ UNCHANGED <<heard, trackerVars, events, phase, fetched, answer, viewVars>>

Leave(d) ==
  /\ d \in on /\ on' = on \ {d}
  /\ UNCHANGED <<heard, trackerVars, events, phase, fetched, answer, viewVars>>

(* Entries grow older, up to the age at which they are expired.  The age   *)
(* of an entry with the source "udp" is not read in agg.  A command is     *)
(* answered within a tick.                                                 *)
Tick ==
  /\ answer = Nothing
  /\ "mute" \in Faults \/ \A d \in on : Sources[d] = {} \/ d \in heard
  /\ heard' = {}
  /\ udp' = [a \in Addr |-> IF udp[a] # Nothing /\ udp[a].age <= UdpTTL
                              THEN [udp[a] EXCEPT !.age = @ + 1] ELSE udp[a]]
  /\ agg' = [a \in Addr |-> IF agg[a] # Nothing /\ agg[a].source = "manual"
                               /\ agg[a].age <= ManualTTL
                              THEN [agg[a] EXCEPT !.age = @ + 1] ELSE agg[a]]
  /\ UNCHANGED <<on, resolved, queue, events, phase, fetched, answer, viewVars>>

Init ==
  /\ on = {} /\ heard = {}
  /\ resolved = [d \in Device |-> Nothing]
  /\ udp = [a \in Addr |-> Nothing] /\ agg = [a \in Addr |-> Nothing]
  /\ queue = <<>> /\ events = <<>>
  /\ phase = "boot" /\ fetched = Nothing /\ answer = Nothing
  /\ list = {} /\ selected = Nothing

Next ==
  \/ \E d \in Device : Join(d) \/ Leave(d) \/ ServiceRemoved(d)
  \/ \E d \in Device, a \in Addr : Heartbeat(d, a) \/ ServiceResolved(d, a)
  \/ UdpPrune \/ Aggregate \/ Reap \/ Tick
  \/ \E a \in ManualAddr : AddManual(a, ManualName[a]) \/ AddManual(a, ProbedName[a])
  \/ Forward \/ Fetch \/ Fetched \/ Subscribe \/ ManualAnswered
  \/ \E p \in list : Select(p)

Spec == Init /\ [][Next]_vars

(***************************************************************************)
(* Properties                                                              *)
(***************************************************************************)
TypeOK ==
  /\ on \subseteq Device /\ heard \subseteq Device
  /\ resolved \in [Device -> Addr \cup {Nothing}]
  /\ udp \in [Addr -> Entry \cup {Nothing}] /\ agg \in [Addr -> Entry \cup {Nothing}]
  /\ queue \in Seq(Event) /\ Len(queue) <= QueueCap
  /\ events \in Seq(Event) /\ Len(events) <= BacklogCap
  /\ phase \in {"boot", "fetched", "live"}
  /\ fetched = Nothing \/ fetched \subseteq Peer
  /\ answer \in Peer \cup {Nothing}
  /\ list \subseteq Peer /\ selected \in Peer \cup {Nothing}

(* A device that is reached over several addresses is listed once: neither *)
(* tracker holds one name at two addresses (record_seen_with_source, "2.   *)
(* Match on device_name across different IP addresses").                   *)
OneAddressEach ==
  \A n \in Name : Cardinality(Named(udp, n)) <= 1 /\ Cardinality(Named(agg, n)) <= 1

(* Whatever the aggregate tracker holds for good, because its reaper only  *)
(* drops manual peers, is known to the source that will report its loss,   *)
(* or the report is on its way.                                            *)
NoGhosts ==
  \A a \in Known(agg) : agg[a].source = "udp" =>
    LET n == agg[a].name
    IN \/ udp[a] # Nothing /\ udp[a].name = n
       \/ n \in Device /\ resolved[n] = a
       \/ \E i \in DOMAIN queue : queue[i].name = n

(* When everything on its way has arrived, the list on screen shows the    *)
(* addresses of the aggregate tracker, each once, and under the id of the  *)
(* device that announces it.                                               *)
ListAgrees ==
  phase = "live" /\ queue = <<>> /\ events = <<>> /\ answer = Nothing /\ fetched = Nothing =>
    /\ {p.addr : p \in list} = Known(agg)
    /\ \A p, q \in list : p.addr = q.addr => p = q
    /\ \A p \in list : agg[p.addr].name \in Device => p.id = agg[p.addr].name

(* Files are sent to the address of the selected peer: it is one the list  *)
(* shows, although entries are merged, moved and replaced under it.        *)
SelectedListed == selected # Nothing => \E p \in list : p.addr = selected.addr

(* Tasks run, commands are answered, and time passes while there is        *)
(* anything that a tick is about: a device that sends heartbeats, or an    *)
(* entry that grows older.  So every tick sees the heartbeats of the       *)
(* devices that are on.  Other senders may take the room in a channel      *)
(* again and again, but not for ever, and mDNS records are repeated.       *)
(* Whether a device stays is its own choice.                               *)
Timed ==
  \/ heard # {} \/ \E d \in on : Sources[d] # {}
  \/ \E a \in Known(udp) : udp[a].age <= UdpTTL
  \/ \E a \in Known(agg) : agg[a].source = "manual" /\ agg[a].age <= ManualTTL

MdnsTask == \E d \in Device :
  \/ d \notin on /\ ServiceRemoved(d)
  \/ \E a \in Addr : ServiceResolved(d, a)

FairDiscovery ==
  /\ Spec /\ ([]<>~Timed \/ []<><<Tick>>_vars)
  /\ SF_vars(MdnsTask) /\ SF_vars(UdpPrune) /\ SF_vars(Aggregate) /\ SF_vars(Forward)
  /\ WF_vars(Subscribe \/ Fetched \/ (phase = "boot" /\ Fetch)) /\ WF_vars(ManualAnswered)

Listed(d) == \E p \in list : p.id = d

(* A device that stays on is listed in the end, and stays listed.          *)
StaysListed == \A d \in Device : <>[](d \in on) => <>[]Listed(d)

(* A device that is gone for good leaves the list for good.                *)
GoneIsDropped == \A d \in Device : <>[](d \notin on) => <>[]~Listed(d)
=============================================================================
