-------------------------- MODULE DiscoveryProofs --------------------------
(***************************************************************************)
(* Proofs about Discovery: types, one address for each name in a tracker,  *)
(* no entry that nobody will drop, a selection that is listed, and a list  *)
(* that agrees with the aggregate tracker.                                 *)
(***************************************************************************)
EXTENDS Discovery, FiniteSetTheorems, SequenceTheorems, TLAPS

Tracker == [Addr -> Entry \cup {Nothing}]
Said(kind, n, a) == [kind |-> kind, name |-> n, addr |-> a]

(***************************************************************************)
(* What a tracker makes of an announcement                                 *)
(***************************************************************************)
(* The four ways of an announcement: a known address is refreshed, a new   *)
(* name is added, a better address moves the name, a worse one keeps it.   *)
Put(tracker, n, a, source) ==
  [tracker EXCEPT ![a] = [name |-> n, source |-> source, age |-> 0]]

Refreshes(tracker, n, a, source, r) ==
  /\ tracker[a] # Nothing
  /\ r.tracker = Put(tracker, n, a, source)
  /\ r.says = IF tracker[a].name = n THEN <<>> ELSE <<Said("updated", n, a)>>

Adds(tracker, n, a, source, r) ==
  /\ tracker[a] = Nothing /\ Named(tracker, n) = {}
  /\ r.tracker = Put(tracker, n, a, source)
  /\ r.says = <<Said("discovered", n, a)>>

Moves(tracker, n, a, source, old, r) ==
  /\ tracker[a] = Nothing /\ Rank[a] <= Rank[old]
  /\ r.tracker = [Put(tracker, n, a, source) EXCEPT ![old] = Nothing]
  /\ r.says = <<Said("updated", n, a)>>

Keeps(tracker, a, old, r) ==
  /\ tracker[a] = Nothing /\ ~(Rank[a] <= Rank[old])
  /\ r.tracker = [tracker EXCEPT ![old].age = 0]
  /\ r.says = <<>>

LEMMA RecordedCases ==
  ASSUME NEW tracker \in Tracker, NEW n, NEW a \in Addr, NEW source,
         NEW r \in Recorded(tracker, n, a, source)
  PROVE  \/ Refreshes(tracker, n, a, source, r) \/ Adds(tracker, n, a, source, r)
         \/ \E old \in Named(tracker, n) :
              Moves(tracker, n, a, source, old, r) \/ Keeps(tracker, a, old, r)
<1>1. CASE tracker[a] # Nothing
  BY <1>1 DEF Recorded, Said, Refreshes, Put
<1>2. CASE tracker[a] = Nothing /\ Named(tracker, n) = {}
  BY <1>2 DEF Recorded, Said, Adds, Put
<1>3. CASE tracker[a] = Nothing /\ Named(tracker, n) # {}
  <2>1. PICK old \in Named(tracker, n) :
          r = IF Rank[a] <= Rank[old]
                THEN [tracker |-> [Put(tracker, n, a, source) EXCEPT ![old] = Nothing],
                      says |-> <<Said("updated", n, a)>>]
                ELSE [tracker |-> [tracker EXCEPT ![old].age = 0], says |-> <<>>]
    BY <1>3 DEF Recorded, Said, Put
  <2>. QED BY <1>3, <2>1 DEF Moves, Keeps
<1>. QED BY <1>1, <1>2, <1>3

(* A refreshed entry keeps its name and its source.                        *)
LEMMA KeptEntry ==
  ASSUME NEW tracker \in Tracker, NEW n, NEW old \in Named(tracker, n)
  PROVE  LET kept == [tracker EXCEPT ![old].age = 0]
         IN /\ old \in Addr /\ kept \in Tracker
            /\ \A b \in Addr : b # old => kept[b] = tracker[b]
            /\ kept[old] # Nothing /\ kept[old].name = tracker[old].name
            /\ kept[old].source = tracker[old].source
<1>1. old \in Addr /\ tracker[old] \in Entry
  BY DEF Named, Known, Tracker
<1>2. /\ [tracker[old] EXCEPT !.age = 0] \in Entry
      /\ [tracker[old] EXCEPT !.age = 0].name = tracker[old].name
      /\ [tracker[old] EXCEPT !.age = 0].source = tracker[old].source
  BY <1>1, TTLAssumption DEF Entry, UdpTTL
<1>. DEFINE kept == [tracker EXCEPT ![old].age = 0]
<1>3. /\ kept \in [Addr -> Entry \cup {Nothing}]
      /\ \A b \in Addr : b # old => kept[b] = tracker[b]
      /\ kept[old] = [tracker[old] EXCEPT !.age = 0]
  BY <1>1, <1>2 DEF Tracker
<1>. QED BY <1>1, <1>2, <1>3, NothingAssumption DEF Tracker

(* What is said is about the announced name and address.                   *)
LEMMA RecordedSays ==
  ASSUME NEW tracker \in Tracker, NEW n \in Name, NEW a \in Addr,
         NEW source \in {"udp", "manual"}, NEW r \in Recorded(tracker, n, a, source)
  PROVE  /\ r.says \in Seq(Event) /\ Len(r.says) <= 1
         /\ \A i \in DOMAIN r.says :
              r.says[i].name = n /\ r.says[i].addr = a /\ r.says[i].kind # "lost"
<1>1. /\ \A kind \in {"discovered", "updated"} : Said(kind, n, a) \in Event
      /\ \A kind \in {"discovered", "updated"} :
           LET s == <<Said(kind, n, a)>>
           IN /\ s \in Seq(Event) /\ Len(s) = 1 /\ DOMAIN s = {1}
              /\ s[1].name = n /\ s[1].addr = a /\ s[1].kind # "lost"
  BY DEF Said, Event
<1>2. <<>> \in Seq(Event) /\ Len(<<>>) = 0 /\ DOMAIN <<>> = {}
  OBVIOUS
<1>3. \/ r.says = <<>>
      \/ r.says = <<Said("discovered", n, a)>> \/ r.says = <<Said("updated", n, a)>>
  <2>1. \/ Refreshes(tracker, n, a, source, r) \/ Adds(tracker, n, a, source, r)
        \/ \E old \in Named(tracker, n) :
             Moves(tracker, n, a, source, old, r) \/ Keeps(tracker, a, old, r)
    BY RecordedCases
  <2>. QED BY <2>1 DEF Refreshes, Adds, Moves, Keeps
<1>4. CASE r.says = <<>>
  BY <1>2, <1>4
<1>5. ASSUME NEW kind \in {"discovered", "updated"}, r.says = <<Said(kind, n, a)>>
      PROVE  /\ r.says \in Seq(Event) /\ Len(r.says) <= 1
             /\ \A i \in DOMAIN r.says :
                  r.says[i].name = n /\ r.says[i].addr = a /\ r.says[i].kind # "lost"
  BY <1>1, <1>5
<1>. QED BY <1>3, <1>4, <1>5

(* Entry by entry: the announced one is put, others stay or leave.         *)
LEMMA RecordedEntries ==
  ASSUME NEW tracker \in Tracker, NEW n \in Name, NEW a \in Addr,
         NEW source \in {"udp", "manual"}, NEW r \in Recorded(tracker, n, a, source)
  PROVE  /\ r.tracker \in Tracker
         /\ \A b \in Known(r.tracker) :
              \/ b = a /\ r.tracker[b].name = n /\ r.tracker[b].source = source
              \/ /\ b \in Known(tracker)
                 /\ r.tracker[b].name = tracker[b].name
                 /\ r.tracker[b].source = tracker[b].source
<1>. DEFINE entry == [name |-> n, source |-> source, age |-> 0]
<1>1. entry \in Entry /\ entry.name = n /\ entry.source = source
  BY TTLAssumption DEF Entry, UdpTTL
<1>2. CASE r.tracker = Put(tracker, n, a, source)
  <2>1. /\ r.tracker \in Tracker /\ r.tracker[a] = entry
        /\ \A b \in Addr : b # a => r.tracker[b] = tracker[b]
    BY <1>1, <1>2 DEF Tracker, Put
  <2>. QED BY <1>1, <2>1 DEF Known
<1>3. ASSUME NEW old \in Named(tracker, n), Moves(tracker, n, a, source, old, r)
      PROVE  /\ r.tracker \in Tracker /\ (r.tracker[a] = entry \/ r.tracker[a] = Nothing)
             /\ \A b \in Addr : b # a => r.tracker[b] \in {tracker[b], Nothing}
  BY <1>1, <1>3 DEF Tracker, Put, Moves
<1>4. ASSUME NEW old \in Named(tracker, n), Moves(tracker, n, a, source, old, r)
      PROVE  /\ r.tracker \in Tracker
             /\ \A b \in Known(r.tracker) :
                  \/ b = a /\ r.tracker[b].name = n /\ r.tracker[b].source = source
                  \/ /\ b \in Known(tracker)
                     /\ r.tracker[b].name = tracker[b].name
                     /\ r.tracker[b].source = tracker[b].source
  BY <1>1, <1>3, <1>4 DEF Known
<1>5. ASSUME NEW old \in Named(tracker, n), Keeps(tracker, a, old, r)
      PROVE  /\ r.tracker \in Tracker
             /\ \A b \in Known(r.tracker) :
                  /\ b \in Known(tracker)
                  /\ r.tracker[b].name = tracker[b].name
                  /\ r.tracker[b].source = tracker[b].source
  BY <1>5, KeptEntry DEF Keeps, Known, Named
<1>. QED BY <1>2, <1>4, <1>5, RecordedCases DEF Refreshes, Adds

(* What a pruned tracker says: one loss for each entry that left.          *)
LEMMA LostSaid ==
  ASSUME NEW tracker \in Tracker, NEW gone \in SUBSET Known(tracker),
         NEW es \in LostEvents(tracker, gone)
  PROVE  /\ es \in Seq(Event)
         /\ \A i \in DOMAIN es : /\ es[i].kind = "lost" /\ es[i].addr \in gone
                                 /\ es[i].name = tracker[es[i].addr].name
         /\ \A b \in gone : \E i \in DOMAIN es : es[i].addr = b
         /\ \A i, j \in DOMAIN es : es[i].addr = es[j].addr => i = j
<1>1. IsFiniteSet(gone) /\ gone \subseteq Addr
  BY AddrAssumption, FS_Subset DEF Known
<1>. DEFINE n == Cardinality(gone)
<1>2. n \in Nat
  BY <1>1, FS_CardinalityType
<1>3. PICK order \in SetToSeqs(gone) :
        es = [i \in DOMAIN order |-> [kind |-> "lost", name |-> tracker[order[i]].name,
                                      addr |-> order[i]]]
  BY DEF LostEvents
<1>4. order \in [1..n -> gone] /\ \A i, j \in 1..n : i # j => order[i] # order[j]
  BY DEF SetToSeqs
<1>5. /\ DOMAIN es = 1..n
      /\ \A i \in 1..n : es[i] = [kind |-> "lost", name |-> tracker[order[i]].name,
                                  addr |-> order[i]]
  BY <1>3, <1>4
<1>6. \A i \in 1..n : order[i] \in gone /\ es[i] \in Event
  <2>1. \A b \in gone : tracker[b] \in Entry
    BY DEF Tracker, Known
  <2>. QED BY <1>1, <1>4, <1>5, <2>1 DEF Event, Entry
<1>7. es \in Seq(Event)
  <2>1. es = [i \in 1..n |-> es[i]]
    BY <1>3, <1>4
  <2>. QED BY <1>2, <1>6, <2>1
<1>8. \A b \in gone : \E i \in 1..n : order[i] = b
  <2>1. order \in Injection(1..n, gone)
    BY <1>4 DEF Injection, IsInjective
  <2>2. Cardinality(1..n) = n /\ IsFiniteSet(1..n)
    BY <1>2, FS_Interval
  <2>3. order \in Surjection(1..n, gone)
    BY <1>1, <2>1, <2>2, FS_Injection
  <2>. QED BY <2>3 DEF Surjection
<1>9. \A i, j \in DOMAIN es : es[i].addr = es[j].addr => i = j
  BY <1>4, <1>5
<1>. QED BY <1>5, <1>6, <1>7, <1>8, <1>9

(***************************************************************************)
(* Types                                                                   *)
(***************************************************************************)
LEMMA QueueTyped ==
  ASSUME queue \in Seq(Event), NEW es \in Seq(Event), Send(es)
  PROVE  queue' \in Seq(Event) /\ Len(queue') <= QueueCap
BY ConcatProperties, LenProperties, CapAssumption DEF Send

LEMMA EventsTyped ==
  ASSUME events \in Seq(Event), NEW es \in Seq(Event), Broadcast(es)
  PROVE  events' \in Seq(Event) /\ Len(events') <= BacklogCap
<1>. DEFINE all == events \o es
<1>1. all \in Seq(Event) /\ Len(all) \in Nat
  BY ConcatProperties, LenProperties
<1>2. CASE Len(all) <= BacklogCap
  BY <1>1, <1>2 DEF Broadcast
<1>3. CASE ~(Len(all) <= BacklogCap)
  <2>1. events' = SubSeq(all, Len(all) - BacklogCap + 1, Len(all))
    BY <1>3 DEF Broadcast
  <2>2. Len(all) - BacklogCap + 1 \in 1..Len(all)
    BY <1>1, <1>3, CapAssumption
  <2>3. \A i \in (Len(all) - BacklogCap + 1)..Len(all) : all[i] \in Event
    BY <1>1, <2>2, ElementOfSeq
  <2>. QED BY <1>1, <2>1, <2>2, <2>3, SubSeqProperties, CapAssumption
<1>. QED BY <1>2, <1>3

LEMMA TailTyped ==
  ASSUME NEW s \in Seq(Event), s # <<>>
  PROVE  /\ Head(s) \in Event /\ Head(s) = s[1] /\ 1 \in DOMAIN s
         /\ Tail(s) \in Seq(Event) /\ Len(Tail(s)) = Len(s) - 1
         /\ \A i \in DOMAIN Tail(s) : i + 1 \in DOMAIN s /\ Tail(s)[i] = s[i + 1]
BY HeadTailProperties, LenProperties, EmptySeq

(* The two trackers and the channels between them.                         *)
TrackersTyped ==
  /\ resolved \in [Device -> Addr \cup {Nothing}]
  /\ udp \in Tracker /\ agg \in Tracker
  /\ queue \in Seq(Event) /\ Len(queue) <= QueueCap
  /\ events \in Seq(Event) /\ Len(events) <= BacklogCap

(* The frontend and what it is told.                                       *)
ViewTyped ==
  /\ on \subseteq Device /\ heard \subseteq Device
  /\ phase \in {"boot", "fetched", "live"}
  /\ fetched = Nothing \/ fetched \subseteq Peer
  /\ answer \in Peer \cup {Nothing}
  /\ list \subseteq Peer /\ selected \in Peer \cup {Nothing}

LEMMA TypeParts == TypeOK <=> TrackersTyped /\ ViewTyped
BY DEF TypeOK, TrackersTyped, ViewTyped, Tracker

LEMMA NamesOfAddresses ==
  /\ Device \subseteq Name
  /\ \A a \in Addr : ManualName[a] \in Name /\ ProbedName[a] \in Name
  /\ \A d \in Device : Sources[d] \subseteq Addr /\ Advertised[d] \subseteq Addr
BY SourcesAssumption, AdvertisedAssumption DEF Name

LEMMA WithoutTyped ==
  ASSUME NEW tracker \in Tracker, NEW gone
  PROVE  Without(tracker, gone) \in Tracker
BY DEF Without, Tracker

LEMMA PeerTyped ==
  /\ \A n \in Name, a \in Addr : PeerAt(n, a) \in Peer
  /\ \A p, q \in Peer : Merged(q, p) \in Peer
BY DEF PeerAt, Merged, Peer

LEMMA UpsertTyped ==
  ASSUME ViewTyped, NEW p \in Peer, Upsert(p)
  PROVE  list' \subseteq Peer /\ selected' \in Peer \cup {Nothing}
BY PeerTyped DEF ViewTyped, Upsert

LEMMA TypeStep == ASSUME TypeOK, [Next]_vars PROVE TypeOK'
<1>. USE DEF trackerVars, viewVars, deviceVars
<1>0. TrackersTyped /\ ViewTyped
  BY TypeParts
<1>. SUFFICES TrackersTyped' /\ ViewTyped'
  BY TypeParts, PTL
<1>1. ASSUME NEW d \in Device, Join(d) \/ Leave(d) PROVE TrackersTyped' /\ ViewTyped'
  BY <1>0, <1>1 DEF Join, Leave, TrackersTyped, ViewTyped
<1>2. ASSUME NEW d \in Device, NEW a \in Addr, Heartbeat(d, a)
      PROVE  TrackersTyped' /\ ViewTyped'
  <2>1. PICK r \in Recorded(udp, d, a, "udp") : udp' = r.tracker /\ Send(r.says)
    BY <1>2 DEF Heartbeat
  <2>2. r.tracker \in Tracker /\ r.says \in Seq(Event)
    BY <1>0, NamesOfAddresses, RecordedEntries, RecordedSays DEF TrackersTyped
  <2>3. queue' \in Seq(Event) /\ Len(queue') <= QueueCap
    BY <1>0, <2>1, <2>2, QueueTyped DEF TrackersTyped
  <2>. QED BY <1>0, <1>2, <2>1, <2>2, <2>3 DEF Heartbeat, TrackersTyped, ViewTyped
<1>3. ASSUME UdpPrune PROVE TrackersTyped' /\ ViewTyped'
  <2>1. PICK es \in LostEvents(udp, UdpExpired) : Send(es)
    BY <1>3 DEF UdpPrune
  <2>2. UdpExpired \in SUBSET Known(udp)
    BY DEF UdpExpired
  <2>3. es \in Seq(Event) /\ Without(udp, UdpExpired) \in Tracker
    BY <1>0, <2>1, <2>2, LostSaid, WithoutTyped DEF TrackersTyped
  <2>4. queue' \in Seq(Event) /\ Len(queue') <= QueueCap
    BY <1>0, <2>1, <2>3, QueueTyped DEF TrackersTyped
  <2>. QED BY <1>0, <1>3, <2>3, <2>4 DEF UdpPrune, TrackersTyped, ViewTyped
<1>4. ASSUME NEW d \in Device, NEW a \in Addr, ServiceResolved(d, a)
      PROVE  TrackersTyped' /\ ViewTyped'
  <2>. DEFINE es == <<[kind |-> "discovered", name |-> d, addr |-> a]>>
  <2>1. es \in Seq(Event)
    BY NamesOfAddresses DEF Event
  <2>2. Send(es)
    BY <1>4 DEF ServiceResolved
  <2>3. queue' \in Seq(Event) /\ Len(queue') <= QueueCap
    BY <1>0, <2>1, <2>2, QueueTyped DEF TrackersTyped
  <2>. QED BY <1>0, <1>4, <2>3 DEF ServiceResolved, TrackersTyped, ViewTyped
<1>5. ASSUME NEW d \in Device, ServiceRemoved(d) PROVE TrackersTyped' /\ ViewTyped'
  <2>. DEFINE es == <<[kind |-> "lost", name |-> d, addr |-> resolved[d]]>>
  <2>1. es \in Seq(Event)
    BY <1>0, <1>5, NamesOfAddresses DEF ServiceRemoved, TrackersTyped, Event
  <2>2. Send(es)
    BY <1>5 DEF ServiceRemoved
  <2>3. queue' \in Seq(Event) /\ Len(queue') <= QueueCap
    BY <1>0, <2>1, <2>2, QueueTyped DEF TrackersTyped
  <2>. QED BY <1>0, <1>5, <2>3 DEF ServiceRemoved, TrackersTyped, ViewTyped
<1>6. ASSUME Aggregate PROVE TrackersTyped' /\ ViewTyped'
  <2>. DEFINE e == Head(queue)
  <2>1. /\ e \in Event /\ e.name \in Name /\ e.addr \in Addr
        /\ queue' \in Seq(Event) /\ Len(queue') <= QueueCap
    <3>1. queue \in Seq(Event) /\ queue # <<>> /\ queue' = Tail(queue) /\ Len(queue) <= QueueCap
      BY <1>0, <1>6 DEF Aggregate, TrackersTyped
    <3>2. e \in Event /\ Tail(queue) \in Seq(Event) /\ Len(Tail(queue)) = Len(queue) - 1
      BY <3>1, TailTyped
    <3>3. Len(queue) \in Nat
      BY <3>1, LenProperties
    <3>. QED BY <3>1, <3>2, <3>3, CapAssumption DEF Event
  <2>2. <<e>> \in Seq(Event) /\ <<>> \in Seq(Event)
    BY <2>1
  <2>3. CASE e.kind = "lost"
    <3>1. agg' = [agg EXCEPT ![e.addr] = Nothing] /\ Broadcast(<<e>>)
      BY <1>6, <2>3 DEF Aggregate
    <3>2. events' \in Seq(Event) /\ Len(events') <= BacklogCap
      BY <1>0, <2>2, <3>1, EventsTyped DEF TrackersTyped
    <3>3. agg' \in Tracker
      BY <1>0, <3>1 DEF TrackersTyped, Tracker
    <3>. QED BY <1>0, <1>6, <2>1, <3>2, <3>3 DEF Aggregate, TrackersTyped, ViewTyped
  <2>4. CASE e.kind # "lost"
    <3>1. PICK r \in Recorded(agg, e.name, e.addr, "udp") :
            /\ agg' = r.tracker
            /\ Broadcast(IF r.says = <<>> /\ e.kind = "updated" THEN <<e>> ELSE r.says)
      BY <1>6, <2>4 DEF Aggregate
    <3>2. r.tracker \in Tracker /\ r.says \in Seq(Event)
      BY <1>0, <2>1, RecordedEntries, RecordedSays DEF TrackersTyped
    <3>3. events' \in Seq(Event) /\ Len(events') <= BacklogCap
      BY <1>0, <2>2, <3>1, <3>2, EventsTyped DEF TrackersTyped
    <3>. QED BY <1>0, <1>6, <2>1, <3>1, <3>2, <3>3 DEF Aggregate, TrackersTyped, ViewTyped
  <2>. QED BY <2>3, <2>4
<1>7. ASSUME Reap PROVE TrackersTyped' /\ ViewTyped'
  <2>1. PICK es \in LostEvents(agg, ManualExpired) : Broadcast(es)
    BY <1>7 DEF Reap
  <2>2. ManualExpired \in SUBSET Known(agg)
    BY DEF ManualExpired
  <2>3. es \in Seq(Event) /\ Without(agg, ManualExpired) \in Tracker
    BY <1>0, <2>1, <2>2, LostSaid, WithoutTyped DEF TrackersTyped
  <2>4. events' \in Seq(Event) /\ Len(events') <= BacklogCap
    BY <1>0, <2>1, <2>3, EventsTyped DEF TrackersTyped
  <2>. QED BY <1>0, <1>7, <2>3, <2>4 DEF Reap, TrackersTyped, ViewTyped
<1>8. ASSUME Tick PROVE TrackersTyped' /\ ViewTyped'
  <2>1. ASSUME NEW x \in Entry, x.age <= ManualTTL \/ x.age <= UdpTTL
        PROVE  [x EXCEPT !.age = @ + 1] \in Entry
    BY <2>1, TTLAssumption DEF Entry, UdpTTL
  <2>2. udp' \in Tracker /\ agg' \in Tracker
    BY <1>0, <1>8, <2>1 DEF Tick, TrackersTyped, Tracker
  <2>. QED BY <1>0, <1>8, <2>2 DEF Tick, TrackersTyped, ViewTyped
<1>9. ASSUME NEW a \in ManualAddr,
             AddManual(a, ManualName[a]) \/ AddManual(a, ProbedName[a])
      PROVE  TrackersTyped' /\ ViewTyped'
  <2>0. a \in Addr
    BY ManualAssumption
  <2>1. PICK r \in Recorded(agg, ManualName[a], a, "manual") :
          agg' = r.tracker /\ Broadcast(r.says)
    BY <1>9 DEF AddManual, RecordManual
  <2>2. r.tracker \in Tracker /\ r.says \in Seq(Event)
    BY <1>0, <2>0, NamesOfAddresses, RecordedEntries, RecordedSays DEF TrackersTyped
  <2>3. events' \in Seq(Event) /\ Len(events') <= BacklogCap
    BY <1>0, <2>1, <2>2, EventsTyped DEF TrackersTyped
  <2>4. answer' \in Peer
    BY <1>9, <2>0, NamesOfAddresses DEF AddManual, Peer
  <2>. QED BY <1>0, <1>9, <2>1, <2>2, <2>3, <2>4 DEF AddManual, TrackersTyped, ViewTyped
<1>10. ASSUME Forward PROVE TrackersTyped' /\ ViewTyped'
  <2>. DEFINE e == Head(events)  p == PeerAt(e.name, e.addr)
  <2>1. /\ p \in Peer
        /\ events' \in Seq(Event) /\ Len(events') <= BacklogCap
    <3>1. /\ events \in Seq(Event) /\ events # <<>>
          /\ events' = Tail(events) /\ Len(events) <= BacklogCap
      BY <1>0, <1>10 DEF Forward, TrackersTyped
    <3>2. e \in Event /\ Tail(events) \in Seq(Event) /\ Len(Tail(events)) = Len(events) - 1
      BY <3>1, TailTyped
    <3>3. Len(events) \in Nat
      BY <3>1, LenProperties
    <3>4. p \in Peer
      BY <3>2, PeerTyped DEF Event
    <3>. QED BY <3>1, <3>2, <3>3, <3>4, CapAssumption
  <2>2. UNCHANGED viewVars \/ RemovePeer(p) \/ Upsert(p)
    BY <1>10 DEF Forward
  <2>3. list' \subseteq Peer /\ selected' \in Peer \cup {Nothing}
    BY <1>0, <2>1, <2>2, UpsertTyped DEF RemovePeer, ViewTyped
  <2>. QED BY <1>0, <1>10, <2>1, <2>3 DEF Forward, TrackersTyped, ViewTyped
<1>11. ASSUME Fetch PROVE TrackersTyped' /\ ViewTyped'
  <2>1. \A a \in Known(agg) : a \in Addr /\ agg[a].name \in Name
    BY <1>0 DEF TrackersTyped, Tracker, Known, Entry
  <2>2. fetched' \subseteq Peer
    BY <1>11, <2>1, PeerTyped DEF Fetch
  <2>. QED BY <1>0, <1>11, <2>2 DEF Fetch, TrackersTyped, ViewTyped
<1>12. ASSUME Fetched PROVE TrackersTyped' /\ ViewTyped'
  <2>1. fetched \subseteq Peer
    BY <1>0, <1>12 DEF Fetched, ViewTyped
  <2>2. list' \subseteq Peer /\ selected' \in Peer \cup {Nothing}
    BY <1>12, <2>1 DEF Fetched, SetPeerList
  <2>. QED BY <1>0, <1>12, <2>2 DEF Fetched, TrackersTyped, ViewTyped
<1>13. ASSUME Subscribe PROVE TrackersTyped' /\ ViewTyped'
  BY <1>0, <1>13 DEF Subscribe, TrackersTyped, ViewTyped
<1>14. ASSUME ManualAnswered PROVE TrackersTyped' /\ ViewTyped'
  <2>1. answer \in Peer /\ Upsert(answer)
    BY <1>0, <1>14 DEF ManualAnswered, ViewTyped
  <2>2. list' \subseteq Peer /\ selected' \in Peer \cup {Nothing}
    BY <1>0, <2>1, UpsertTyped
  <2>. QED BY <1>0, <1>14, <2>2 DEF ManualAnswered, TrackersTyped, ViewTyped
<1>15. ASSUME NEW p \in list, Select(p) PROVE TrackersTyped' /\ ViewTyped'
  BY <1>0, <1>15 DEF Select, TrackersTyped, ViewTyped
<1>16. CASE UNCHANGED vars
  BY <1>0, <1>16 DEF vars, TrackersTyped, ViewTyped
<1>. QED
  BY <1>1, <1>2, <1>3, <1>4, <1>5, <1>6, <1>7, <1>8, <1>9, <1>10, <1>11, <1>12, <1>13,
     <1>14, <1>15, <1>16 DEF Next

LEMMA TypeInit == Init => TypeOK
BY CapAssumption DEF Init, TypeOK

(* TypeOK holds in every state: names, addresses and kinds are those of    *)
(* the announcements, ages stay within the times to live, and neither      *)
(* channel holds more than its capacity, also when expired entries leave   *)
(* together.                                                               *)
THEOREM TypeCorrect == Spec => []TypeOK
BY TypeInit, TypeStep, PTL DEF Spec

(***************************************************************************)
(* Where names come from                                                   *)
(***************************************************************************)
(* The addresses a device announces itself from, and those a name may have *)
(* in a tracker.                                                           *)
HeardAt(d) == Sources[d] \cup Advertised[d]

Places(n) ==
  {a \in Addr : (n \in Device /\ a \in HeardAt(n)) \/ (a \in ManualAddr /\ n = ManualName[a])}

(* What may be known of a peer: the id of the device whose address it has, *)
(* or one of the two names of a manual address.                            *)
Owned(p) ==
  IF p.id # Nothing THEN p.addr \in Places(p.id)
  ELSE p.addr \in ManualAddr /\ p.name \in {ManualName[p.addr], ProbedName[p.addr]}

PlacedAt(n, a, source) ==
  IF source = "manual" THEN a \in ManualAddr /\ n = ManualName[a]
  ELSE n \in Device /\ a \in HeardAt(n)

FromDevice(e) == e.name \in Device /\ e.addr \in HeardAt(e.name)

TrackersPlaced ==
  /\ \A a \in Known(udp) : udp[a].name \in Device /\ a \in Sources[udp[a].name]
  /\ \A d \in Device : resolved[d] # Nothing => resolved[d] \in Advertised[d]
  /\ \A i \in DOMAIN queue : FromDevice(queue[i])
  /\ \A a \in Known(agg) : PlacedAt(agg[a].name, a, agg[a].source)
  /\ \A i \in DOMAIN events : events[i].addr \in Places(events[i].name)

ViewOwned ==
  /\ fetched # Nothing => \A p \in fetched : Owned(p)
  /\ answer # Nothing => Owned(answer)
  /\ \A p \in list : Owned(p)
  /\ selected # Nothing => Owned(selected)

LEMMA SentIs ==
  ASSUME queue \in Seq(Event), NEW es \in Seq(Event), Send(es)
  PROVE  /\ \A i \in DOMAIN queue : i \in DOMAIN queue' /\ queue'[i] = queue[i]
         /\ \A j \in DOMAIN es :
              /\ Len(queue) + j \in DOMAIN queue' /\ Len(queue) + j > Len(queue)
              /\ queue'[Len(queue) + j] = es[j]
         /\ \A i \in DOMAIN queue' :
              \/ i \in DOMAIN queue
              \/ \E j \in DOMAIN es : i = Len(queue) + j
<1>1. queue' = queue \o es
  BY DEF Send
<1>2. /\ DOMAIN queue = 1..Len(queue) /\ DOMAIN es = 1..Len(es)
      /\ Len(queue) \in Nat /\ Len(es) \in Nat
  BY LenProperties
<1>3. /\ queue' \in Seq(Event) /\ Len(queue') = Len(queue) + Len(es)
      /\ \A i \in 1..(Len(queue) + Len(es)) :
           queue'[i] = IF i <= Len(queue) THEN queue[i] ELSE es[i - Len(queue)]
  BY <1>1, ConcatProperties
<1>4. DOMAIN queue' = 1..(Len(queue) + Len(es))
  BY <1>3, LenProperties
<1>5. \A i \in DOMAIN queue' : i \in DOMAIN queue \/ i - Len(queue) \in DOMAIN es
  BY <1>2, <1>4
<1>6. \A j \in DOMAIN es : (Len(queue) + j) - Len(queue) = j /\ Len(queue) + j > Len(queue)
                           /\ Len(queue) + j \in 1..(Len(queue) + Len(es))
  BY <1>2
<1>7. \A i \in DOMAIN queue' : i = Len(queue) + (i - Len(queue))
  BY <1>2, <1>4
<1>8. \A i \in DOMAIN queue : i \in 1..(Len(queue) + Len(es)) /\ i <= Len(queue)
  BY <1>2
<1>. QED BY <1>3, <1>4, <1>5, <1>6, <1>7, <1>8

LEMMA BroadcastIs ==
  ASSUME events \in Seq(Event), NEW es \in Seq(Event), Broadcast(es)
  PROVE  \A i \in DOMAIN events' :
           \/ \E k \in DOMAIN events : events'[i] = events[k]
           \/ \E j \in DOMAIN es : events'[i] = es[j]
<1>. DEFINE all == events \o es
<1>1. /\ DOMAIN events = 1..Len(events) /\ DOMAIN es = 1..Len(es)
      /\ Len(events) \in Nat /\ Len(es) \in Nat
  BY LenProperties
<1>2. /\ all \in Seq(Event) /\ Len(all) = Len(events) + Len(es)
      /\ DOMAIN all = 1..(Len(events) + Len(es))
      /\ \A i \in 1..(Len(events) + Len(es)) :
           all[i] = IF i <= Len(events) THEN events[i] ELSE es[i - Len(events)]
  BY ConcatProperties, LenProperties
<1>3. \A i \in DOMAIN all : \/ \E k \in DOMAIN events : all[i] = events[k]
                            \/ \E j \in DOMAIN es : all[i] = es[j]
  <2>1. \A i \in DOMAIN all : i \in DOMAIN events \/ i - Len(events) \in DOMAIN es
    BY <1>1, <1>2
  <2>. QED BY <1>1, <1>2, <2>1
<1>4. CASE Len(all) <= BacklogCap
  BY <1>3, <1>4 DEF Broadcast
<1>5. CASE ~(Len(all) <= BacklogCap)
  <2>. DEFINE m == Len(all) - BacklogCap + 1
  <2>1. events' = SubSeq(all, m, Len(all))
    BY <1>5 DEF Broadcast
  <2>2. m \in 1..Len(all) /\ Len(all) \in Nat /\ m \in Int
    BY <1>1, <1>2, <1>5, CapAssumption
  <2>3. \A i \in m..Len(all) : all[i] \in Event
    BY <1>2, <2>2, ElementOfSeq
  <2>4. /\ events' \in Seq(Event) /\ Len(events') = Len(all) - m + 1
        /\ \A i \in 1..(Len(all) - m + 1) : events'[i] = all[m + i - 1]
    BY <2>1, <2>2, <2>3, SubSeqProperties, SMTT(30)
  <2>5. DOMAIN events' = 1..(Len(all) - m + 1)
    BY <2>4, LenProperties
  <2>6. \A i \in 1..(Len(all) - m + 1) : m + i - 1 \in DOMAIN all
    BY <1>1, <1>2, <2>2
  <2>. QED BY <1>3, <2>4, <2>5, <2>6, ZenonT(30)
<1>. QED BY <1>4, <1>5

LEMMA PlacedIsPlace ==
  ASSUME NEW a \in Addr, NEW n, NEW source, PlacedAt(n, a, source)
  PROVE  a \in Places(n)
<1>1. CASE source = "manual"
  BY <1>1 DEF PlacedAt, Places
<1>2. CASE source # "manual"
  BY <1>2 DEF PlacedAt, Places
<1>. QED BY <1>1, <1>2

LEMMA SentFromDevice ==
  ASSUME TrackersTyped, TrackersPlaced, NEW es \in Seq(Event), Send(es),
         \A j \in DOMAIN es : FromDevice(es[j])
  PROVE  \A i \in DOMAIN queue' : FromDevice(queue'[i])
<1>1. queue \in Seq(Event)
  BY DEF TrackersTyped
<1>2. /\ \A i \in DOMAIN queue : queue'[i] = queue[i]
      /\ \A j \in DOMAIN es : queue'[Len(queue) + j] = es[j]
      /\ \A i \in DOMAIN queue' : i \in DOMAIN queue \/ \E j \in DOMAIN es : i = Len(queue) + j
  BY <1>1, SentIs
<1>. QED BY <1>2 DEF TrackersPlaced

LEMMA TrackersPlacedStep ==
  ASSUME TypeOK, TrackersPlaced, [Next]_vars PROVE TrackersPlaced'
<1>. USE DEF trackerVars, viewVars, deviceVars
<1>0. TrackersTyped
  BY TypeParts
<1>1. CASE UNCHANGED <<trackerVars, events>>
  BY <1>1 DEF TrackersPlaced, Known
<1>2. ASSUME NEW d \in Device, NEW a \in Addr, Heartbeat(d, a) PROVE TrackersPlaced'
  <2>1. PICK r \in Recorded(udp, d, a, "udp") : udp' = r.tracker /\ Send(r.says)
    BY <1>2 DEF Heartbeat
  <2>2. /\ \A b \in Known(udp') : \/ b = a /\ udp'[b].name = d
                                  \/ b \in Known(udp) /\ udp'[b].name = udp[b].name
        /\ r.says \in Seq(Event)
        /\ \A i \in DOMAIN r.says : r.says[i].name = d /\ r.says[i].addr = a
    BY <1>0, <2>1, NamesOfAddresses, RecordedEntries, RecordedSays DEF TrackersTyped
  <2>3. a \in Sources[d]
    BY <1>2 DEF Heartbeat
  <2>4. \A b \in Known(udp') : udp'[b].name \in Device /\ b \in Sources[udp'[b].name]
    BY <2>2, <2>3 DEF TrackersPlaced
  <2>5. \A i \in DOMAIN queue' : FromDevice(queue'[i])
    <3>1. \A j \in DOMAIN r.says : FromDevice(r.says[j])
      BY <2>2, <2>3 DEF FromDevice, HeardAt
    <3>. QED BY <1>0, <2>1, <2>2, <3>1, SentFromDevice
  <2>6. UNCHANGED <<resolved, agg, events>>
    BY <1>2 DEF Heartbeat
  <2>. QED BY <2>4, <2>5, <2>6 DEF TrackersPlaced, Known
<1>3. ASSUME UdpPrune PROVE TrackersPlaced'
  <2>1. PICK es \in LostEvents(udp, UdpExpired) : Send(es)
    BY <1>3 DEF UdpPrune
  <2>2. UdpExpired \in SUBSET Known(udp)
    BY DEF UdpExpired
  <2>3. /\ es \in Seq(Event)
        /\ \A i \in DOMAIN es : es[i].addr \in Known(udp) /\ es[i].name = udp[es[i].addr].name
    BY <1>0, <2>1, <2>2, LostSaid DEF TrackersTyped
  <2>4. \A i \in DOMAIN queue' : FromDevice(queue'[i])
    <3>1. \A j \in DOMAIN es : FromDevice(es[j])
      BY <2>3 DEF TrackersPlaced, FromDevice, HeardAt
    <3>. QED BY <1>0, <2>1, <2>3, <3>1, SentFromDevice
  <2>5. \A a \in Known(udp') : a \in Known(udp) /\ udp'[a] = udp[a]
    BY <1>3 DEF UdpPrune, Without, Known
  <2>6. UNCHANGED <<resolved, agg, events>>
    BY <1>3 DEF UdpPrune
  <2>7. \A b \in Known(udp') : udp'[b].name \in Device /\ b \in Sources[udp'[b].name]
    BY <2>5 DEF TrackersPlaced
  <2>. QED BY <2>4, <2>6, <2>7 DEF TrackersPlaced, Known
<1>4. ASSUME NEW d \in Device, NEW a \in Addr, ServiceResolved(d, a) PROVE TrackersPlaced'
  <2>. DEFINE es == <<[kind |-> "discovered", name |-> d, addr |-> a]>>
  <2>1. es \in Seq(Event) /\ \A j \in DOMAIN es : es[j].name = d /\ es[j].addr = a
    BY NamesOfAddresses DEF Event
  <2>2. Send(es) /\ a \in Advertised[d]
    BY <1>4 DEF ServiceResolved
  <2>3. \A i \in DOMAIN queue' : FromDevice(queue'[i])
    <3>1. \A j \in DOMAIN es : FromDevice(es[j])
      BY <2>1, <2>2 DEF FromDevice, HeardAt
    <3>. QED BY <1>0, <2>1, <2>2, <3>1, SentFromDevice
  <2>4. \A c \in Device : resolved'[c] # Nothing => resolved'[c] \in Advertised[c]
    BY <1>0, <1>4, <2>2 DEF ServiceResolved, TrackersTyped, TrackersPlaced
  <2>5. UNCHANGED <<udp, agg, events>>
    BY <1>4 DEF ServiceResolved
  <2>. QED BY <2>3, <2>4, <2>5 DEF TrackersPlaced, Known
<1>5. ASSUME NEW d \in Device, ServiceRemoved(d) PROVE TrackersPlaced'
  <2>. DEFINE es == <<[kind |-> "lost", name |-> d, addr |-> resolved[d]]>>
  <2>1. es \in Seq(Event) /\ \A j \in DOMAIN es : es[j].name = d /\ es[j].addr = resolved[d]
    BY <1>0, <1>5, NamesOfAddresses DEF ServiceRemoved, TrackersTyped, Event
  <2>2. Send(es) /\ resolved[d] \in Advertised[d]
    BY <1>5 DEF ServiceRemoved, TrackersPlaced
  <2>3. \A i \in DOMAIN queue' : FromDevice(queue'[i])
    <3>1. \A j \in DOMAIN es : FromDevice(es[j])
      BY <2>1, <2>2 DEF FromDevice, HeardAt
    <3>. QED BY <1>0, <2>1, <2>2, <3>1, SentFromDevice
  <2>4. \A c \in Device : resolved'[c] # Nothing => resolved'[c] \in Advertised[c]
    BY <1>0, <1>5 DEF ServiceRemoved, TrackersTyped, TrackersPlaced
  <2>5. UNCHANGED <<udp, agg, events>>
    BY <1>5 DEF ServiceRemoved
  <2>. QED BY <2>3, <2>4, <2>5 DEF TrackersPlaced, Known
<1>6. ASSUME Aggregate PROVE TrackersPlaced'
  <2>. DEFINE e == Head(queue)
  <2>1. /\ queue \in Seq(Event) /\ queue # <<>> /\ queue' = Tail(queue)
        /\ UNCHANGED <<resolved, udp>>
    BY <1>0, <1>6 DEF Aggregate, TrackersTyped
  <2>2. e \in Event /\ e = queue[1] /\ 1 \in DOMAIN queue
    BY <2>1, TailTyped
  <2>3. e.name \in Device /\ e.addr \in HeardAt(e.name) /\ e.addr \in Addr
    BY <2>2 DEF TrackersPlaced, Event, FromDevice
  <2>4. PlacedAt(e.name, e.addr, "udp") /\ e.addr \in Places(e.name)
    BY <2>3, PlacedIsPlace, SMTT(30) DEF PlacedAt
  <2>5. \A i \in DOMAIN queue' : FromDevice(queue'[i])
    BY <2>1, TailTyped DEF TrackersPlaced
  <2>6. /\ \A a \in Known(agg') : PlacedAt(agg'[a].name, a, agg'[a].source)
        /\ \A i \in DOMAIN events' : events'[i].addr \in Places(events'[i].name)
    <3>0. <<e>> \in Seq(Event) /\ \A j \in DOMAIN <<e>> : <<e>>[j] = e
      BY <2>2
    <3>1. CASE e.kind = "lost"
      <4>1. agg' = [agg EXCEPT ![e.addr] = Nothing] /\ Broadcast(<<e>>)
        BY <1>6, <3>1 DEF Aggregate
      <4>2. \A a \in Known(agg') : a \in Known(agg) /\ agg'[a] = agg[a]
        BY <1>0, <4>1 DEF TrackersTyped, Tracker, Known
      <4>3. \A i \in DOMAIN events' : events'[i].addr \in Places(events'[i].name)
        BY <1>0, <2>4, <3>0, <4>1, BroadcastIs DEF TrackersTyped, TrackersPlaced
      <4>. QED BY <4>2, <4>3 DEF TrackersPlaced
    <3>2. CASE e.kind # "lost"
      <4>1. PICK r \in Recorded(agg, e.name, e.addr, "udp") :
              /\ agg' = r.tracker
              /\ Broadcast(IF r.says = <<>> /\ e.kind = "updated" THEN <<e>> ELSE r.says)
        BY <1>6, <3>2 DEF Aggregate
      <4>2. \A b \in Known(agg') :
              \/ b = e.addr /\ agg'[b].name = e.name /\ agg'[b].source = "udp"
              \/ /\ b \in Known(agg)
                 /\ agg'[b].name = agg[b].name /\ agg'[b].source = agg[b].source
        BY <1>0, <2>3, <4>1, NamesOfAddresses, RecordedEntries DEF TrackersTyped
      <4>3. /\ r.says \in Seq(Event)
            /\ \A i \in DOMAIN r.says : r.says[i].name = e.name /\ r.says[i].addr = e.addr
        BY <1>0, <2>3, NamesOfAddresses, RecordedSays DEF TrackersTyped
      <4>4. PICK es \in Seq(Event) :
              /\ Broadcast(es)
              /\ \A i \in DOMAIN es : es[i].name = e.name /\ es[i].addr = e.addr
        BY <3>0, <4>1, <4>3
      <4>5. \A i \in DOMAIN events' : events'[i].addr \in Places(events'[i].name)
        BY <1>0, <2>4, <4>4, BroadcastIs DEF TrackersTyped, TrackersPlaced
      <4>6. \A a \in Known(agg') : PlacedAt(agg'[a].name, a, agg'[a].source)
        BY <2>4, <4>2 DEF TrackersPlaced
      <4>. QED BY <4>5, <4>6
    <3>. QED BY <3>1, <3>2
  <2>. QED BY <2>1, <2>5, <2>6 DEF TrackersPlaced, Known
<1>7. ASSUME Reap PROVE TrackersPlaced'
  <2>1. PICK es \in LostEvents(agg, ManualExpired) : Broadcast(es)
    BY <1>7 DEF Reap
  <2>2. ManualExpired \in SUBSET Known(agg)
    BY DEF ManualExpired
  <2>3. /\ es \in Seq(Event)
        /\ \A i \in DOMAIN es : es[i].addr \in Known(agg) /\ es[i].name = agg[es[i].addr].name
    BY <1>0, <2>1, <2>2, LostSaid DEF TrackersTyped
  <2>4. \A a \in Known(agg) : a \in Places(agg[a].name)
    BY PlacedIsPlace DEF TrackersPlaced, Known
  <2>5. \A i \in DOMAIN events' : events'[i].addr \in Places(events'[i].name)
    BY <1>0, <2>1, <2>3, <2>4, BroadcastIs, SMTT(30) DEF TrackersTyped, TrackersPlaced
  <2>6. \A a \in Known(agg') : a \in Known(agg) /\ agg'[a] = agg[a]
    BY <1>7 DEF Reap, Without, Known
  <2>7. UNCHANGED <<resolved, udp, queue>>
    BY <1>7 DEF Reap
  <2>8. \A a \in Known(agg') : PlacedAt(agg'[a].name, a, agg'[a].source)
    BY <2>6 DEF TrackersPlaced
  <2>. QED BY <2>5, <2>7, <2>8 DEF TrackersPlaced, Known
<1>8. ASSUME Tick PROVE TrackersPlaced'
  <2>1. \A a \in Known(udp') : a \in Known(udp) /\ udp'[a].name = udp[a].name
    BY <1>0, <1>8 DEF Tick, Known, TrackersTyped, Tracker, Entry
  <2>2. \A a \in Known(agg') : /\ a \in Known(agg) /\ agg'[a].name = agg[a].name
                               /\ agg'[a].source = agg[a].source
    BY <1>0, <1>8 DEF Tick, Known, TrackersTyped, Tracker, Entry
  <2>3. UNCHANGED <<resolved, queue, events>>
    BY <1>8 DEF Tick
  <2>4. \A a \in Known(udp') : udp'[a].name \in Device /\ a \in Sources[udp'[a].name]
    BY <2>1 DEF TrackersPlaced
  <2>5. \A a \in Known(agg') : PlacedAt(agg'[a].name, a, agg'[a].source)
    BY <2>2 DEF TrackersPlaced
  <2>. QED BY <2>3, <2>4, <2>5 DEF TrackersPlaced, Known
<1>9. ASSUME NEW a \in ManualAddr,
             AddManual(a, ManualName[a]) \/ AddManual(a, ProbedName[a])
      PROVE  TrackersPlaced'
  <2>0. a \in Addr /\ PlacedAt(ManualName[a], a, "manual") /\ a \in Places(ManualName[a])
    BY ManualAssumption, PlacedIsPlace DEF PlacedAt
  <2>1. PICK r \in Recorded(agg, ManualName[a], a, "manual") :
          agg' = r.tracker /\ Broadcast(r.says)
    BY <1>9 DEF AddManual, RecordManual
  <2>2. \A b \in Known(agg') :
          \/ b = a /\ agg'[b].name = ManualName[a] /\ agg'[b].source = "manual"
          \/ /\ b \in Known(agg)
             /\ agg'[b].name = agg[b].name /\ agg'[b].source = agg[b].source
    BY <1>0, <2>0, <2>1, NamesOfAddresses, RecordedEntries DEF TrackersTyped
  <2>3. /\ r.says \in Seq(Event)
        /\ \A i \in DOMAIN r.says : r.says[i].name = ManualName[a] /\ r.says[i].addr = a
    BY <1>0, <2>0, NamesOfAddresses, RecordedSays DEF TrackersTyped
  <2>4. \A i \in DOMAIN events' : events'[i].addr \in Places(events'[i].name)
    BY <1>0, <2>0, <2>1, <2>3, BroadcastIs DEF TrackersTyped, TrackersPlaced
  <2>5. UNCHANGED <<resolved, udp, queue>>
    BY <1>9 DEF AddManual
  <2>6. \A b \in Known(agg') : PlacedAt(agg'[b].name, b, agg'[b].source)
    BY <2>0, <2>2 DEF TrackersPlaced
  <2>. QED BY <2>4, <2>5, <2>6 DEF TrackersPlaced, Known
<1>10. ASSUME Forward PROVE TrackersPlaced'
  <2>1. /\ events \in Seq(Event) /\ events # <<>> /\ events' = Tail(events)
        /\ UNCHANGED trackerVars
    BY <1>0, <1>10 DEF Forward, TrackersTyped
  <2>2. \A i \in DOMAIN events' : events'[i].addr \in Places(events'[i].name)
    BY <2>1, TailTyped DEF TrackersPlaced
  <2>. QED BY <2>1, <2>2 DEF TrackersPlaced, Known
<1>11. CASE UNCHANGED vars
  BY <1>1, <1>11 DEF vars
<1>12. CASE \E d \in Device : Join(d) \/ Leave(d)
  BY <1>1, <1>12 DEF Join, Leave
<1>13. CASE Fetch \/ Fetched \/ Subscribe \/ ManualAnswered \/ \E p \in list : Select(p)
  BY <1>1, <1>13 DEF Fetch, Fetched, Subscribe, ManualAnswered, Select
<1>. QED
  BY <1>2, <1>3, <1>4, <1>5, <1>6, <1>7, <1>8, <1>9, <1>10, <1>11, <1>12, <1>13 DEF Next

(***************************************************************************)
(* One address for each name                                               *)
(***************************************************************************)
(* An address that two names may have is the only one of each.  Otherwise  *)
(* a name can take over the address of another while it holds a second one:*)
(* the tracker overwrites the entry and does not look for the old address. *)
NamesUndisputed ==
  \A n, m \in Name : \A a, b \in Addr :
    n # m /\ a \in Places(n) /\ a \in Places(m) /\ b \in Places(n) => b = a

AtOneAddress(tracker) ==
  \A a, b \in Known(tracker) : tracker[a].name = tracker[b].name => a = b

LEMMA RecordedOne ==
  ASSUME NamesUndisputed, NEW tracker \in Tracker, AtOneAddress(tracker),
         \A b \in Known(tracker) : b \in Places(tracker[b].name),
         NEW n \in Name, NEW a \in Places(n), NEW source \in {"udp", "manual"},
         NEW r \in Recorded(tracker, n, a, source)
  PROVE  AtOneAddress(r.tracker)
<1>0. a \in Addr /\ Known(tracker) \subseteq Addr
  BY DEF Places, Known
<1>. DEFINE entry == [name |-> n, source |-> source, age |-> 0]
<1>1. \A b \in Known(tracker) : tracker[b].name \in Name
  BY DEF Known, Tracker, Entry
<1>2. /\ \A b \in Addr : Put(tracker, n, a, source)[b] = IF b = a THEN entry ELSE tracker[b]
      /\ Put(tracker, n, a, source) \in [Addr -> Entry \cup {Nothing, entry}]
      /\ entry.name = n
  BY <1>0 DEF Put, Tracker
<1>3. ASSUME r.tracker = Put(tracker, n, a, source),
             \A b \in Known(tracker) : tracker[b].name = n => b = a
      PROVE  AtOneAddress(r.tracker)
  BY <1>2, <1>3 DEF AtOneAddress, Known
<1>4. CASE Refreshes(tracker, n, a, source, r)
  <2>1. a \in Known(tracker)
    BY <1>0, <1>4 DEF Refreshes, Known
  <2>2. ASSUME NEW b \in Known(tracker), tracker[b].name = n PROVE b = a
    <3>1. CASE tracker[a].name = n
      BY <2>1, <2>2, <3>1 DEF AtOneAddress
    <3>2. CASE tracker[a].name # n
      BY <1>0, <1>1, <2>1, <2>2, <3>2 DEF NamesUndisputed
    <3>. QED BY <3>1, <3>2
  <2>. QED BY <1>3, <1>4, <2>2 DEF Refreshes
<1>5. CASE Adds(tracker, n, a, source, r)
  BY <1>3, <1>5 DEF Adds, Named
<1>6. ASSUME NEW old \in Named(tracker, n), Moves(tracker, n, a, source, old, r)
      PROVE  AtOneAddress(r.tracker)
  <2>1. old \in Known(tracker) /\ tracker[old].name = n /\ tracker[a] = Nothing
    BY <1>6 DEF Moves, Named
  <2>2. \A b \in Known(tracker) : tracker[b].name = n => b = old
    BY <2>1 DEF AtOneAddress
  <2>3. old # a /\ old \in Addr
    BY <2>1 DEF Known
  <2>4. \A b \in Addr : r.tracker[b] = IF b = old THEN Nothing
                                       ELSE IF b = a THEN entry ELSE tracker[b]
    BY <1>2, <1>6, <2>3 DEF Moves
  <2>. QED BY <1>2, <2>2, <2>4 DEF AtOneAddress, Known
<1>7. ASSUME NEW old \in Named(tracker, n), Keeps(tracker, a, old, r)
      PROVE  AtOneAddress(r.tracker)
  <2>1. \A b \in Known(r.tracker) : b \in Known(tracker) /\ r.tracker[b].name = tracker[b].name
    BY <1>7, KeptEntry DEF Keeps, Known, Named
  <2>. QED BY <2>1 DEF AtOneAddress
<1>. QED BY <1>0, <1>4, <1>5, <1>6, <1>7, RecordedCases

LEMMA FewerAtOne ==
  ASSUME NEW tracker, NEW fewer, AtOneAddress(tracker),
         \A b \in Known(fewer) : b \in Known(tracker) /\ fewer[b].name = tracker[b].name
  PROVE  AtOneAddress(fewer)
BY DEF AtOneAddress

(* The steps of the two trackers, as far as names and sources go.          *)
LEMMA TickKeepsEntries ==
  ASSUME TypeOK, Tick
  PROVE  /\ Known(udp') = Known(udp) /\ \A b \in Known(udp) : udp'[b].name = udp[b].name
         /\ Known(agg') = Known(agg)
         /\ \A b \in Known(agg) : agg'[b].name = agg[b].name /\ agg'[b].source = agg[b].source
<1>1. TrackersTyped
  BY TypeParts
<1>2. ASSUME NEW x \in Entry, x.age <= ManualTTL \/ x.age <= UdpTTL
      PROVE  /\ [x EXCEPT !.age = @ + 1] # Nothing
             /\ [x EXCEPT !.age = @ + 1].name = x.name
             /\ [x EXCEPT !.age = @ + 1].source = x.source
  <2>1. [x EXCEPT !.age = @ + 1] \in Entry
    BY <1>2, TTLAssumption DEF Entry, UdpTTL
  <2>. QED BY <2>1, NothingAssumption DEF Entry
<1>. QED BY <1>1, <1>2 DEF Tick, Known, TrackersTyped, Tracker

LEMMA OneAddressStep ==
  ASSUME NamesUndisputed, TypeOK, TrackersPlaced, AtOneAddress(udp), AtOneAddress(agg),
         [Next]_vars
  PROVE  AtOneAddress(udp)' /\ AtOneAddress(agg)'
<1>. USE DEF trackerVars, viewVars, deviceVars
<1>0. /\ TrackersTyped
      /\ \A b \in Known(udp) : b \in Places(udp[b].name)
      /\ \A b \in Known(agg) : b \in Places(agg[b].name)
  BY TypeParts, PlacedIsPlace DEF TrackersPlaced, Places, HeardAt, Known
<1>1. CASE UNCHANGED <<udp, agg>>
  BY <1>1 DEF AtOneAddress, Known
<1>2. ASSUME NEW d \in Device, NEW a \in Addr, Heartbeat(d, a)
      PROVE  AtOneAddress(udp)' /\ AtOneAddress(agg)'
  <2>1. PICK r \in Recorded(udp, d, a, "udp") : udp' = r.tracker
    BY <1>2 DEF Heartbeat
  <2>2. a \in Places(d) /\ UNCHANGED agg
    BY <1>2 DEF Heartbeat, Places, HeardAt
  <2>3. AtOneAddress(r.tracker)
    BY <1>0, <2>1, <2>2, NamesOfAddresses, RecordedOne DEF TrackersTyped
  <2>. QED BY <2>1, <2>2, <2>3 DEF AtOneAddress, Known
<1>3. CASE UdpPrune
  <2>1. /\ \A b \in Known(udp') : b \in Known(udp) /\ udp'[b].name = udp[b].name
        /\ UNCHANGED agg
    BY <1>3 DEF UdpPrune, Without, Known
  <2>. QED BY <2>1 DEF AtOneAddress, Known
<1>4. CASE Aggregate
  <2>. DEFINE e == Head(queue)
  <2>1. queue \in Seq(Event) /\ queue # <<>> /\ UNCHANGED udp
    BY <1>0, <1>4 DEF Aggregate, TrackersTyped
  <2>2. e \in Event /\ e = queue[1] /\ 1 \in DOMAIN queue
    BY <2>1, TailTyped
  <2>3. e.name \in Name /\ e.addr \in Addr /\ e.addr \in Places(e.name)
    BY <2>2 DEF TrackersPlaced, FromDevice, Event, Places
  <2>4. CASE e.kind = "lost"
    <3>1. agg' = [agg EXCEPT ![e.addr] = Nothing]
      BY <1>4, <2>4 DEF Aggregate
    <3>2. \A b \in Known(agg') : b \in Known(agg) /\ agg'[b].name = agg[b].name
      BY <1>0, <3>1 DEF TrackersTyped, Tracker, Known
    <3>. QED BY <2>1, <3>2 DEF AtOneAddress, Known
  <2>5. CASE e.kind # "lost"
    <3>1. PICK r \in Recorded(agg, e.name, e.addr, "udp") : agg' = r.tracker
      BY <1>4, <2>5 DEF Aggregate
    <3>2. AtOneAddress(r.tracker)
      BY <1>0, <2>3, <3>1, RecordedOne DEF TrackersTyped
    <3>. QED BY <2>1, <3>1, <3>2 DEF AtOneAddress, Known
  <2>. QED BY <2>4, <2>5
<1>5. CASE Reap
  <2>1. /\ \A b \in Known(agg') : b \in Known(agg) /\ agg'[b].name = agg[b].name
        /\ UNCHANGED udp
    BY <1>5 DEF Reap, Without, Known
  <2>. QED BY <2>1 DEF AtOneAddress, Known
<1>6. CASE Tick
  BY <1>6, TickKeepsEntries DEF AtOneAddress
<1>7. ASSUME NEW a \in ManualAddr,
             AddManual(a, ManualName[a]) \/ AddManual(a, ProbedName[a])
      PROVE  AtOneAddress(udp)' /\ AtOneAddress(agg)'
  <2>1. PICK r \in Recorded(agg, ManualName[a], a, "manual") : agg' = r.tracker
    BY <1>7 DEF AddManual, RecordManual
  <2>2. a \in Places(ManualName[a]) /\ ManualName[a] \in Name
    BY ManualAssumption, NamesOfAddresses DEF Places
  <2>3. AtOneAddress(r.tracker) /\ UNCHANGED udp
    BY <1>0, <1>7, <2>1, <2>2, RecordedOne DEF TrackersTyped, AddManual
  <2>. QED BY <2>1, <2>3 DEF AtOneAddress, Known
<1>8. CASE \E d \in Device : Join(d) \/ Leave(d) \/ ServiceRemoved(d)
  BY <1>1, <1>8 DEF Join, Leave, ServiceRemoved
<1>9. CASE \E d \in Device, a \in Addr : ServiceResolved(d, a)
  BY <1>1, <1>9 DEF ServiceResolved
<1>10. CASE Forward \/ Fetch \/ Fetched \/ Subscribe \/ ManualAnswered
  BY <1>1, <1>10 DEF Forward, Fetch, Fetched, Subscribe, ManualAnswered
<1>11. CASE \E p \in list : Select(p)
  BY <1>1, <1>11 DEF Select
<1>12. CASE UNCHANGED vars
  BY <1>1, <1>12 DEF vars
<1>. QED
  BY <1>2, <1>3, <1>4, <1>5, <1>6, <1>7, <1>8, <1>9, <1>10, <1>11, <1>12 DEF Next

LEMMA OneIsOneAddressEach ==
  ASSUME AtOneAddress(udp), AtOneAddress(agg) PROVE OneAddressEach
<1>1. ASSUME NEW tracker, AtOneAddress(tracker), NEW n
      PROVE  Cardinality(Named(tracker, n)) <= 1
  <2>1. CASE Named(tracker, n) = {}
    BY <2>1, FS_EmptySet
  <2>2. CASE Named(tracker, n) # {}
    <3>1. PICK a : a \in Named(tracker, n)
      BY <2>2
    <3>2. Named(tracker, n) = {a}
      BY <1>1, <3>1 DEF Named, AtOneAddress
    <3>3. Cardinality({a}) = 1
      BY FS_Singleton
    <3>. QED BY <3>2, <3>3
  <2>. QED BY <2>1, <2>2
<1>. QED BY <1>1 DEF OneAddressEach

(***************************************************************************)
(* No entry that nobody will drop                                          *)
(***************************************************************************)
(* Two devices do not share an address, and a device advertises one.  With *)
(* a second one the mDNS task forgets the first without reporting its loss.*)
DevicesApart ==
  \A d, e \in Device : \A a \in HeardAt(d) : a \in HeardAt(e) => d = e

OneAdvertised == \A d \in Device : \A a, b \in Advertised[d] : a = b

(* A source knows the name at the address and will report its loss.        *)
HasSource(n, a) == a \in Named(udp, n) \/ resolved[n] = a

(* What the aggregate tracker must hear to drop the name at the address:   *)
(* its loss there, or that it is at an address that is at least as good.   *)
Clears(e, n, a) ==
  /\ e.name = n
  /\ IF e.kind = "lost" THEN e.addr = a ELSE e.addr # a /\ Rank[e.addr] <= Rank[a]

(* The name will leave the address for a reason behind place k of the queue.*)
Dropped(n, a, k) == HasSource(n, a) \/ \E j \in DOMAIN queue : j > k /\ Clears(queue[j], n, a)

(* This holds of the entries of the aggregate tracker, and of what it will *)
(* enter when it comes to place k.                                         *)
GhostInv ==
  /\ \A a \in Known(agg) : agg[a].source = "udp" => Dropped(agg[a].name, a, 0)
  /\ \A k \in DOMAIN queue : queue[k].kind # "lost" => Dropped(queue[k].name, queue[k].addr, k)

LEMMA GhostsAreNone ==
  ASSUME TypeOK, TrackersPlaced, GhostInv PROVE NoGhosts
<1>1. ASSUME NEW a \in Known(agg), agg[a].source = "udp"
      PROVE  agg[a].name \in Device /\ Dropped(agg[a].name, a, 0)
  BY <1>1 DEF GhostInv, TrackersPlaced, PlacedAt
<1>. QED BY <1>1 DEF NoGhosts, Dropped, HasSource, Clears, Named, Known

LEMMA SendKeepsDropped ==
  ASSUME TrackersTyped, TrackersPlaced, GhostInv, UNCHANGED agg,
         NEW es \in Seq(Event), Send(es),
         \A n \in Device, a \in Addr :
           HasSource(n, a) => HasSource(n, a)' \/ \E j \in DOMAIN es : Clears(es[j], n, a),
         \A j \in DOMAIN es : es[j].kind # "lost" => HasSource(es[j].name, es[j].addr)'
  PROVE  GhostInv'
<1>1. /\ \A i \in DOMAIN queue : i \in DOMAIN queue' /\ queue'[i] = queue[i]
      /\ \A j \in DOMAIN es :
           /\ Len(queue) + j \in DOMAIN queue' /\ Len(queue) + j > Len(queue)
           /\ queue'[Len(queue) + j] = es[j]
      /\ \A i \in DOMAIN queue' : i \in DOMAIN queue \/ \E j \in DOMAIN es : i = Len(queue) + j
  BY SentIs DEF TrackersTyped
<1>2. DOMAIN queue = 1..Len(queue) /\ Len(queue) \in Nat /\ DOMAIN es \subseteq Nat
  BY LenProperties DEF TrackersTyped
<1>3. ASSUME NEW n \in Device, NEW a \in Addr, NEW k \in 0..Len(queue), Dropped(n, a, k)
      PROVE  Dropped(n, a, k)'
  <2>1. CASE HasSource(n, a)
    <3>1. CASE HasSource(n, a)'
      BY <3>1 DEF Dropped
    <3>2. ASSUME NEW j \in DOMAIN es, Clears(es[j], n, a) PROVE Dropped(n, a, k)'
      <4>1. Len(queue) + j \in DOMAIN queue' /\ queue'[Len(queue) + j] = es[j]
        BY <1>1
      <4>2. Len(queue) + j > k
        BY <1>1, <1>2
      <4>. QED BY <3>2, <4>1, <4>2 DEF Dropped, Clears
    <3>. QED BY <2>1, <3>1, <3>2
  <2>2. ASSUME NEW j \in DOMAIN queue, j > k, Clears(queue[j], n, a) PROVE Dropped(n, a, k)'
    BY <1>1, <2>2 DEF Dropped, Clears
  <2>. QED BY <1>3, <2>1, <2>2 DEF Dropped
<1>4. ASSUME NEW a \in Known(agg'), agg'[a].source = "udp", NEW n, n = agg'[a].name
      PROVE  Dropped(n, a, 0)'
  <2>1. a \in Known(agg) /\ agg'[a] = agg[a] /\ a \in Addr
    BY <1>4 DEF Known
  <2>2. agg[a].name \in Device /\ Dropped(agg[a].name, a, 0)
    BY <1>4, <2>1 DEF GhostInv, TrackersPlaced, PlacedAt
  <2>. QED BY <1>2, <1>3, <1>4, <2>1, <2>2
<1>5. ASSUME NEW k \in DOMAIN queue', queue'[k].kind # "lost",
             NEW n, n = queue'[k].name, NEW a, a = queue'[k].addr
      PROVE  Dropped(n, a, k)'
  <2>1. CASE k \in DOMAIN queue
    <3>1. queue'[k] = queue[k] /\ queue[k] \in Event /\ queue[k].name \in Device
      BY <1>1, <2>1, ElementOfSeq, <1>2 DEF TrackersTyped, TrackersPlaced, FromDevice
    <3>2. queue[k].addr \in Addr /\ Dropped(queue[k].name, queue[k].addr, k)
      BY <1>5, <2>1, <3>1 DEF GhostInv, Event
    <3>. QED BY <1>2, <1>3, <1>5, <2>1, <3>1, <3>2
  <2>2. ASSUME NEW j \in DOMAIN es, k = Len(queue) + j PROVE Dropped(n, a, k)'
    BY <1>1, <1>5, <2>2 DEF Dropped
  <2>. QED BY <1>1, <2>1, <2>2
<1>. QED BY <1>4, <1>5 DEF GhostInv

(* Taking the first event leaves a reason for every entry.                 *)
LEMMA AggregateKeepsDropped ==
  ASSUME NamesUndisputed, TrackersTyped, TrackersPlaced, AtOneAddress(agg), GhostInv, Aggregate
  PROVE  GhostInv'
<1>. DEFINE e == Head(queue)
<1>1. /\ queue \in Seq(Event) /\ queue # <<>> /\ queue' = Tail(queue)
      /\ UNCHANGED <<resolved, udp>>
  BY DEF Aggregate, TrackersTyped
<1>2. e \in Event /\ e = queue[1] /\ 1 \in DOMAIN queue
  BY <1>1, TailTyped
<1>3. /\ DOMAIN queue = 1..Len(queue) /\ DOMAIN queue' = 1..(Len(queue) - 1)
      /\ Len(queue) \in Nat /\ \A i \in DOMAIN queue' : queue'[i] = queue[i + 1]
  <2>1. queue' \in Seq(Event) /\ Len(queue') = Len(queue) - 1
    BY <1>1, TailTyped
  <2>. QED BY <1>1, <2>1, TailTyped, LenProperties
<1>4. \A n, a : HasSource(n, a)' = HasSource(n, a)
  BY <1>1 DEF HasSource, Named, Known
<1>5. ASSUME NEW n, NEW a, NEW k \in Nat, Dropped(n, a, k + 1) PROVE Dropped(n, a, k)'
  <2>1. CASE HasSource(n, a)
    BY <1>4, <2>1 DEF Dropped
  <2>2. ASSUME NEW j \in DOMAIN queue, j > k + 1, Clears(queue[j], n, a) PROVE Dropped(n, a, k)'
    <3>1. j - 1 \in DOMAIN queue' /\ j - 1 > k /\ (j - 1) + 1 = j
      BY <1>3, <2>2
    <3>2. queue'[j - 1] = queue[j]
      BY <1>3, <3>1
    <3>. QED BY <2>2, <3>1, <3>2 DEF Dropped, Clears
  <2>. QED BY <1>5, <2>1, <2>2 DEF Dropped
<1>6. ASSUME NEW n, NEW a, Dropped(n, a, 0), ~Clears(e, n, a) PROVE Dropped(n, a, 0)'
  <2>1. \A j \in DOMAIN queue : j > 0 => j > 1 \/ j = 1
    BY <1>3
  <2>2. Dropped(n, a, 1)
    BY <1>2, <1>6, <2>1 DEF Dropped
  <2>. QED BY <1>5, <2>2
<1>7. ASSUME NEW k \in DOMAIN queue', queue'[k].kind # "lost",
             NEW n, n = queue'[k].name, NEW a, a = queue'[k].addr
      PROVE  Dropped(n, a, k)'
  <2>1. k \in Nat /\ k + 1 \in DOMAIN queue /\ queue'[k] = queue[k + 1]
    BY <1>3
  <2>2. Dropped(queue[k + 1].name, queue[k + 1].addr, k + 1)
    BY <1>7, <2>1 DEF GhostInv
  <2>. QED BY <1>5, <1>7, <2>1, <2>2
<1>8. ASSUME NEW a \in Known(agg'), agg'[a].source = "udp", NEW m, m = agg'[a].name
      PROVE  Dropped(m, a, 0)'
  <2>1. CASE e.kind = "lost"
    <3>1. agg' = [agg EXCEPT ![e.addr] = Nothing]
      BY <2>1 DEF Aggregate
    <3>2. a \in Known(agg) /\ agg'[a] = agg[a] /\ a # e.addr
      BY <1>2, <3>1 DEF TrackersTyped, Tracker, Known, Event
    <3>3. Dropped(agg[a].name, a, 0) /\ ~Clears(e, agg[a].name, a)
      BY <1>8, <2>1, <3>2 DEF GhostInv, Clears
    <3>. QED BY <1>6, <1>8, <3>2, <3>3
  <2>2. CASE e.kind # "lost"
    <3>. DEFINE n == e.name  b == e.addr
    <3>1. /\ n \in Device /\ n \in Name /\ b \in Addr /\ b \in Places(n)
          /\ \A c \in Known(agg) : /\ c \in Addr /\ c \in Places(agg[c].name)
                                  /\ agg[c].name \in Name
      BY <1>2, PlacedIsPlace
         DEF TrackersPlaced, FromDevice, Event, Places, Known, TrackersTyped, Tracker, Entry
    <3>2. PICK r \in Recorded(agg, n, b, "udp") : agg' = r.tracker
      BY <2>2 DEF Aggregate
    <3>3. \/ a = b /\ agg'[a].name = n
          \/ /\ a \in Known(agg) /\ agg'[a].name = agg[a].name
             /\ agg'[a].source = agg[a].source
      BY <3>1, <3>2, RecordedEntries DEF TrackersTyped
    <3>4. CASE a = b /\ agg'[a].name = n
      <4>1. Dropped(n, b, 1)
        BY <1>2, <2>2 DEF GhostInv
      <4>. QED BY <1>5, <1>8, <3>4, <4>1
    <3>5. CASE /\ a \in Known(agg) /\ agg'[a].name = agg[a].name
               /\ agg'[a].source = agg[a].source
      <4>1. Dropped(agg[a].name, a, 0)
        BY <1>8, <3>5 DEF GhostInv
      <4>2. ASSUME Clears(e, agg[a].name, a) PROVE FALSE
        <5>1. agg[a].name = n /\ b # a /\ Rank[b] <= Rank[a] /\ a \in Named(agg, n)
          BY <2>2, <3>5, <4>2 DEF Clears, Named
        <5>2. \A old \in Named(agg, n) : old = a
          BY <3>5, <5>1 DEF Named, AtOneAddress
        <5>3. CASE Refreshes(agg, n, b, "udp", r)
          <6>1. b \in Known(agg)
            BY <3>1, <5>3 DEF Refreshes, Known
          <6>2. agg[b].name # n
            BY <3>5, <5>1, <6>1 DEF AtOneAddress
          <6>. QED BY <3>1, <3>5, <5>1, <6>1, <6>2 DEF NamesUndisputed
        <5>4. CASE Adds(agg, n, b, "udp", r)
          BY <5>1, <5>4 DEF Adds
        <5>5. CASE Moves(agg, n, b, "udp", a, r)
          <6>1. agg' = [Put(agg, n, b, "udp") EXCEPT ![a] = Nothing] /\ a \in Addr
            BY <3>2, <3>5, <5>5 DEF Moves, Known
          <6>2. agg'[a] = Nothing
            BY <6>1 DEF Put, TrackersTyped, Tracker
          <6>. QED BY <1>8, <6>2 DEF Known
        <5>6. CASE Keeps(agg, b, a, r)
          BY <5>1, <5>6 DEF Keeps
        <5>7. agg \in Tracker
          BY DEF TrackersTyped
        <5>8. \/ Refreshes(agg, n, b, "udp", r) \/ Adds(agg, n, b, "udp", r)
              \/ \E old \in Named(agg, n) :
                   Moves(agg, n, b, "udp", old, r) \/ Keeps(agg, b, old, r)
          BY <3>1, <3>2, <5>7, RecordedCases
        <5>. QED BY <5>2, <5>3, <5>4, <5>5, <5>6, <5>8
      <4>. QED BY <1>6, <1>8, <3>5, <4>1, <4>2
    <3>. QED BY <3>3, <3>4, <3>5
  <2>. QED BY <2>1, <2>2
<1>. QED BY <1>7, <1>8 DEF GhostInv

(* The sources and the queue stay, and what is left in the aggregate       *)
(* tracker with the source "udp" was there before.                         *)
LEMMA FewerGhosts ==
  ASSUME GhostInv, UNCHANGED <<resolved, queue>>,
         \A n, a : a \in Named(udp', n) <=> a \in Named(udp, n),
         \A a \in Known(agg') : agg'[a].source = "udp" =>
           a \in Known(agg) /\ agg'[a].name = agg[a].name /\ agg'[a].source = agg[a].source
  PROVE  GhostInv'
<1>1. \A n, a, k : Dropped(n, a, k)' <=> Dropped(n, a, k)
  BY DEF Dropped, HasSource, Clears
<1>2. ASSUME NEW a \in Known(agg'), agg'[a].source = "udp", NEW n, n = agg'[a].name
      PROVE  Dropped(n, a, 0)'
  BY <1>1, <1>2 DEF GhostInv
<1>3. ASSUME NEW k \in DOMAIN queue', queue'[k].kind # "lost",
             NEW n, n = queue'[k].name, NEW a, a = queue'[k].addr
      PROVE  Dropped(n, a, k)'
  BY <1>1, <1>3 DEF GhostInv
<1>. QED BY <1>2, <1>3 DEF GhostInv

LEMMA HeartbeatSources ==
  ASSUME DevicesApart, TrackersTyped, TrackersPlaced,
         NEW d \in Device, NEW a \in Sources[d], NEW r \in Recorded(udp, d, a, "udp")
  PROVE  /\ \A n \in Device : \A b \in Named(udp, n) :
              b \in Named(r.tracker, n) \/ \E j \in DOMAIN r.says : Clears(r.says[j], n, b)
         /\ r.says # <<>> => a \in Named(r.tracker, d)
<1>0. a \in Addr /\ udp \in Tracker /\ d \in Name
  BY NamesOfAddresses DEF TrackersTyped
<1>. DEFINE entry == [name |-> d, source |-> "udp", age |-> 0]
<1>1. entry \in Entry /\ entry # Nothing /\ entry.name = d
  BY <1>0, TTLAssumption, NothingAssumption DEF Entry, UdpTTL
<1>2. \A b \in Addr : Put(udp, d, a, "udp")[b] = IF b = a THEN entry ELSE udp[b]
  BY <1>0 DEF Put, Tracker
<1>3. ASSUME r.tracker = Put(udp, d, a, "udp"), udp[a] # Nothing => udp[a].name = d
      PROVE  /\ \A n \in Device : \A b \in Named(udp, n) : b \in Named(r.tracker, n)
             /\ a \in Named(r.tracker, d)
  BY <1>0, <1>1, <1>2, <1>3 DEF Named, Known
<1>4. CASE Refreshes(udp, d, a, "udp", r)
  <2>1. a \in Known(udp)
    BY <1>0, <1>4 DEF Refreshes, Known
  <2>2. udp[a].name = d
    BY <2>1 DEF TrackersPlaced, DevicesApart, HeardAt
  <2>. QED BY <1>3, <1>4, <2>2 DEF Refreshes
<1>5. CASE Adds(udp, d, a, "udp", r)
  BY <1>3, <1>5 DEF Adds
<1>6. ASSUME NEW old \in Named(udp, d), Moves(udp, d, a, "udp", old, r)
      PROVE  /\ \A n \in Device : \A b \in Named(udp, n) :
                  b \in Named(r.tracker, n) \/ \E j \in DOMAIN r.says : Clears(r.says[j], n, b)
             /\ a \in Named(r.tracker, d)
  <2>1. old \in Addr /\ old # a /\ udp[old].name = d
    BY <1>6 DEF Moves, Named, Known
  <2>2. \A b \in Addr : r.tracker[b] = IF b = old THEN Nothing
                                       ELSE IF b = a THEN entry ELSE udp[b]
    BY <1>0, <1>2, <1>6, <2>1 DEF Moves, Put, Tracker
  <2>3. \A n \in Device : \A b \in Named(udp, n) : b = old \/ b \in Named(r.tracker, n)
    BY <1>6, <2>2 DEF Moves, Named, Known
  <2>4. a \in Named(r.tracker, d)
    BY <1>0, <1>1, <2>1, <2>2 DEF Named, Known
  <2>5. Clears(r.says[1], d, old) /\ 1 \in DOMAIN r.says
    BY <1>6, <2>1 DEF Moves, Clears, Said
  <2>. QED BY <2>1, <2>3, <2>4, <2>5 DEF Named
<1>7. ASSUME NEW old \in Named(udp, d), Keeps(udp, a, old, r)
      PROVE  /\ \A n \in Device : \A b \in Named(udp, n) : b \in Named(r.tracker, n)
             /\ r.says = <<>>
  <2>1. \A b \in Known(udp) : r.tracker[b] # Nothing /\ r.tracker[b].name = udp[b].name
    BY <1>0, <1>7, KeptEntry DEF Keeps, Named, Known
  <2>. QED BY <1>7, <2>1 DEF Keeps, Named, Known
<1>. QED BY <1>0, <1>4, <1>5, <1>6, <1>7, RecordedCases

LEMMA GhostStep ==
  ASSUME NamesUndisputed, DevicesApart, OneAdvertised,
         TypeOK, TrackersPlaced, AtOneAddress(agg), GhostInv, [Next]_vars
  PROVE  GhostInv'
<1>. USE DEF trackerVars, viewVars, deviceVars
<1>0. TrackersTyped
  BY TypeParts
<1>1. CASE UNCHANGED trackerVars
  BY <1>1, FewerGhosts
<1>2. ASSUME NEW d \in Device, NEW a \in Addr, Heartbeat(d, a) PROVE GhostInv'
  <2>1. PICK r \in Recorded(udp, d, a, "udp") : udp' = r.tracker /\ Send(r.says)
    BY <1>2 DEF Heartbeat
  <2>2. a \in Sources[d] /\ UNCHANGED <<resolved, agg>>
    BY <1>2 DEF Heartbeat
  <2>3. /\ r.says \in Seq(Event)
        /\ \A j \in DOMAIN r.says : r.says[j].name = d /\ r.says[j].addr = a
    BY <1>0, <2>1, NamesOfAddresses, RecordedSays DEF TrackersTyped
  <2>4. /\ \A n \in Device : \A b \in Named(udp, n) :
              b \in Named(udp', n) \/ \E j \in DOMAIN r.says : Clears(r.says[j], n, b)
        /\ r.says # <<>> => a \in Named(udp', d)
    BY <1>0, <2>1, <2>2, HeartbeatSources
  <2>5. \A n \in Device, b \in Addr :
          HasSource(n, b) => HasSource(n, b)' \/ \E j \in DOMAIN r.says : Clears(r.says[j], n, b)
    BY <2>2, <2>4 DEF HasSource
  <2>6. \A j \in DOMAIN r.says : HasSource(r.says[j].name, r.says[j].addr)'
    <3>1. \A j \in DOMAIN r.says : r.says # <<>>
      OBVIOUS
    <3>. QED BY <2>3, <2>4, <3>1 DEF HasSource
  <2>. QED BY <1>0, <2>1, <2>2, <2>3, <2>5, <2>6, SendKeepsDropped
<1>3. CASE UdpPrune
  <2>1. PICK es \in LostEvents(udp, UdpExpired) : Send(es)
    BY <1>3 DEF UdpPrune
  <2>2. UdpExpired \in SUBSET Known(udp)
    BY DEF UdpExpired
  <2>3. /\ es \in Seq(Event)
        /\ \A i \in DOMAIN es : es[i].kind = "lost" /\ es[i].name = udp[es[i].addr].name
        /\ \A b \in UdpExpired : \E i \in DOMAIN es : es[i].addr = b
    BY <1>0, <2>1, <2>2, LostSaid DEF TrackersTyped
  <2>4. \A n, b : b \in Named(udp, n) => b \in Named(udp', n) \/ b \in UdpExpired
    BY <1>3 DEF UdpPrune, Without, Named, Known
  <2>5. \A n \in Device, b \in Addr :
          HasSource(n, b) => HasSource(n, b)' \/ \E j \in DOMAIN es : Clears(es[j], n, b)
    <3>1. ASSUME NEW n, NEW b \in Named(udp, n), b \in UdpExpired
          PROVE  \E j \in DOMAIN es : Clears(es[j], n, b)
      BY <2>3, <3>1 DEF Clears, Named
    <3>. QED BY <1>3, <2>4, <3>1 DEF HasSource, UdpPrune
  <2>6. UNCHANGED agg
    BY <1>3 DEF UdpPrune
  <2>. QED BY <1>0, <2>1, <2>3, <2>5, <2>6, SendKeepsDropped
<1>4. ASSUME NEW d \in Device, NEW a \in Addr, ServiceResolved(d, a) PROVE GhostInv'
  <2>. DEFINE es == <<[kind |-> "discovered", name |-> d, addr |-> a]>>
  <2>1. es \in Seq(Event) /\ \A j \in DOMAIN es : es[j].name = d /\ es[j].addr = a
    BY NamesOfAddresses DEF Event
  <2>2. /\ Send(es) /\ a \in Advertised[d]
        /\ resolved' = [resolved EXCEPT ![d] = a] /\ UNCHANGED <<udp, agg>>
    BY <1>4 DEF ServiceResolved
  <2>3. resolved'[d] = a /\ \A c \in Device : c # d => resolved'[c] = resolved[c]
    BY <1>0, <2>2 DEF TrackersTyped
  <2>4. \A b \in Addr : resolved[d] = b => b = a
    BY <2>2, NothingAssumption DEF TrackersPlaced, OneAdvertised
  <2>5. \A n \in Device, b \in Addr : HasSource(n, b) => HasSource(n, b)'
    BY <2>2, <2>3, <2>4 DEF HasSource, Named, Known
  <2>6. \A j \in DOMAIN es : HasSource(es[j].name, es[j].addr)'
    BY <2>1, <2>3 DEF HasSource
  <2>. HIDE DEF es
  <2>. QED BY <1>0, <2>1, <2>2, <2>5, <2>6, SendKeepsDropped
<1>5. ASSUME NEW d \in Device, ServiceRemoved(d) PROVE GhostInv'
  <2>. DEFINE es == <<[kind |-> "lost", name |-> d, addr |-> resolved[d]]>>
  <2>1. /\ es \in Seq(Event) /\ 1 \in DOMAIN es /\ Clears(es[1], d, resolved[d])
        /\ \A j \in DOMAIN es : es[j].kind = "lost"
    BY <1>0, <1>5, NamesOfAddresses DEF ServiceRemoved, TrackersTyped, Event, Clears
  <2>2. /\ Send(es) /\ resolved' = [resolved EXCEPT ![d] = Nothing] /\ UNCHANGED <<udp, agg>>
    BY <1>5 DEF ServiceRemoved
  <2>3. \A c \in Device : c # d => resolved'[c] = resolved[c]
    BY <1>0, <2>2 DEF TrackersTyped
  <2>. HIDE DEF es
  <2>4. \A n \in Device, b \in Addr :
          HasSource(n, b) => HasSource(n, b)' \/ \E j \in DOMAIN es : Clears(es[j], n, b)
    BY <2>1, <2>2, <2>3 DEF HasSource, Named, Known
  <2>. QED BY <1>0, <2>1, <2>2, <2>4, SendKeepsDropped
<1>6. CASE Aggregate
  BY <1>0, <1>6, AggregateKeepsDropped
<1>7. CASE Reap
  <2>1. \A b \in Known(agg') : b \in Known(agg) /\ agg'[b] = agg[b]
    BY <1>7 DEF Reap, Without, Known
  <2>2. UNCHANGED <<resolved, udp, queue>>
    BY <1>7 DEF Reap
  <2>. QED BY <2>1, <2>2, FewerGhosts
<1>8. CASE Tick
  <2>1. UNCHANGED <<resolved, queue>>
    BY <1>8 DEF Tick
  <2>2. \A n, a : a \in Named(udp', n) <=> a \in Named(udp, n)
    BY <1>8, TickKeepsEntries DEF Named
  <2>3. \A b \in Known(agg') : /\ b \in Known(agg) /\ agg'[b].name = agg[b].name
                               /\ agg'[b].source = agg[b].source
    BY <1>8, TickKeepsEntries
  <2>. QED BY <2>1, <2>2, <2>3, FewerGhosts
<1>9. ASSUME NEW a \in ManualAddr,
             AddManual(a, ManualName[a]) \/ AddManual(a, ProbedName[a])
      PROVE  GhostInv'
  <2>1. PICK r \in Recorded(agg, ManualName[a], a, "manual") : agg' = r.tracker
    BY <1>9 DEF AddManual, RecordManual
  <2>2. \A b \in Known(agg') :
          \/ b = a /\ agg'[b].name = ManualName[a] /\ agg'[b].source = "manual"
          \/ /\ b \in Known(agg)
             /\ agg'[b].name = agg[b].name /\ agg'[b].source = agg[b].source
    BY <1>0, <2>1, ManualAssumption, NamesOfAddresses, RecordedEntries DEF TrackersTyped
  <2>3. UNCHANGED <<resolved, udp, queue>>
    BY <1>9 DEF AddManual
  <2>. QED BY <2>2, <2>3, FewerGhosts
<1>10. CASE \E d \in Device : Join(d) \/ Leave(d)
  BY <1>1, <1>10 DEF Join, Leave
<1>11. CASE Forward \/ Fetch \/ Fetched \/ Subscribe \/ ManualAnswered
  BY <1>1, <1>11 DEF Forward, Fetch, Fetched, Subscribe, ManualAnswered
<1>12. CASE \E p \in list : Select(p)
  BY <1>1, <1>12 DEF Select
<1>13. CASE UNCHANGED vars
  BY <1>1, <1>13 DEF vars
<1>. QED
  BY <1>2, <1>3, <1>4, <1>5, <1>6, <1>7, <1>8, <1>9, <1>10, <1>11, <1>12, <1>13 DEF Next

(***************************************************************************)
(* The selection is listed                                                 *)
(***************************************************************************)
(* An address that is listed under two identities, in turn, is the only    *)
(* one of each.  Otherwise an entry with the address of the selected peer  *)
(* can move to another address under its own identity, and the selection   *)
(* stays behind.                                                           *)
IdentitiesUndisputed ==
  \A p, q, r \in Peer :
    /\ Owned(p) /\ Owned(q) /\ Owned(r)
    /\ p.addr = q.addr /\ Identity(p) # Identity(q) /\ Identity(r) = Identity(q)
    => r.addr = q.addr

LEMMA PeerAtOwned ==
  ASSUME NEW n \in Name, NEW a \in Places(n)
  PROVE  PeerAt(n, a) \in Peer /\ Owned(PeerAt(n, a)) /\ PeerAt(n, a).addr = a
<1>1. a \in Addr
  BY DEF Places
<1>2. PeerAt(n, a) \in Peer /\ PeerAt(n, a).addr = a
  BY <1>1, PeerTyped DEF PeerAt
<1>3. CASE n \in Device
  <2>1. PeerAt(n, a).id = n /\ n # Nothing
    BY <1>3, NothingAssumption DEF PeerAt
  <2>. QED BY <1>2, <2>1 DEF Owned
<1>4. CASE n \notin Device
  <2>1. PeerAt(n, a).id = Nothing /\ PeerAt(n, a).name = n
    BY <1>4 DEF PeerAt
  <2>2. a \in ManualAddr /\ n = ManualName[a]
    BY <1>4 DEF Places
  <2>. QED BY <1>2, <2>1, <2>2 DEF Owned
<1>. QED BY <1>2, <1>3, <1>4

LEMMA MergedOwned ==
  ASSUME NEW p \in Peer, NEW q \in Peer, Owned(p), Owned(q), Matches(q, p)
  PROVE  /\ Merged(q, p) \in Peer /\ Owned(Merged(q, p))
         /\ Merged(q, p).addr = p.addr
<1>1. /\ Merged(q, p) \in Peer /\ Merged(q, p).addr = p.addr /\ Merged(q, p).name = p.name
      /\ Merged(q, p).id = IF p.id = Nothing THEN q.id ELSE p.id
  BY PeerTyped DEF Merged, Peer
<1>2. CASE p.id # Nothing \/ q.id = Nothing
  BY <1>1, <1>2 DEF Owned
<1>3. CASE p.id = Nothing /\ q.id # Nothing
  <2>1. Identity(p) = <<"name", p.name>> /\ Identity(q) = <<"id", q.id>>
    BY <1>3 DEF Identity
  <2>2. q.addr = p.addr
    BY <2>1 DEF Matches
  <2>. QED BY <1>1, <1>3, <2>2 DEF Owned
<1>. QED BY <1>1, <1>2, <1>3

LEMMA UpsertOwned ==
  ASSUME list \subseteq Peer, \A q \in list : Owned(q), selected # Nothing => Owned(selected),
         NEW p \in Peer, Owned(p), Upsert(p)
  PROVE  (\A q \in list : Owned(q))' /\ (selected # Nothing => Owned(selected))'
<1>1. CASE list' = list \cup {p} /\ (selected' = p \/ selected' = selected)
  BY <1>1 DEF Owned
<1>2. ASSUME NEW q \in list, Matches(q, p), list' = (list \ {q}) \cup {Merged(q, p)},
             selected' = Merged(q, p) \/ selected' = selected
      PROVE  (\A o \in list : Owned(o))' /\ (selected # Nothing => Owned(selected))'
  <2>1. Owned(Merged(q, p))
    BY <1>2, MergedOwned
  <2>. QED BY <1>2, <2>1 DEF Owned
<1>. QED BY <1>1, <1>2 DEF Upsert

LEMMA ViewOwnedStep ==
  ASSUME TypeOK, TrackersPlaced, ViewOwned, [Next]_vars PROVE ViewOwned'
<1>. USE DEF trackerVars, viewVars, deviceVars
<1>0. TrackersTyped /\ ViewTyped
  BY TypeParts
<1>1. CASE UNCHANGED <<fetched, answer, viewVars>>
  BY <1>1 DEF ViewOwned, Owned
<1>2. ASSUME NEW a \in ManualAddr, NEW n \in {ManualName[a], ProbedName[a]}, AddManual(a, n)
      PROVE  ViewOwned'
  <2>1. answer' = [id |-> Nothing, name |-> n, addr |-> a] /\ UNCHANGED <<fetched, viewVars>>
    BY <1>2 DEF AddManual
  <2>2. Owned(answer')
    BY <1>2, <2>1 DEF Owned
  <2>. QED BY <2>1, <2>2 DEF ViewOwned, Owned
<1>3. CASE Forward
  <2>. DEFINE e == Head(events)  p == PeerAt(e.name, e.addr)
  <2>1. /\ events \in Seq(Event) /\ events # <<>> /\ UNCHANGED <<fetched, answer>>
        /\ UNCHANGED viewVars \/ RemovePeer(p) \/ Upsert(p)
    BY <1>0, <1>3 DEF Forward, TrackersTyped
  <2>2. e \in Event /\ e = events[1] /\ 1 \in DOMAIN events
    BY <2>1, TailTyped
  <2>3. e.name \in Name /\ e.addr \in Places(e.name)
    BY <2>2 DEF TrackersPlaced, Event
  <2>4. p \in Peer /\ Owned(p)
    BY <2>3, PeerAtOwned
  <2>. HIDE DEF p
  <2>5. CASE UNCHANGED viewVars
    BY <1>1, <2>1, <2>5
  <2>6. CASE RemovePeer(p)
    BY <2>1, <2>6 DEF RemovePeer, ViewOwned, Owned
  <2>7. CASE Upsert(p)
    BY <1>0, <2>1, <2>4, <2>7, UpsertOwned DEF ViewOwned, ViewTyped, Owned
  <2>. QED BY <2>1, <2>5, <2>6, <2>7
<1>4. CASE Fetch
  <2>1. \A a \in Known(agg) : agg[a].name \in Name /\ a \in Places(agg[a].name)
    BY <1>0, PlacedIsPlace DEF TrackersPlaced, TrackersTyped, Tracker, Known, Entry
  <2>2. fetched' = {PeerAt(agg[a].name, a) : a \in Known(agg)} /\ UNCHANGED <<answer, viewVars>>
    BY <1>4 DEF Fetch
  <2>3. \A p \in fetched' : Owned(p)
    BY <2>1, <2>2, PeerAtOwned
  <2>. QED BY <2>2, <2>3 DEF ViewOwned, Owned
<1>5. CASE Fetched
  <2>1. /\ fetched # Nothing /\ list' \subseteq fetched /\ fetched' = Nothing
        /\ UNCHANGED answer /\ (selected' = Nothing \/ selected' \in fetched)
    BY <1>5 DEF Fetched, SetPeerList
  <2>. QED BY <2>1 DEF ViewOwned, Owned
<1>6. CASE ManualAnswered
  <2>1. /\ answer \in Peer /\ Owned(answer) /\ Upsert(answer)
        /\ answer' = Nothing /\ UNCHANGED fetched
    BY <1>0, <1>6 DEF ManualAnswered, ViewTyped, ViewOwned
  <2>2. (\A q \in list : Owned(q))' /\ (selected # Nothing => Owned(selected))'
    BY <1>0, <2>1, UpsertOwned DEF ViewOwned, ViewTyped
  <2>. QED BY <2>1, <2>2 DEF ViewOwned, Owned
<1>7. ASSUME NEW p \in list, Select(p) PROVE ViewOwned'
  <2>1. UNCHANGED <<fetched, answer, list>> /\ selected' \in {p, Nothing}
    BY <1>7 DEF Select
  <2>. QED BY <2>1 DEF ViewOwned, Owned
<1>8. CASE \E d \in Device : Join(d) \/ Leave(d) \/ ServiceRemoved(d)
  BY <1>1, <1>8 DEF Join, Leave, ServiceRemoved
<1>9. CASE \E d \in Device, a \in Addr : Heartbeat(d, a) \/ ServiceResolved(d, a)
  BY <1>1, <1>9 DEF Heartbeat, ServiceResolved
<1>10. CASE UdpPrune \/ Aggregate \/ Reap \/ Tick \/ Subscribe
  BY <1>1, <1>10 DEF UdpPrune, Aggregate, Reap, Tick, Subscribe
<1>11. CASE UNCHANGED vars
  BY <1>1, <1>11 DEF vars
<1>. QED
  BY <1>2, <1>3, <1>4, <1>5, <1>6, <1>7, <1>8, <1>9, <1>10, <1>11 DEF Next

(* An entry that is put moves the selection with it, or does not take the  *)
(* place of the selected one.                                              *)
LEMMA UpsertKeepsListed ==
  ASSUME IdentitiesUndisputed, list \subseteq Peer, \A q \in list : Owned(q),
         selected # Nothing => selected \in Peer /\ Owned(selected),
         SelectedListed, NEW p \in Peer, Owned(p), Upsert(p)
  PROVE  SelectedListed'
<1>. DEFINE same == {q \in list : Matches(q, p)}
<1>1. ASSUME list' = list \cup {p},
             selected' = IF selected # Nothing /\ Identity(selected) = Identity(p)
                           THEN p ELSE selected
      PROVE  SelectedListed'
  BY <1>1 DEF SelectedListed
<1>2. ASSUME NEW q \in same, list' = (list \ {q}) \cup {Merged(q, p)},
             selected' = IF selected # Nothing /\ Identity(selected) = Identity(p)
                           THEN Merged(q, p) ELSE selected
      PROVE  SelectedListed'
  <2>1. q \in list /\ q \in Peer /\ Owned(q) /\ Matches(q, p)
    OBVIOUS
  <2>2. Merged(q, p).addr = p.addr
    BY <2>1, MergedOwned
  <2>3. CASE selected = Nothing
    BY <1>2, <2>3 DEF SelectedListed
  <2>4. CASE selected # Nothing /\ Identity(selected) = Identity(p)
    BY <1>2, <2>4 DEF SelectedListed
  <2>5. CASE selected # Nothing /\ Identity(selected) # Identity(p)
    <3>1. PICK w \in list : w.addr = selected.addr
      BY <2>5 DEF SelectedListed
    <3>2. selected' = selected
      BY <1>2, <2>5
    <3>3. CASE w # q
      BY <1>2, <3>1, <3>2, <3>3 DEF SelectedListed
    <3>4. CASE w = q
      <4>1. q.addr = p.addr
        <5>1. CASE Identity(q) = Identity(p)
          BY <2>1, <2>5, <3>1, <3>4, <5>1 DEF IdentitiesUndisputed
        <5>2. CASE Identity(q) # Identity(p)
          BY <2>1, <5>2 DEF Matches
        <5>. QED BY <5>1, <5>2
      <4>. QED BY <1>2, <2>2, <3>1, <3>2, <3>4, <4>1 DEF SelectedListed
    <3>. QED BY <3>3, <3>4
  <2>. QED BY <2>3, <2>4, <2>5
<1>. QED BY <1>1, <1>2 DEF Upsert

LEMMA RemoveKeepsListed ==
  ASSUME IdentitiesUndisputed, list \subseteq Peer, \A q \in list : Owned(q),
         selected # Nothing => selected \in Peer /\ Owned(selected),
         SelectedListed, NEW p \in Peer, Owned(p), RemovePeer(p)
  PROVE  SelectedListed'
<1>1. CASE selected' = Nothing
  BY <1>1 DEF SelectedListed
<1>2. CASE selected # Nothing /\ ~Matches(selected, p) /\ selected' = selected
  <2>1. PICK w \in list : w.addr = selected.addr
    BY <1>2 DEF SelectedListed
  <2>2. ~Matches(w, p)
    <3>1. CASE w.addr = p.addr
      BY <1>2, <2>1, <3>1 DEF Matches
    <3>2. CASE Identity(w) = Identity(p) /\ w.addr # p.addr
      <4>1. Identity(selected) # Identity(w)
        BY <1>2, <3>2 DEF Matches
      <4>. QED BY <1>2, <2>1, <3>2, <4>1 DEF IdentitiesUndisputed
    <3>. QED BY <3>1, <3>2 DEF Matches
  <2>3. w \in list'
    BY <2>2 DEF RemovePeer
  <2>. QED BY <1>2, <2>1, <2>3 DEF SelectedListed
<1>. QED BY <1>1, <1>2 DEF RemovePeer

LEMMA SelectedStep ==
  ASSUME IdentitiesUndisputed, TypeOK, TrackersPlaced, ViewOwned, SelectedListed, [Next]_vars
  PROVE  SelectedListed'
<1>. USE DEF trackerVars, viewVars, deviceVars
<1>0. /\ TrackersTyped /\ ViewTyped /\ list \subseteq Peer /\ \A q \in list : Owned(q)
      /\ selected # Nothing => selected \in Peer /\ Owned(selected)
  BY TypeParts DEF ViewTyped, ViewOwned
<1>1. CASE UNCHANGED viewVars
  BY <1>1 DEF SelectedListed
<1>2. CASE Forward
  <2>. DEFINE e == Head(events)  p == PeerAt(e.name, e.addr)
  <2>1. /\ events \in Seq(Event) /\ events # <<>>
        /\ UNCHANGED viewVars \/ RemovePeer(p) \/ Upsert(p)
    BY <1>0, <1>2 DEF Forward, TrackersTyped
  <2>2. e \in Event /\ e = events[1] /\ 1 \in DOMAIN events
    BY <2>1, TailTyped
  <2>3. e.name \in Name /\ e.addr \in Places(e.name)
    BY <2>2 DEF TrackersPlaced, Event
  <2>4. p \in Peer /\ Owned(p)
    BY <2>3, PeerAtOwned
  <2>. HIDE DEF p
  <2>. QED BY <1>0, <1>1, <2>1, <2>4, UpsertKeepsListed, RemoveKeepsListed
<1>3. CASE Fetched
  BY <1>3 DEF Fetched, SetPeerList, SelectedListed
<1>4. CASE ManualAnswered
  <2>1. answer \in Peer /\ Owned(answer) /\ Upsert(answer)
    BY <1>0, <1>4 DEF ManualAnswered, ViewTyped, ViewOwned
  <2>. QED BY <1>0, <2>1, UpsertKeepsListed
<1>5. ASSUME NEW p \in list, Select(p) PROVE SelectedListed'
  BY <1>5 DEF Select, SelectedListed
<1>6. CASE \E d \in Device : Join(d) \/ Leave(d) \/ ServiceRemoved(d)
  BY <1>1, <1>6 DEF Join, Leave, ServiceRemoved
<1>7. CASE \E d \in Device, a \in Addr : Heartbeat(d, a) \/ ServiceResolved(d, a)
  BY <1>1, <1>7 DEF Heartbeat, ServiceResolved
<1>8. CASE UdpPrune \/ Aggregate \/ Reap \/ Tick \/ Subscribe \/ Fetch
  BY <1>1, <1>8 DEF UdpPrune, Aggregate, Reap, Tick, Subscribe, Fetch
<1>9. ASSUME NEW a \in ManualAddr, NEW n, AddManual(a, n) PROVE SelectedListed'
  BY <1>1, <1>9 DEF AddManual
<1>10. CASE UNCHANGED vars
  BY <1>1, <1>10 DEF vars
<1>. QED BY <1>2, <1>3, <1>4, <1>5, <1>6, <1>7, <1>8, <1>9, <1>10 DEF Next

(***************************************************************************)
(* The list agrees                                                         *)
(***************************************************************************)
(* Nobody shares an address or a name: devices, and manual addresses under *)
(* either of their names.                                                  *)
OneOwner ==
  /\ DevicesApart
  /\ \A d \in Device : HeardAt(d) \cap ManualAddr = {}
  /\ \A a \in ManualAddr : ManualName[a] \notin Device
  /\ \A a, b \in ManualAddr :
       a # b => {ManualName[a], ProbedName[a]} \cap {ManualName[b], ProbedName[b]} = {}

(* A device is found one way.                                              *)
OneSource == \A d \in Device : Sources[d] = {} \/ Advertised[d] = {}

(* The frontend hears every event, in order, behind the list it fetched.   *)
Orderly == Faults \cap {"lag", "early", "overtake"} = {}

(* Where the source of a device has it.                                    *)
SourceAt(d) == Named(udp, d) \cup ({resolved[d]} \ {Nothing})

(* Where an event leaves its name, and where the name may be before it.    *)
Left(e) == IF e.kind = "lost" THEN {} ELSE {e.addr}

Fits(e, here) ==
  CASE e.kind = "lost"       -> here = {e.addr}
    [] e.kind = "discovered" -> here \subseteq {e.addr}
    [] e.kind = "updated"    -> \E b \in here : here = {b} /\ Rank[e.addr] <= Rank[b]

(* The queue tells of each device in one chain, from where the aggregate   *)
(* tracker has it, place 0, to where its source has it.                    *)
Place(d, j) == IF j = 0 THEN Named(agg, d) ELSE Left(queue[j])

Before(d, j, i) ==
  /\ j \in 0..(i - 1) /\ (j = 0 \/ queue[j].name = d)
  /\ \A k \in (j + 1)..(i - 1) : queue[k].name # d

Chained(d) ==
  /\ \A i \in 1..Len(queue) : queue[i].name = d =>
       \A j \in 0..(i - 1) : Before(d, j, i) => Fits(queue[i], Place(d, j))
  /\ \A j \in 0..Len(queue) : Before(d, j, Len(queue) + 1) => SourceAt(d) = Place(d, j)

(* The last event on its way about a name tells where the aggregate        *)
(* tracker has it.  Where there is none, the frontend shows it there, or   *)
(* will when it takes over the list it has fetched.                        *)
EventsAgree ==
  \A i \in DOMAIN events :
    (\A j \in DOMAIN events : j > i => events[j].name # events[i].name) =>
      Named(agg, events[i].name) = Left(events[i])

Quiet(n) == \A i \in DOMAIN events : events[i].name # n

Addrs(peers) == {p.addr : p \in peers}
Shows(peers, n) == Addrs(peers) \cap Places(n) = Named(agg, n)

ViewAgrees ==
  \A n \in Name : Quiet(n) =>
    IF fetched # Nothing THEN Shows(fetched, n) ELSE phase # "boot" => Shows(list, n)

(* An owner is listed once.                                                *)
Single(peers) ==
  \A n \in Name : \A p, q \in peers : p.addr \in Places(n) /\ q.addr \in Places(n) => p = q

EntriesSingle == Single(list) /\ (fetched # Nothing => Single(fetched))

(* A manual peer that is about to be listed is in the aggregate tracker,   *)
(* and as young as the command that added it.                              *)
AnswerKnown ==
  answer # Nothing =>
    answer.id = Nothing /\ agg[answer.addr] # Nothing /\ agg[answer.addr].age = 0

AgreeInv ==
  /\ \A d \in Device : Chained(d)
  /\ EventsAgree /\ ViewAgrees /\ EntriesSingle /\ AnswerKnown

LEMMA DevicePlaces ==
  ASSUME OneOwner, NEW d \in Device PROVE Places(d) = HeardAt(d)
<1>1. HeardAt(d) \subseteq Addr
  BY NamesOfAddresses DEF HeardAt
<1>2. \A a \in ManualAddr : d # ManualName[a]
  BY DEF OneOwner
<1>. QED BY <1>1, <1>2 DEF Places

LEMMA ManualPlaces ==
  ASSUME OneOwner, NEW a \in ManualAddr
  PROVE  Places(ManualName[a]) = {a} /\ ManualName[a] \notin Device /\ ManualName[a] \in Name
<1>1. a \in Addr /\ ManualName[a] \notin Device
  BY ManualAssumption DEF OneOwner
<1>2. \A b \in ManualAddr : ManualName[a] = ManualName[b] => a = b
  BY DEF OneOwner
<1>. QED BY <1>1, <1>2, NamesOfAddresses DEF Places

LEMMA PlacesApart ==
  ASSUME OneOwner, NEW n, NEW m, NEW a, a \in Places(n), a \in Places(m)
  PROVE  n = m
<1>1. CASE a \in ManualAddr
  <2>1. \A d \in Device : a \notin HeardAt(d)
    BY <1>1 DEF OneOwner
  <2>. QED BY <2>1 DEF Places
<1>2. CASE a \notin ManualAddr
  BY <1>2 DEF Places, OneOwner, DevicesApart
<1>. QED BY <1>1, <1>2

LEMMA OwnersUndisputed ==
  ASSUME OneOwner PROVE NamesUndisputed
BY PlacesApart DEF NamesUndisputed

LEMMA NamedInPlace ==
  ASSUME TrackersTyped, TrackersPlaced, NEW n
  PROVE  /\ Named(agg, n) \subseteq Places(n) /\ Named(udp, n) \subseteq Places(n)
         /\ Named(agg, n) \subseteq Addr
<1>1. Named(agg, n) \subseteq Places(n)
  BY PlacedIsPlace DEF TrackersPlaced, Named, Known
<1>2. Named(udp, n) \subseteq Places(n)
  BY DEF TrackersPlaced, Named, Known, Places, HeardAt
<1>. QED BY <1>1, <1>2 DEF Named, Known

(* Entries of one owner are those that match.                              *)
LEMMA OwnedMatches ==
  ASSUME OneOwner, NEW p \in Peer, NEW q \in Peer, Owned(p), Owned(q),
         NEW n \in Name, p.addr \in Places(n)
  PROVE  Matches(q, p) <=> q.addr \in Places(n)
<1>1. CASE p.id # Nothing
  <2>1. p.addr \in Places(p.id) /\ p.id \in Device
    BY <1>1 DEF Owned, Peer
  <2>2. n = p.id
    BY <2>1, PlacesApart
  <2>3. Identity(p) = <<"id", n>>
    BY <1>1, <2>2 DEF Identity
  <2>4. CASE q.id # Nothing
    <3>1. q.addr \in Places(q.id) /\ Identity(q) = <<"id", q.id>>
      BY <2>4 DEF Owned, Identity
    <3>2. Identity(q) = Identity(p) <=> q.id = n
      BY <2>3, <3>1
    <3>3. q.addr \in Places(n) <=> q.id = n
      BY <3>1, PlacesApart
    <3>4. q.addr = p.addr => q.id = n
      BY <3>1, PlacesApart
    <3>. QED BY <3>2, <3>3, <3>4 DEF Matches
  <2>5. CASE q.id = Nothing
    <3>1. q.addr \in ManualAddr /\ Identity(q) = <<"name", q.name>>
      BY <2>5 DEF Owned, Identity
    <3>2. q.addr \notin HeardAt(n) /\ Places(n) = HeardAt(n)
      BY <2>1, <2>2, <3>1, DevicePlaces DEF OneOwner
    <3>3. Identity(q) # Identity(p)
      BY <2>3, <3>1
    <3>. QED BY <2>1, <2>2, <3>2, <3>3 DEF Matches
  <2>. QED BY <2>4, <2>5
<1>2. CASE p.id = Nothing
  <2>1. p.addr \in ManualAddr /\ p.name \in {ManualName[p.addr], ProbedName[p.addr]}
    BY <1>2 DEF Owned
  <2>2. n = ManualName[p.addr] /\ Places(n) = {p.addr}
    BY <2>1, ManualPlaces, PlacesApart
  <2>3. ASSUME Identity(q) = Identity(p) PROVE q.addr = p.addr
    <3>1. q.id = Nothing /\ q.name = p.name
      BY <1>2, <2>3 DEF Identity
    <3>2. q.addr \in ManualAddr /\ q.name \in {ManualName[q.addr], ProbedName[q.addr]}
      BY <3>1 DEF Owned
    <3>. QED BY <2>1, <3>1, <3>2 DEF OneOwner
  <2>. QED BY <2>2, <2>3 DEF Matches
<1>. QED BY <1>1, <1>2

(* Whoever is listed has an owner.                                         *)
LEMMA OwnedPlace ==
  ASSUME NEW p \in Peer, Owned(p) PROVE \E n \in Name : p.addr \in Places(n)
<1>1. CASE p.id # Nothing
  BY <1>1, NamesOfAddresses DEF Owned, Peer
<1>2. CASE p.id = Nothing
  BY <1>2, ManualAssumption, NamesOfAddresses DEF Owned, Places
<1>. QED BY <1>1, <1>2

(* What an entry that is put does to the list of each owner.               *)
LEMMA UpsertShown ==
  ASSUME OneOwner, list \subseteq Peer, \A q \in list : Owned(q), Single(list),
         NEW n \in Name, NEW p \in Peer, Owned(p), p.addr \in Places(n), Upsert(p)
  PROVE  /\ Single(list)' /\ Addrs(list') \cap Places(n) = {p.addr}
         /\ \A m \in Name : m # n => Addrs(list') \cap Places(m) = Addrs(list) \cap Places(m)
<1>. DEFINE same == {q \in list : Matches(q, p)}
<1>1. \A q \in list : Matches(q, p) <=> q.addr \in Places(n)
  BY OwnedMatches
<1>2. \A m \in Name : m # n => p.addr \notin Places(m)
  BY PlacesApart
<1>3. CASE same = {} /\ list' = list \cup {p}
  <2>1. \A q \in list : q.addr \notin Places(n)
    BY <1>1, <1>3
  <2>2. Single(list)'
    BY <1>2, <1>3, <2>1 DEF Single
  <2>3. Addrs(list') \cap Places(n) = {p.addr}
    BY <1>3, <2>1 DEF Addrs
  <2>4. ASSUME NEW m \in Name, m # n
        PROVE  Addrs(list') \cap Places(m) = Addrs(list) \cap Places(m)
    BY <1>2, <1>3, <2>4 DEF Addrs
  <2>. QED BY <2>2, <2>3, <2>4
<1>4. ASSUME NEW q \in same, list' = (list \ {q}) \cup {Merged(q, p)}
      PROVE  /\ Single(list)' /\ Addrs(list') \cap Places(n) = {p.addr}
             /\ \A m \in Name : m # n =>
                  Addrs(list') \cap Places(m) = Addrs(list) \cap Places(m)
  <2>1. q \in list /\ q \in Peer /\ q.addr \in Places(n) /\ Merged(q, p).addr = p.addr
    BY <1>1, MergedOwned
  <2>2. \A w \in list \ {q} : w.addr \notin Places(n)
    BY <2>1 DEF Single
  <2>3. \A m \in Name : m # n => q.addr \notin Places(m)
    BY <2>1, PlacesApart
  <2>. DEFINE new == Merged(q, p)
  <2>4. list' = (list \ {q}) \cup {new} /\ new.addr = p.addr
    BY <1>4, <2>1
  <2>. HIDE DEF new
  <2>5. Single(list)'
    BY <1>2, <2>2, <2>4 DEF Single
  <2>6. Addrs(list') \cap Places(n) = {p.addr}
    BY <2>2, <2>4 DEF Addrs
  <2>7. ASSUME NEW m \in Name, m # n
        PROVE  Addrs(list') \cap Places(m) = Addrs(list) \cap Places(m)
    BY <1>2, <2>3, <2>4, <2>7 DEF Addrs
  <2>. QED BY <2>5, <2>6, <2>7
<1>. QED BY <1>3, <1>4 DEF Upsert

LEMMA RemoveShown ==
  ASSUME OneOwner, list \subseteq Peer, \A q \in list : Owned(q), Single(list),
         NEW n \in Name, NEW p \in Peer, Owned(p), p.addr \in Places(n), RemovePeer(p)
  PROVE  /\ Single(list)' /\ Addrs(list') \cap Places(n) = {}
         /\ \A m \in Name : m # n => Addrs(list') \cap Places(m) = Addrs(list) \cap Places(m)
<1>1. \A q \in list : Matches(q, p) <=> q.addr \in Places(n)
  BY OwnedMatches
<1>2. list' = {q \in list : q.addr \notin Places(n)}
  BY <1>1 DEF RemovePeer
<1>3. Single(list)'
  BY <1>2 DEF Single
<1>4. Addrs(list') \cap Places(n) = {}
  BY <1>2 DEF Addrs
<1>5. ASSUME NEW m \in Name, m # n
      PROVE  Addrs(list') \cap Places(m) = Addrs(list) \cap Places(m)
  <2>1. \A q \in list : q.addr \in Places(m) => q.addr \notin Places(n)
    BY <1>5, PlacesApart
  <2>. QED BY <1>2, <2>1 DEF Addrs
<1>. QED BY <1>3, <1>4, <1>5

(* A fetched list in which each owner is once is taken over as it is.      *)
LEMMA TakenOver ==
  ASSUME OneOwner, NEW peers \in SUBSET Peer, \A p \in peers : Owned(p), Single(peers),
         SetPeerList(peers)
  PROVE  list' = peers
<1>1. PICK kept \in SUBSET peers :
        /\ \A p \in peers : Cardinality({q \in kept : Identity(q) = Identity(p)}) = 1
        /\ list' = kept
  BY DEF SetPeerList
<1>2. ASSUME NEW p \in peers PROVE p \in kept
  <2>1. {q \in kept : Identity(q) = Identity(p)} # {}
    BY <1>1, FS_EmptySet
  <2>2. PICK q \in kept : Identity(q) = Identity(p)
    BY <2>1
  <2>3. PICK n \in Name : p.addr \in Places(n)
    BY OwnedPlace
  <2>4. q \in peers /\ q.addr \in Places(n)
    BY <2>2, <2>3, OwnedMatches DEF Matches
  <2>5. q = p
    BY <2>3, <2>4 DEF Single
  <2>. QED BY <2>2, <2>5
<1>. QED BY <1>1, <1>2

(* Events that fit the source extend the chain.                            *)
LEMMA SendChained ==
  ASSUME TrackersTyped, NEW d \in Device, Chained(d), UNCHANGED agg,
         NEW es \in Seq(Event), Send(es),
         \A i, j \in DOMAIN es : es[i].name = d /\ es[j].name = d => i = j,
         \A j \in DOMAIN es : es[j].name = d =>
           Fits(es[j], SourceAt(d)) /\ SourceAt(d)' = Left(es[j]),
         (\A j \in DOMAIN es : es[j].name # d) => SourceAt(d)' = SourceAt(d)
  PROVE  Chained(d)'
<1>0. PICK L \in Nat, K \in Nat : L = Len(queue) /\ K = Len(es)
  BY LenProperties DEF TrackersTyped
<1>1. /\ L \in Nat /\ K \in Nat /\ DOMAIN queue = 1..L /\ DOMAIN es = 1..K
      /\ queue' \in Seq(Event) /\ Len(queue') = L + K
      /\ \A i \in 1..(L + K) : queue'[i] = IF i <= L THEN queue[i] ELSE es[i - L]
  BY <1>0, ConcatProperties, LenProperties DEF TrackersTyped, Send
<1>2. /\ \A i \in 1..L : queue'[i] = queue[i]
      /\ \A i \in (L + 1)..(L + K) : i - L \in DOMAIN es /\ queue'[i] = es[i - L]
  BY <1>1
<1>3. ASSUME NEW j \in 0..L PROVE Place(d, j)' = Place(d, j)
  <2>1. CASE j = 0
    BY <2>1 DEF Place, Named, Known
  <2>2. CASE j # 0
    <3>1. queue'[j] = queue[j]
      BY <1>1, <1>2, <2>2
    <3>. QED BY <2>2, <3>1 DEF Place, Left
  <2>. QED BY <2>1, <2>2
<1>4. ASSUME NEW j \in 0..L, NEW i \in 1..(L + K + 1), j <= i - 1, Before(d, j, i)',
             NEW m \in 1..(L + 1), m <= i, j <= m - 1
      PROVE  Before(d, j, m)
  <2>1. j = 0 \/ queue[j].name = d
    BY <1>1, <1>2, <1>4 DEF Before
  <2>2. ASSUME NEW k \in (j + 1)..(m - 1) PROVE queue[k].name # d
    <3>1. k \in (j + 1)..(i - 1) /\ k \in 1..L
      BY <1>1, <1>4
    <3>. QED BY <1>2, <1>4, <3>1 DEF Before
  <2>. QED BY <1>1, <1>4, <2>1, <2>2 DEF Before
<1>5. ASSUME NEW i \in 1..(L + K), queue'[i].name = d, NEW j \in 0..(i - 1), Before(d, j, i)'
      PROVE  Fits(queue'[i], Place(d, j)')
  <2>1. CASE i \in 1..L
    <3>1. Before(d, j, i) /\ queue[i].name = d
      BY <1>1, <1>2, <1>4, <1>5, <2>1
    <3>2. j \in 0..(i - 1) /\ j \in 0..L
      BY <1>1, <2>1
    <3>3. Fits(queue[i], Place(d, j))
      BY <1>0, <1>1, <2>1, <3>1, <3>2 DEF Chained
    <3>. QED BY <1>2, <1>3, <2>1, <3>2, <3>3
  <2>2. CASE i \in (L + 1)..(L + K)
    <3>1. es[i - L].name = d /\ i - L \in DOMAIN es
      BY <1>2, <1>5, <2>2
    <3>2. j \in 0..L
      <4>. SUFFICES ASSUME j \in (L + 1)..(L + K) PROVE FALSE
        BY <1>1
      <4>1. es[j - L].name = d /\ j - L \in DOMAIN es
        BY <1>1, <1>2, <1>5, SMTT(30) DEF Before
      <4>. QED BY <1>1, <3>1, <4>1
    <3>3. Before(d, j, L + 1)
      <4>1. L + 1 \in 1..(L + 1) /\ L + 1 <= i /\ j <= (L + 1) - 1 /\ i \in 1..(L + K + 1) /\ j <= i - 1
        BY <1>1, <2>2, <3>2
      <4>. QED BY <1>4, <1>5, <3>2, <4>1
    <3>4. SourceAt(d) = Place(d, j)
      BY <1>0, <3>2, <3>3 DEF Chained
    <3>. QED BY <1>2, <1>3, <2>2, <3>1, <3>2, <3>4
  <2>. QED BY <1>1, <2>1, <2>2
<1>6. ASSUME NEW j \in 0..(L + K), Before(d, j, L + K + 1)'
      PROVE  SourceAt(d)' = Place(d, j)'
  <2>1. CASE j \in (L + 1)..(L + K)
    <3>1. j - L \in DOMAIN es /\ queue'[j] = es[j - L] /\ queue'[j].name = d /\ j # 0
      BY <1>1, <1>2, <1>6, <2>1 DEF Before
    <3>2. SourceAt(d)' = Left(queue'[j])
      BY <3>1
    <3>. QED BY <3>1, <3>2 DEF Place, Left
  <2>2. CASE j \in 0..L
    <3>1. Before(d, j, L + 1)
      <4>1. /\ L + 1 \in 1..(L + 1) /\ L + 1 <= L + K + 1 /\ j <= (L + 1) - 1
            /\ L + K + 1 \in 1..(L + K + 1) /\ j <= (L + K + 1) - 1
        BY <1>1, <2>2
      <4>. QED BY <1>4, <1>6, <2>2, <4>1
    <3>2. SourceAt(d) = Place(d, j)
      BY <1>0, <2>2, <3>1 DEF Chained
    <3>3. ASSUME NEW k \in DOMAIN es PROVE es[k].name # d
      <4>1. L + k \in (j + 1)..((L + K + 1) - 1) /\ L + k \in (L + 1)..(L + K) /\ (L + k) - L = k
        BY <1>1, <2>2
      <4>2. queue'[L + k] = es[k]
        BY <1>2, <4>1
      <4>3. queue'[L + k].name # d
        <5>1. \A m \in (j + 1)..((L + K + 1) - 1) : queue'[m].name # d
          BY <1>6 DEF Before
        <5>. QED BY <4>1, <5>1
      <4>. QED BY <4>2, <4>3
    <3>. QED BY <1>3, <2>2, <3>2, <3>3
  <2>. QED BY <1>1, <2>1, <2>2
<1>. QED BY <1>0, <1>1, <1>5, <1>6 DEF Chained

(* The aggregate tracker follows the first event.                          *)
LEMMA TailChained ==
  ASSUME TrackersTyped, NEW d \in Device, Chained(d), queue # <<>>, queue' = Tail(queue),
         SourceAt(d)' = SourceAt(d),
         IF Head(queue).name = d THEN Named(agg', d) = Left(Head(queue))
         ELSE Named(agg', d) = Named(agg, d)
  PROVE  Chained(d)'
<1>0. PICK L \in Nat : L = Len(queue)
  BY LenProperties DEF TrackersTyped
<1>1. /\ L \in Nat /\ L > 0 /\ Len(queue') = L - 1 /\ Head(queue) = queue[1]
      /\ \A i \in 1..(L - 1) : queue'[i] = queue[i + 1]
  <2>1. /\ queue \in Seq(Event) /\ queue' \in Seq(Event) /\ Len(queue') = L - 1
        /\ Head(queue) = queue[1] /\ \A i \in DOMAIN queue' : queue'[i] = queue[i + 1]
    BY <1>0, TailTyped DEF TrackersTyped
  <2>. QED BY <1>0, <2>1, LenProperties, EmptySeq
<1>2. ASSUME NEW i \in 1..L, NEW j \in 0..(i - 1), Before(d, j, i)'
      PROVE  \E m \in 0..i : Before(d, m, i + 1) /\ Place(d, j)' = Place(d, m)
  <2>0. \A k \in (j + 1)..(i - 1) : queue[k + 1].name # d
    BY <1>1, <1>2 DEF Before
  <2>1. \A k \in (j + 2)..i : queue[k].name # d
    <3>1. ASSUME NEW k \in (j + 2)..i PROVE queue[k].name # d
      <4>1. k - 1 \in (j + 1)..(i - 1) /\ (k - 1) + 1 = k
        BY <1>1
      <4>. QED BY <2>0, <4>1
    <3>. QED BY <3>1
  <2>2. CASE j > 0
    <3>1. queue'[j] = queue[j + 1] /\ queue'[j].name = d /\ j + 1 \in 0..i
      BY <1>1, <1>2, <2>2 DEF Before
    <3>2. \A k \in ((j + 1) + 1)..((i + 1) - 1) : queue[k].name # d
      BY <1>1, <2>1
    <3>3. Before(d, j + 1, i + 1)
      BY <1>1, <3>1, <3>2 DEF Before
    <3>4. Place(d, j)' = Place(d, j + 1)
      <4>1. j # 0 /\ j + 1 # 0
        BY <2>2
      <4>. QED BY <3>1, <4>1 DEF Place, Left
    <3>. QED BY <3>1, <3>3, <3>4
  <2>3. CASE j = 0 /\ queue[1].name = d
    <3>1. \A k \in (1 + 1)..((i + 1) - 1) : queue[k].name # d
      BY <1>1, <2>1, <2>3
    <3>2. Before(d, 1, i + 1)
      BY <1>1, <2>3, <3>1 DEF Before
    <3>3. Place(d, j)' = Named(agg, d)' /\ Place(d, 1) = Left(queue[1])
      BY <2>3 DEF Place
    <3>4. Named(agg, d)' = Named(agg', d)
      BY DEF Named, Known
    <3>. QED BY <1>1, <2>3, <3>2, <3>3, <3>4
  <2>4. CASE j = 0 /\ queue[1].name # d
    <3>1. \A k \in (0 + 1)..((i + 1) - 1) : queue[k].name # d
      <4>1. \A k \in 1..i : k = 1 \/ k \in (0 + 2)..i
        BY <1>1
      <4>. QED BY <1>1, <2>1, <2>4, <4>1
    <3>2. Before(d, 0, i + 1)
      BY <1>1, <3>1 DEF Before
    <3>3. Place(d, j)' = Named(agg, d)' /\ Place(d, 0) = Named(agg, d)
      BY <2>4 DEF Place
    <3>4. Named(agg, d)' = Named(agg', d)
      BY DEF Named, Known
    <3>. QED BY <1>1, <2>4, <3>2, <3>3, <3>4
  <2>. QED BY <1>1, <2>2, <2>3, <2>4
<1>3. ASSUME NEW i \in 1..(L - 1), queue'[i].name = d, NEW j \in 0..(i - 1), Before(d, j, i)'
      PROVE  Fits(queue'[i], Place(d, j)')
  <2>0. i \in 1..L
    BY <1>1
  <2>1. PICK m \in 0..i : Before(d, m, i + 1) /\ Place(d, j)' = Place(d, m)
    BY <1>2, <1>3, <2>0
  <2>2. /\ i + 1 \in 1..L /\ queue[i + 1].name = d /\ m \in 0..((i + 1) - 1)
        /\ queue'[i] = queue[i + 1]
    BY <1>1, <1>3
  <2>3. Fits(queue[i + 1], Place(d, m))
    BY <1>0, <2>1, <2>2 DEF Chained
  <2>. QED BY <2>1, <2>2, <2>3
<1>4. ASSUME NEW j \in 0..(L - 1), Before(d, j, L)' PROVE SourceAt(d)' = Place(d, j)'
  <2>1. PICK m \in 0..L : Before(d, m, L + 1) /\ Place(d, j)' = Place(d, m)
    BY <1>1, <1>2, <1>4
  <2>. QED BY <1>0, <2>1 DEF Chained
<1>5. (L - 1) + 1 = L
  BY <1>1
<1>. QED BY <1>0, <1>1, <1>3, <1>4, <1>5 DEF Chained

LEMMA SameChained ==
  ASSUME NEW d \in Device, Chained(d), UNCHANGED queue,
         Named(agg', d) = Named(agg, d), SourceAt(d)' = SourceAt(d)
  PROVE  Chained(d)'
<1>1. \A j, i : Before(d, j, i)' <=> Before(d, j, i)
  BY DEF Before
<1>2. \A j : Place(d, j)' = Place(d, j)
  BY DEF Place, Left, Named, Known
<1>. QED BY <1>1, <1>2 DEF Chained

(* An announcement in the owner's place either is said, and the name moves *)
(* there, or it changes no name: it is there, or keeps a better address.   *)
LEMMA RecordedPlaces ==
  ASSUME OneOwner, NEW tracker \in Tracker, AtOneAddress(tracker),
         \A b \in Known(tracker) : b \in Places(tracker[b].name),
         NEW n \in Name, NEW a \in Places(n), NEW source \in {"udp", "manual"},
         NEW r \in Recorded(tracker, n, a, source)
  PROVE  /\ \A m : m # n => Named(r.tracker, m) = Named(tracker, m)
         /\ \A c \in Addr : c \notin Places(n) => r.tracker[c] = tracker[c]
         /\ \/ /\ r.says = <<>> /\ Named(r.tracker, n) = Named(tracker, n)
               /\ \/ Named(tracker, n) = {a}
                  \/ \E old \in Addr : /\ Named(tracker, n) = {old} /\ old # a
                                       /\ ~(Rank[a] <= Rank[old])
            \/ \E kind \in {"discovered", "updated"} :
                 /\ r.says = <<Said(kind, n, a)>> /\ Named(r.tracker, n) = {a}
                 /\ Fits(Said(kind, n, a), Named(tracker, n))
<1>. DEFINE entry == [name |-> n, source |-> source, age |-> 0]
<1>0. a \in Addr
  BY DEF Places
<1>1. entry \in Entry /\ entry # Nothing /\ entry.name = n
  BY TTLAssumption, NothingAssumption DEF Entry, UdpTTL
<1>2. \A b \in Addr : Put(tracker, n, a, source)[b] = IF b = a THEN entry ELSE tracker[b]
  BY <1>0 DEF Put, Tracker
<1>3. \A b, c \in Named(tracker, n) : b = c
  BY DEF Named, AtOneAddress
<1>4. CASE Refreshes(tracker, n, a, source, r)
  <2>1. a \in Known(tracker)
    BY <1>0, <1>4 DEF Refreshes, Known
  <2>2. tracker[a].name = n
    BY <2>1, PlacesApart
  <2>3. Named(tracker, n) = {a} /\ r.says = <<>>
    BY <1>3, <1>4, <2>1, <2>2 DEF Refreshes, Named
  <2>4. \A m : Named(r.tracker, m) = Named(tracker, m)
    BY <1>0, <1>1, <1>2, <1>4, <2>1, <2>2 DEF Refreshes, Named, Known
  <2>5. \A c \in Addr : c \notin Places(n) => r.tracker[c] = tracker[c]
    BY <1>2, <1>4 DEF Refreshes
  <2>. QED BY <2>3, <2>4, <2>5
<1>5. CASE Adds(tracker, n, a, source, r)
  <2>1. \A m : m # n => Named(r.tracker, m) = Named(tracker, m)
    BY <1>0, <1>1, <1>2, <1>5 DEF Adds, Named, Known
  <2>2. Named(r.tracker, n) = {a}
    BY <1>0, <1>1, <1>2, <1>5 DEF Adds, Named, Known
  <2>3. \A c \in Addr : c \notin Places(n) => r.tracker[c] = tracker[c]
    BY <1>2, <1>5 DEF Adds
  <2>4. Fits(Said("discovered", n, a), Named(tracker, n))
    BY <1>5 DEF Adds, Fits, Said
  <2>5. r.says = <<Said("discovered", n, a)>>
    BY <1>5 DEF Adds
  <2>. QED BY <2>1, <2>2, <2>3, <2>4, <2>5
<1>6. ASSUME NEW old \in Named(tracker, n), Moves(tracker, n, a, source, old, r)
      PROVE  /\ \A m : m # n => Named(r.tracker, m) = Named(tracker, m)
             /\ \A c \in Addr : c \notin Places(n) => r.tracker[c] = tracker[c]
             /\ r.says = <<Said("updated", n, a)>> /\ Named(r.tracker, n) = {a}
             /\ Fits(Said("updated", n, a), Named(tracker, n))
  <2>1. /\ old \in Addr /\ old # a /\ tracker[old].name = n /\ old \in Places(n)
        /\ Named(tracker, n) = {old} /\ tracker[old] # Nothing
    BY <1>3, <1>6 DEF Moves, Named, Known
  <2>2. \A b \in Addr : r.tracker[b] = IF b = old THEN Nothing
                                       ELSE IF b = a THEN entry ELSE tracker[b]
    BY <1>0, <1>2, <1>6, <2>1 DEF Moves, Put, Tracker
  <2>3. tracker[a] = Nothing /\ Rank[a] <= Rank[old] /\ r.says = <<Said("updated", n, a)>>
    BY <1>6 DEF Moves
  <2>4. ASSUME NEW m, m # n PROVE Named(r.tracker, m) = Named(tracker, m)
    BY <1>0, <1>1, <2>1, <2>2, <2>3, <2>4 DEF Named, Known
  <2>5. Named(r.tracker, n) = {a}
    <3>1. \A b \in Addr : tracker[b] # Nothing /\ tracker[b].name = n => b = old
      BY <2>1 DEF Named, Known
    <3>. QED BY <1>0, <1>1, <2>1, <2>2, <3>1 DEF Named, Known
  <2>6. Fits(Said("updated", n, a), Named(tracker, n))
    BY <2>1, <2>3 DEF Fits, Said
  <2>. QED BY <2>1, <2>2, <2>3, <2>4, <2>5, <2>6
<1>7. ASSUME NEW old \in Named(tracker, n), Keeps(tracker, a, old, r)
      PROVE  /\ \A m : Named(r.tracker, m) = Named(tracker, m)
             /\ \A c \in Addr : c \notin Places(n) => r.tracker[c] = tracker[c]
             /\ r.says = <<>> /\ old \in Addr /\ old # a /\ Named(tracker, n) = {old}
             /\ ~(Rank[a] <= Rank[old])
  <2>1. /\ old \in Addr /\ old # a /\ old \in Places(n) /\ Named(tracker, n) = {old}
        /\ tracker[old] # Nothing
    BY <1>3, <1>7 DEF Keeps, Named, Known
  <2>2. /\ \A b \in Addr : b # old => r.tracker[b] = tracker[b]
        /\ r.tracker[old] # Nothing /\ r.tracker[old].name = tracker[old].name
    BY <1>7, KeptEntry DEF Keeps
  <2>3. \A m : Named(r.tracker, m) = Named(tracker, m)
    BY <2>1, <2>2 DEF Named, Known
  <2>4. \A c \in Addr : c \notin Places(n) => r.tracker[c] = tracker[c]
    BY <2>1, <2>2
  <2>. QED BY <1>7, <2>1, <2>3, <2>4 DEF Keeps
<1>. QED BY <1>0, <1>4, <1>5, <1>6, <1>7, RecordedCases

(* What the aggregate tracker passes on of the first event of a chain.     *)
LEMMA AggregateEffect ==
  ASSUME OneOwner, Orderly, TrackersTyped, TrackersPlaced, AtOneAddress(agg),
         NEW e, e = Head(queue), Aggregate, Fits(e, Named(agg, e.name))
  PROVE  /\ e.name \in Device /\ Named(agg', e.name) = Left(e)
         /\ \A m : m # e.name => Named(agg', m) = Named(agg, m)
         /\ \A c \in ManualAddr : agg'[c] = agg[c]
         /\ \E es \in Seq(Event) :
              /\ events' = events \o es
              /\ \A j \in DOMAIN es : es[j].name = e.name /\ Left(es[j]) = Left(e)
              /\ es = <<>> => Named(agg', e.name) = Named(agg, e.name)
<1>. DEFINE n == e.name  a == e.addr
<1>1. queue \in Seq(Event) /\ queue # <<>>
  BY DEF Aggregate, TrackersTyped
<1>2. e \in Event /\ e = queue[1] /\ 1 \in DOMAIN queue
  BY <1>1, TailTyped
<1>3. n \in Device /\ n \in Name /\ a \in Addr /\ a \in HeardAt(n) /\ Places(n) = HeardAt(n)
  BY <1>2, NamesOfAddresses, DevicePlaces DEF TrackersPlaced, FromDevice, Event
<1>4. ASSUME NEW es, Broadcast(es) PROVE events' = events \o es
  BY <1>4 DEF Broadcast, Orderly
<1>5. \A c \in ManualAddr : c \in Addr /\ c \notin Places(n)
  BY <1>3, ManualAssumption DEF OneOwner
<1>6. \A b \in Known(agg) : b \in Places(agg[b].name) /\ b \in Addr
  BY PlacedIsPlace DEF TrackersPlaced, Known
<1>7. /\ <<e>> \in Seq(Event) /\ \A j \in DOMAIN <<e>> : <<e>>[j] = e
      /\ <<e>> # <<>>
  BY <1>2
<1>8. CASE e.kind = "lost"
  <2>1. agg' = [agg EXCEPT ![a] = Nothing] /\ events' = events \o <<e>>
    BY <1>4, <1>8 DEF Aggregate
  <2>2. Named(agg, n) = {a}
    BY <1>8 DEF Fits
  <2>3. \A b \in Addr : agg'[b] = IF b = a THEN Nothing ELSE agg[b]
    BY <1>3, <2>1 DEF TrackersTyped, Tracker
  <2>4. agg[a].name = n
    BY <2>2 DEF Named
  <2>5. Named(agg', n) = {}
    BY <2>2, <2>3 DEF Named, Known
  <2>6. \A m : m # n => Named(agg', m) = Named(agg, m)
    BY <2>3, <2>4 DEF Named, Known
  <2>7. \A c \in ManualAddr : agg'[c] = agg[c]
    BY <1>3, <1>5, <2>3
  <2>. QED BY <1>3, <1>7, <1>8, <2>1, <2>5, <2>6, <2>7 DEF Left
<1>9. CASE e.kind # "lost"
  <2>1. PICK r \in Recorded(agg, n, a, "udp") :
          /\ agg' = r.tracker
          /\ Broadcast(IF r.says = <<>> /\ e.kind = "updated" THEN <<e>> ELSE r.says)
    BY <1>9 DEF Aggregate
  <2>. DEFINE es == IF r.says = <<>> /\ e.kind = "updated" THEN <<e>> ELSE r.says
  <2>2. events' = events \o es
    <3>1. Broadcast(es)
      BY <2>1
    <3>. QED BY <3>1 DEF Broadcast, Orderly
  <2>3. agg \in Tracker /\ a \in Places(n)
    BY <1>3 DEF TrackersTyped
  <2>4. /\ \A m : m # n => Named(r.tracker, m) = Named(agg, m)
        /\ \A c \in Addr : c \notin Places(n) => r.tracker[c] = agg[c]
        /\ \/ /\ r.says = <<>> /\ Named(r.tracker, n) = Named(agg, n)
              /\ \/ Named(agg, n) = {a}
                 \/ \E old \in Addr : /\ Named(agg, n) = {old} /\ old # a
                                      /\ ~(Rank[a] <= Rank[old])
           \/ \E kind \in {"discovered", "updated"} :
                /\ r.says = <<Said(kind, n, a)>> /\ Named(r.tracker, n) = {a}
                /\ Fits(Said(kind, n, a), Named(agg, n))
    <3>. HIDE DEF n, a
    <3>. QED BY <1>3, <1>6, <2>1, <2>3, RecordedPlaces
  <2>5. Named(agg, n) \subseteq {a} \/ \E b \in Named(agg, n) : Named(agg, n) = {b} /\ Rank[a] <= Rank[b]
    BY <1>2, <1>9 DEF Fits, Event
  <2>6. Named(agg', n) = {a} /\ (r.says = <<>> => Named(agg', n) = Named(agg, n))
    <3>1. CASE \E kind \in {"discovered", "updated"} : r.says = <<Said(kind, n, a)>> /\ Named(r.tracker, n) = {a}
      BY <2>1, <3>1
    <3>2. CASE r.says = <<>> /\ Named(r.tracker, n) = Named(agg, n) /\ Named(agg, n) = {a}
      BY <2>1, <3>2
    <3>3. ASSUME NEW old \in Addr, Named(agg, n) = {old}, old # a, ~(Rank[a] <= Rank[old])
          PROVE  FALSE
      BY <2>5, <3>3
    <3>. QED BY <2>4, <3>1, <3>2, <3>3
  <2>7. Left(e) = {a}
    BY <1>9 DEF Left
  <2>8. /\ r.says \in Seq(Event)
        /\ \A j \in DOMAIN r.says :
             r.says[j].name = n /\ r.says[j].addr = a /\ r.says[j].kind # "lost"
    BY <1>3, <2>1, <2>3, RecordedSays
  <2>9. /\ es \in Seq(Event) /\ \A j \in DOMAIN es : es[j].name = n /\ Left(es[j]) = {a}
        /\ es = <<>> => r.says = <<>>
    BY <1>7, <2>7, <2>8 DEF Left
  <2>10. \A c \in ManualAddr : agg'[c] = agg[c]
    BY <1>5, <2>1, <2>4
  <2>. HIDE DEF es
  <2>. QED BY <1>3, <2>1, <2>2, <2>4, <2>6, <2>7, <2>9, <2>10
<1>. QED BY <1>8, <1>9

(* A manual peer is entered where it is, and touches no device.            *)
LEMMA ManualEffect ==
  ASSUME OneOwner, Orderly, TrackersTyped, TrackersPlaced, AtOneAddress(agg),
         NEW a \in ManualAddr, RecordManual(a)
  PROVE  /\ Named(agg', ManualName[a]) = {a} /\ agg'[a] # Nothing /\ agg'[a].age = 0
         /\ \A m : m # ManualName[a] => Named(agg', m) = Named(agg, m)
         /\ \E es \in Seq(Event) :
              /\ events' = events \o es
              /\ \A j \in DOMAIN es : es[j].name = ManualName[a] /\ Left(es[j]) = {a}
              /\ es = <<>> => Named(agg', ManualName[a]) = Named(agg, ManualName[a])
<1>1. PICK n \in Name : n = ManualName[a] /\ Places(n) = {a} /\ n \notin Device
  BY ManualPlaces
<1>2. a \in Addr /\ agg \in Tracker
  BY ManualAssumption DEF TrackersTyped
<1>3. PICK r \in Recorded(agg, n, a, "manual") : agg' = r.tracker /\ Broadcast(r.says)
  BY <1>1 DEF RecordManual
<1>4. \A b \in Known(agg) : b \in Places(agg[b].name)
  BY PlacedIsPlace DEF TrackersPlaced, Known
<1>5. Named(agg, n) \subseteq {a}
  BY <1>1, NamedInPlace
<1>6. /\ \A m : m # n => Named(r.tracker, m) = Named(agg, m)
      /\ \A c \in Addr : c \notin Places(n) => r.tracker[c] = agg[c]
      /\ \/ /\ r.says = <<>> /\ Named(r.tracker, n) = Named(agg, n)
            /\ \/ Named(agg, n) = {a}
               \/ \E old \in Addr : /\ Named(agg, n) = {old} /\ old # a
                                    /\ ~(Rank[a] <= Rank[old])
         \/ \E kind \in {"discovered", "updated"} :
              /\ r.says = <<Said(kind, n, a)>> /\ Named(r.tracker, n) = {a}
              /\ Fits(Said(kind, n, a), Named(agg, n))
  BY <1>1, <1>2, <1>3, <1>4, RecordedPlaces, SMTT(30)
<1>7. Named(r.tracker, n) = {a} /\ (r.says = <<>> => Named(r.tracker, n) = Named(agg, n))
  <2>1. ASSUME NEW kind \in {"discovered", "updated"}, r.says = <<Said(kind, n, a)>>
        PROVE  r.says # <<>>
    BY <2>1
  <2>. QED BY <1>5, <1>6, <2>1
<1>8. agg' = Put(agg, n, a, "manual")
  <2>1. ASSUME NEW old \in Named(agg, n) PROVE agg[a] # Nothing
    BY <1>5, <2>1 DEF Named, Known
  <2>. QED BY <1>2, <1>3, <2>1, RecordedCases, ZenonT(30) DEF Refreshes, Adds, Moves, Keeps
<1>9. agg'[a] # Nothing /\ agg'[a].age = 0
  <2>1. agg'[a] = [name |-> n, source |-> "manual", age |-> 0]
    BY <1>2, <1>8 DEF Put, Tracker
  <2>2. [name |-> n, source |-> "manual", age |-> 0] \in Entry
    BY TTLAssumption DEF Entry, UdpTTL
  <2>. QED BY <2>1, <2>2, NothingAssumption
<1>10. r.says \in Seq(Event) /\ \A j \in DOMAIN r.says : r.says[j].name = n /\ Left(r.says[j]) = {a}
  <2>1. /\ r.says \in Seq(Event)
        /\ \A j \in DOMAIN r.says :
             r.says[j].name = n /\ r.says[j].addr = a /\ r.says[j].kind # "lost"
    BY <1>2, <1>3, RecordedSays
  <2>. QED BY <2>1 DEF Left
<1>11. events' = events \o r.says
  BY <1>3 DEF Broadcast, Orderly
<1>. QED BY <1>1, <1>3, <1>6, <1>7, <1>9, <1>10, <1>11

(* A manual peer that is reaped is no more, and has not just been added.   *)
LEMMA ReapEffect ==
  ASSUME OneOwner, Orderly, TrackersTyped, TrackersPlaced, AtOneAddress(agg), Reap
  PROVE  /\ \A d \in Device : Named(agg', d) = Named(agg, d)
         /\ \A a \in Addr : agg[a] # Nothing /\ agg[a].age = 0 => agg'[a] = agg[a]
         /\ \E es \in Seq(Event) :
              /\ events' = events \o es
              /\ \A j \in DOMAIN es : Left(es[j]) = {} /\ Named(agg', es[j].name) = {}
              /\ \A n : (\A j \in DOMAIN es : es[j].name # n) => Named(agg', n) = Named(agg, n)
<1>1. PICK es \in LostEvents(agg, ManualExpired) : Broadcast(es)
  BY DEF Reap
<1>2. ManualExpired \in SUBSET Known(agg)
  BY DEF ManualExpired
<1>3. /\ es \in Seq(Event)
      /\ \A i \in DOMAIN es : /\ es[i].kind = "lost" /\ es[i].addr \in ManualExpired
                              /\ es[i].name = agg[es[i].addr].name
      /\ \A b \in ManualExpired : \E i \in DOMAIN es : es[i].addr = b
  BY <1>1, <1>2, LostSaid DEF TrackersTyped
<1>4. events' = events \o es
  BY <1>1 DEF Broadcast, Orderly
<1>5. \A b \in Addr : agg'[b] = IF b \in ManualExpired THEN Nothing ELSE agg[b]
  BY DEF Reap, Without
<1>6. \A a \in ManualExpired : a \in Known(agg) /\ agg[a].name \notin Device
  BY DEF ManualExpired, TrackersPlaced, PlacedAt, OneOwner
<1>7. \A d \in Device : Named(agg', d) = Named(agg, d)
  BY <1>5, <1>6 DEF Named, Known
<1>8. \A a \in Addr : agg[a] # Nothing /\ agg[a].age = 0 => agg'[a] = agg[a]
  <2>1. \A a \in ManualExpired : agg[a].age # 0
    BY TTLAssumption DEF ManualExpired
  <2>. QED BY <1>5, <2>1
<1>9. \A j \in DOMAIN es : Left(es[j]) = {} /\ Named(agg', es[j].name) = {}
  <2>1. ASSUME NEW a \in ManualExpired PROVE Named(agg', agg[a].name) = {}
    <3>1. a \in Known(agg)
      BY <1>6
    <3>2. \A b \in Known(agg) : agg[b].name = agg[a].name => b = a
      BY <3>1 DEF AtOneAddress
    <3>. QED BY <1>5, <3>2 DEF Named, Known
  <2>. QED BY <1>3, <2>1 DEF Left
<1>10. ASSUME NEW n, \A j \in DOMAIN es : es[j].name # n PROVE Named(agg', n) = Named(agg, n)
  <2>1. \A a \in ManualExpired : agg[a].name # n
    BY <1>3, <1>10
  <2>. QED BY <1>5, <2>1 DEF Named, Known
<1>. QED BY <1>3, <1>4, <1>7, <1>8, <1>9, <1>10

(* Events that tell where their names are now keep events and view true.   *)
LEMMA AppendAgrees ==
  ASSUME events \in Seq(Event), NEW es \in Seq(Event), events' = events \o es,
         EventsAgree, ViewAgrees, UNCHANGED <<phase, fetched, list>>,
         \A j \in DOMAIN es : Named(agg', es[j].name) = Left(es[j]),
         \A n : (\A j \in DOMAIN es : es[j].name # n) => Named(agg', n) = Named(agg, n)
  PROVE  EventsAgree' /\ ViewAgrees'
<1>0. PICK L \in Nat, K \in Nat : L = Len(events) /\ K = Len(es)
  BY LenProperties
<1>1. /\ DOMAIN events = 1..L /\ DOMAIN es = 1..K /\ DOMAIN events' = 1..(L + K)
      /\ \A i \in 1..(L + K) : events'[i] = IF i <= L THEN events[i] ELSE es[i - L]
  BY <1>0, ConcatProperties, LenProperties
<1>2. /\ \A i \in 1..L : i \in 1..(L + K) /\ events'[i] = events[i]
      /\ \A j \in 1..K : L + j \in 1..(L + K) /\ L + j > L /\ events'[L + j] = es[j]
      /\ \A i \in 1..(L + K) : i \in 1..L \/ \E j \in 1..K : i = L + j
  <2>1. \A j \in 1..K : L + j \in 1..(L + K) /\ L + j > L /\ (L + j) - L = j
    OBVIOUS
  <2>2. \A i \in 1..(L + K) : i \in 1..L \/ (i - L \in 1..K /\ i = L + (i - L))
    OBVIOUS
  <2>. QED BY <1>1, <2>1, <2>2
<1>3. \A n : Named(agg, n)' = Named(agg', n)
  BY DEF Named, Known
<1>4. ASSUME NEW i \in DOMAIN events',
             \A j \in DOMAIN events' : j > i => events'[j].name # events'[i].name
      PROVE  Named(agg', events'[i].name) = Left(events'[i])
  <2>1. ASSUME NEW j \in 1..K, i = L + j PROVE Named(agg', events'[i].name) = Left(events'[i])
    <3>1. events'[i] = es[j] /\ j \in DOMAIN es
      BY <1>1, <1>2, <2>1
    <3>2. Named(agg', es[j].name) = Left(es[j])
      BY <3>1
    <3>. QED BY <3>1, <3>2
  <2>2. CASE i \in 1..L
    <3>1. \A j \in DOMAIN es : es[j].name # events[i].name
      <4>1. ASSUME NEW j \in 1..K PROVE es[j].name # events[i].name
        <5>1. L + j \in DOMAIN events' /\ L + j > i
          BY <1>1, <1>2, <2>2
        <5>. QED BY <1>2, <1>4, <2>2, <5>1
      <4>. QED BY <1>1, <4>1
    <3>2. \A j \in DOMAIN events : j > i => events[j].name # events[i].name
      BY <1>1, <1>2, <1>4, <2>2
    <3>3. Named(agg, events[i].name) = Left(events[i])
      BY <1>1, <2>2, <3>2 DEF EventsAgree
    <3>4. Named(agg', events[i].name) = Named(agg, events[i].name)
      BY <3>1
    <3>. QED BY <1>2, <2>2, <3>3, <3>4
  <2>. QED BY <1>1, <1>2, <2>1, <2>2
<1>5. EventsAgree'
  BY <1>3, <1>4 DEF EventsAgree, Left, Named, Known
<1>6. ASSUME NEW n \in Name, Quiet(n)' PROVE Quiet(n) /\ Named(agg', n) = Named(agg, n)
  <2>0. \A i \in 1..(L + K) : events'[i].name # n
    BY <1>1, <1>6 DEF Quiet
  <2>1. Quiet(n)
    BY <1>1, <1>2, <2>0 DEF Quiet
  <2>2. ASSUME NEW j \in DOMAIN es PROVE es[j].name # n
    <3>1. j \in 1..K
      BY <1>1
    <3>2. L + j \in 1..(L + K) /\ events'[L + j] = es[j]
      BY <1>2, <3>1
    <3>. QED BY <2>0, <3>2
  <2>. QED BY <2>1, <2>2
<1>7. ViewAgrees'
  BY <1>3, <1>6 DEF ViewAgrees, Shows, Addrs
<1>. QED BY <1>5, <1>7

LEMMA ChainFirst ==
  ASSUME TrackersTyped, NEW d \in Device, Chained(d), queue # <<>>, Head(queue).name = d
  PROVE  Fits(Head(queue), Named(agg, d))
<1>1. Head(queue) = queue[1] /\ 1 \in 1..Len(queue)
  BY TailTyped, LenProperties DEF TrackersTyped
<1>2. Before(d, 0, 1)
  BY DEF Before
<1>3. Fits(queue[1], Place(d, 0))
  BY <1>1, <1>2 DEF Chained
<1>. QED BY <1>1, <1>3 DEF Place

(* A device that is found one way is where that source has it.             *)
LEMMA OneWay ==
  ASSUME OneSource, TrackersTyped, TrackersPlaced, NEW d \in Device
  PROVE  /\ Sources[d] # {} => resolved[d] = Nothing /\ SourceAt(d) = Named(udp, d)
         /\ Sources[d] = {} => Named(udp, d) = {} /\ SourceAt(d) = {resolved[d]} \ {Nothing}
<1>1. Sources[d] # {} => resolved[d] = Nothing
  BY DEF OneSource, TrackersPlaced
<1>2. Sources[d] = {} => Named(udp, d) = {}
  BY DEF TrackersPlaced, Named, Known
<1>. QED BY <1>1, <1>2 DEF SourceAt

LEMMA HeartbeatChained ==
  ASSUME OneOwner, OneSource, TrackersTyped, TrackersPlaced, AtOneAddress(udp),
         NEW d \in Device, NEW a \in Addr, Heartbeat(d, a),
         NEW m \in Device, Chained(m)
  PROVE  Chained(m)'
<1>1. PICK r \in Recorded(udp, d, a, "udp") : udp' = r.tracker /\ Send(r.says)
  BY DEF Heartbeat
<1>2. a \in Sources[d] /\ UNCHANGED <<resolved, agg>> /\ a \in Places(d) /\ d \in Name
  BY NamesOfAddresses DEF Heartbeat, Places, HeardAt
<1>3. \A b \in Known(udp) : b \in Places(udp[b].name)
  BY DEF TrackersPlaced, Known, Places, HeardAt
<1>4. /\ \A n : n # d => Named(r.tracker, n) = Named(udp, n)
      /\ \/ r.says = <<>> /\ Named(r.tracker, d) = Named(udp, d)
         \/ \E kind \in {"discovered", "updated"} :
              /\ r.says = <<Said(kind, d, a)>> /\ Named(r.tracker, d) = {a}
              /\ Fits(Said(kind, d, a), Named(udp, d))
  BY <1>1, <1>2, <1>3, RecordedPlaces, SMTT(30) DEF TrackersTyped
<1>5. r.says \in Seq(Event)
  BY <1>1, <1>2, RecordedSays DEF TrackersTyped
<1>6. \A n : Named(udp, n)' = Named(r.tracker, n)
  BY <1>1 DEF Named, Known
<1>7. SourceAt(m)' = Named(r.tracker, m) \cup ({resolved[m]} \ {Nothing})
  BY <1>2, <1>6 DEF SourceAt
<1>8. SourceAt(d) = Named(udp, d) /\ resolved[d] = Nothing
  BY <1>2, OneWay
<1>9. CASE m # d
  <2>1. SourceAt(m)' = SourceAt(m)
    BY <1>4, <1>7, <1>9 DEF SourceAt
  <2>2. \A j \in DOMAIN r.says : r.says[j].name = d
    BY <1>4 DEF Said
  <2>. QED BY <1>1, <1>2, <1>5, <1>9, <2>1, <2>2, SendChained
<1>10. CASE m = d /\ r.says = <<>> /\ Named(r.tracker, d) = Named(udp, d)
  <2>1. SourceAt(m)' = SourceAt(m)
    BY <1>7, <1>10 DEF SourceAt
  <2>2. DOMAIN r.says = {}
    BY <1>10
  <2>. QED BY <1>1, <1>2, <1>5, <2>1, <2>2, SendChained
<1>11. ASSUME m = d, NEW kind \in {"discovered", "updated"}, r.says = <<Said(kind, d, a)>>,
              Named(r.tracker, d) = {a}, Fits(Said(kind, d, a), Named(udp, d))
       PROVE  Chained(m)'
  <2>1. SourceAt(m)' = {a}
    BY <1>7, <1>8, <1>11
  <2>2. /\ DOMAIN r.says = {1} /\ r.says[1] = Said(kind, d, a)
        /\ Said(kind, d, a).name = d /\ Left(Said(kind, d, a)) = {a}
    BY <1>11 DEF Left, Said
  <2>3. Fits(r.says[1], SourceAt(m)) /\ SourceAt(m)' = Left(r.says[1])
    BY <1>8, <1>11, <2>1, <2>2
  <2>. QED BY <1>1, <1>2, <1>5, <1>11, <2>2, <2>3, SendChained
<1>. QED BY <1>4, <1>9, <1>10, <1>11

LEMMA PruneChained ==
  ASSUME OneSource, TrackersTyped, TrackersPlaced, AtOneAddress(udp), UdpPrune,
         NEW m \in Device, Chained(m)
  PROVE  Chained(m)'
<1>1. PICK es \in LostEvents(udp, UdpExpired) : Send(es)
  BY DEF UdpPrune
<1>2. UdpExpired \in SUBSET Known(udp) /\ UNCHANGED <<resolved, agg>>
  BY DEF UdpExpired, UdpPrune
<1>3. /\ es \in Seq(Event)
      /\ \A i \in DOMAIN es : /\ es[i].kind = "lost" /\ es[i].addr \in UdpExpired
                              /\ es[i].name = udp[es[i].addr].name
      /\ \A b \in UdpExpired : \E i \in DOMAIN es : es[i].addr = b
      /\ \A i, j \in DOMAIN es : es[i].addr = es[j].addr => i = j
  BY <1>1, <1>2, LostSaid DEF TrackersTyped
<1>4. \A b \in Addr : udp'[b] = IF b \in UdpExpired THEN Nothing ELSE udp[b]
  BY DEF UdpPrune, Without
<1>5. \A i, j \in DOMAIN es : es[i].name = m /\ es[j].name = m => i = j
  BY <1>2, <1>3 DEF AtOneAddress
<1>6. ASSUME NEW j \in DOMAIN es, es[j].name = m
      PROVE  Fits(es[j], SourceAt(m)) /\ SourceAt(m)' = Left(es[j])
  <2>. DEFINE b == es[j].addr
  <2>1. b \in Known(udp) /\ b \in UdpExpired /\ udp[b].name = m /\ b \in Sources[m]
    BY <1>2, <1>3, <1>6 DEF TrackersPlaced
  <2>2. \A c \in Known(udp) : udp[c].name = m => c = b
    BY <2>1 DEF AtOneAddress
  <2>3. Named(udp, m) = {b}
    BY <2>1, <2>2 DEF Named
  <2>4. SourceAt(m) = {b} /\ resolved[m] = Nothing
    BY <2>1, <2>3, OneWay
  <2>5. Named(udp, m)' = {}
    BY <1>4, <2>1, <2>2 DEF Named, Known
  <2>6. SourceAt(m)' = {}
    BY <1>2, <2>4, <2>5 DEF SourceAt
  <2>. QED BY <1>3, <2>4, <2>6 DEF Fits, Left
<1>7. ASSUME \A j \in DOMAIN es : es[j].name # m PROVE SourceAt(m)' = SourceAt(m)
  <2>1. \A b \in UdpExpired : udp[b].name # m
    BY <1>3, <1>7
  <2>2. Named(udp, m)' = Named(udp, m)
    BY <1>4, <2>1 DEF Named, Known
  <2>. QED BY <1>2, <2>2 DEF SourceAt
<1>. QED BY <1>1, <1>2, <1>3, <1>5, <1>6, <1>7, SendChained

LEMMA ServiceChained ==
  ASSUME OneSource, OneAdvertised, TrackersTyped, TrackersPlaced, NEW d \in Device,
         \/ \E a \in Addr : ServiceResolved(d, a)
         \/ ServiceRemoved(d),
         NEW m \in Device, Chained(m)
  PROVE  Chained(m)'
<1>1. UNCHANGED <<agg, udp>> /\ resolved \in [Device -> Addr \cup {Nothing}] /\ d \in Name
  BY NamesOfAddresses DEF ServiceResolved, ServiceRemoved, TrackersTyped
<1>2. \A n : Named(udp, n)' = Named(udp, n)
  BY <1>1 DEF Named, Known
<1>3. ASSUME NEW a \in Addr, NEW kind \in {"discovered", "lost"}, NEW now \in {a, Nothing},
             Send(<<Said(kind, d, a)>>), resolved' = [resolved EXCEPT ![d] = now],
             Sources[d] = {}, Fits(Said(kind, d, a), SourceAt(d)),
             {now} \ {Nothing} = Left(Said(kind, d, a))
      PROVE  Chained(m)'
  <2>1. <<Said(kind, d, a)>> \in Seq(Event)
    <3>1. Said(kind, d, a) \in Event
      BY <1>1 DEF Said, Event
    <3>. QED BY <3>1
  <2>2. CASE m = d
    <3>1. Named(udp, m)' = {}
      BY <1>2, <1>3, <2>2, OneWay
    <3>2. resolved'[m] = now
      BY <1>1, <1>3, <2>2
    <3>3. SourceAt(m)' = {now} \ {Nothing}
      BY <3>1, <3>2 DEF SourceAt
    <3>. DEFINE es == <<Said(kind, d, a)>>
    <3>4. DOMAIN es = {1} /\ es[1] = Said(kind, d, a) /\ es[1].name = m
      BY <2>2 DEF Said
    <3>5. \A j \in DOMAIN es : es[j].name = m =>
            Fits(es[j], SourceAt(m)) /\ SourceAt(m)' = Left(es[j])
      BY <1>3, <2>2, <3>3, <3>4
    <3>. HIDE DEF es
    <3>6. es \in Seq(Event) /\ Send(es)
      BY <1>3, <2>1 DEF es
    <3>. QED BY <1>1, <3>4, <3>5, <3>6, SendChained
  <2>3. CASE m # d
    <3>1. SourceAt(m)' = SourceAt(m)
      BY <1>1, <1>2, <1>3, <2>3 DEF SourceAt
    <3>. DEFINE es == <<Said(kind, d, a)>>
    <3>2. \A j \in DOMAIN es : es[j].name # m
      BY <2>3 DEF Said
    <3>. HIDE DEF es
    <3>3. es \in Seq(Event) /\ Send(es)
      BY <1>3, <2>1 DEF es
    <3>. QED BY <1>1, <3>1, <3>2, <3>3, SendChained
  <2>. QED BY <2>2, <2>3
<1>4. ASSUME NEW a \in Addr, ServiceResolved(d, a) PROVE Chained(m)'
  <2>1. /\ a \in Advertised[d] /\ resolved' = [resolved EXCEPT ![d] = a]
        /\ Send(<<Said("discovered", d, a)>>)
    BY <1>4 DEF ServiceResolved, Said
  <2>2. Sources[d] = {} /\ a # Nothing
    BY <2>1, NothingAssumption DEF OneSource
  <2>3. SourceAt(d) \subseteq {a}
    BY <2>1, <2>2, OneWay DEF OneAdvertised, TrackersPlaced
  <2>4. Fits(Said("discovered", d, a), SourceAt(d)) /\ Left(Said("discovered", d, a)) = {a}
    BY <2>3 DEF Fits, Said, Left
  <2>. QED BY <1>3, <2>1, <2>2, <2>4
<1>5. CASE ServiceRemoved(d)
  <2>1. /\ resolved[d] # Nothing /\ resolved' = [resolved EXCEPT ![d] = Nothing]
        /\ Send(<<Said("lost", d, resolved[d])>>)
    BY <1>5 DEF ServiceRemoved, Said
  <2>2. Sources[d] = {} /\ resolved[d] \in Addr
    BY <1>1, <2>1, OneWay
  <2>3. SourceAt(d) = {resolved[d]}
    BY <2>1, <2>2, OneWay
  <2>4. Fits(Said("lost", d, resolved[d]), SourceAt(d)) /\ Left(Said("lost", d, resolved[d])) = {}
    BY <2>3 DEF Fits, Said, Left
  <2>. QED BY <1>3, <2>1, <2>2, <2>4
<1>. QED BY <1>4, <1>5

(* Steps that leave every name where the aggregate tracker has it.         *)
LEMMA TickKeepsNames ==
  ASSUME TypeOK, Tick
  PROVE  \A n : Named(udp', n) = Named(udp, n) /\ Named(agg', n) = Named(agg, n)
BY TickKeepsEntries DEF Named

LEMMA ChainStep ==
  ASSUME OneOwner, OneSource, OneAdvertised, Orderly, TypeOK, TrackersPlaced,
         AtOneAddress(udp), AtOneAddress(agg), \A d \in Device : Chained(d), [Next]_vars,
         NEW m \in Device
  PROVE  Chained(m)'
<1>. USE DEF trackerVars, viewVars, deviceVars
<1>0. TrackersTyped /\ Chained(m)
  BY TypeParts
<1>1. CASE UNCHANGED <<resolved, udp, queue, agg>>
  <2>1. SourceAt(m)' = SourceAt(m) /\ Named(agg', m) = Named(agg, m)
    BY <1>1 DEF SourceAt, Named, Known
  <2>. QED BY <1>0, <1>1, <2>1, SameChained
<1>2. ASSUME UNCHANGED <<resolved, udp, queue>>, Named(agg', m) = Named(agg, m)
      PROVE  Chained(m)'
  <2>1. SourceAt(m)' = SourceAt(m)
    BY <1>2 DEF SourceAt, Named, Known
  <2>. QED BY <1>0, <1>2, <2>1, SameChained
<1>3. ASSUME NEW d \in Device, NEW a \in Addr, Heartbeat(d, a) PROVE Chained(m)'
  BY <1>0, <1>3, HeartbeatChained
<1>4. CASE UdpPrune
  BY <1>0, <1>4, PruneChained
<1>5. ASSUME NEW d \in Device, NEW a \in Addr, ServiceResolved(d, a) PROVE Chained(m)'
  BY <1>0, <1>5, ServiceChained
<1>6. ASSUME NEW d \in Device, ServiceRemoved(d) PROVE Chained(m)'
  BY <1>0, <1>6, ServiceChained
<1>7. CASE Aggregate
  <2>1. queue # <<>> /\ queue' = Tail(queue) /\ UNCHANGED <<resolved, udp>>
    BY <1>7 DEF Aggregate
  <2>2. PICK e : e = Head(queue)
    OBVIOUS
  <2>3. e.name \in Device
    BY <1>0, <2>1, <2>2, TailTyped DEF TrackersPlaced, FromDevice, TrackersTyped
  <2>4. Fits(e, Named(agg, e.name))
    BY <1>0, <2>1, <2>2, <2>3, ChainFirst
  <2>5. /\ Named(agg', e.name) = Left(e)
        /\ \A n : n # e.name => Named(agg', n) = Named(agg, n)
    BY <1>0, <1>7, <2>2, <2>4, AggregateEffect
  <2>6. SourceAt(m)' = SourceAt(m)
    BY <2>1 DEF SourceAt, Named, Known
  <2>7. IF Head(queue).name = m THEN Named(agg', m) = Left(Head(queue))
        ELSE Named(agg', m) = Named(agg, m)
    BY <2>2, <2>5
  <2>. QED BY <1>0, <2>1, <2>6, <2>7, TailChained
<1>8. CASE Reap
  <2>1. Named(agg', m) = Named(agg, m) /\ UNCHANGED <<resolved, udp, queue>>
    BY <1>0, <1>8, ReapEffect DEF Reap
  <2>. QED BY <1>2, <2>1
<1>9. CASE Tick
  <2>1. Named(agg', m) = Named(agg, m) /\ Named(udp', m) = Named(udp, m)
    BY <1>9, TickKeepsNames
  <2>2. Named(udp, m)' = Named(udp', m) /\ UNCHANGED <<resolved, queue>>
    BY <1>9 DEF Named, Known, Tick
  <2>3. SourceAt(m)' = SourceAt(m)
    BY <2>1, <2>2 DEF SourceAt
  <2>. QED BY <1>0, <2>1, <2>2, <2>3, SameChained
<1>10. ASSUME NEW a \in ManualAddr,
              AddManual(a, ManualName[a]) \/ AddManual(a, ProbedName[a])
       PROVE  Chained(m)'
  <2>1. RecordManual(a) /\ UNCHANGED <<resolved, udp, queue>> /\ m # ManualName[a]
    BY <1>10, ManualPlaces DEF AddManual
  <2>2. Named(agg', m) = Named(agg, m)
    BY <1>0, <2>1, ManualEffect
  <2>. QED BY <1>2, <2>1, <2>2
<1>11. CASE \E d \in Device : Join(d) \/ Leave(d)
  BY <1>1, <1>11 DEF Join, Leave
<1>12. CASE Forward \/ Fetch \/ Fetched \/ Subscribe \/ ManualAnswered
  BY <1>1, <1>12 DEF Forward, Fetch, Fetched, Subscribe, ManualAnswered
<1>13. CASE \E p \in list : Select(p)
  BY <1>1, <1>13 DEF Select
<1>14. CASE UNCHANGED vars
  BY <1>1, <1>14 DEF vars
<1>. QED
  BY <1>3, <1>4, <1>5, <1>6, <1>7, <1>8, <1>9, <1>10, <1>11, <1>12, <1>13, <1>14 DEF Next

(* A manual peer is in the aggregate tracker under its own name.           *)
LEMMA ManualNamed ==
  ASSUME OneOwner, TrackersTyped, TrackersPlaced, NEW a \in ManualAddr, agg[a] # Nothing
  PROVE  Named(agg, ManualName[a]) = {a}
<1>1. a \in Known(agg) /\ a \in Addr
  BY ManualAssumption DEF Known
<1>2. a \in Places(agg[a].name)
  BY <1>1, PlacedIsPlace DEF TrackersPlaced
<1>3. Places(ManualName[a]) = {a}
  BY ManualPlaces
<1>4. agg[a].name = ManualName[a]
  BY <1>2, <1>3, PlacesApart
<1>5. Named(agg, ManualName[a]) \subseteq {a}
  BY <1>3, NamedInPlace
<1>. QED BY <1>1, <1>4, <1>5 DEF Named

LEMMA SameAgrees ==
  ASSUME EventsAgree, ViewAgrees, UNCHANGED <<events, phase, fetched, list>>,
         \A n : Named(agg', n) = Named(agg, n)
  PROVE  EventsAgree' /\ ViewAgrees'
<1>1. \A n : Named(agg, n)' = Named(agg, n)
  <2>1. \A n : Named(agg, n)' = Named(agg', n)
    BY DEF Named, Known
  <2>. QED BY <2>1
<1>2. EventsAgree'
  BY <1>1 DEF EventsAgree, Left
<1>3. \A n : (Quiet(n)' <=> Quiet(n)) /\ Places(n)' = Places(n)
  BY DEF Quiet, Places, HeardAt
<1>4. ViewAgrees'
  BY <1>1, <1>3 DEF ViewAgrees, Shows, Addrs
<1>. QED BY <1>2, <1>4

(* The next event brings its name up to date in the list.                  *)
LEMMA ForwardAgrees ==
  ASSUME OneOwner, Orderly, TrackersTyped, ViewTyped, TrackersPlaced, ViewOwned,
         EventsAgree, ViewAgrees, EntriesSingle, Forward
  PROVE  EventsAgree' /\ ViewAgrees' /\ EntriesSingle'
<1>. USE DEF trackerVars, viewVars, deviceVars
<1>1. /\ events \in Seq(Event) /\ events # <<>> /\ events' = Tail(events)
      /\ UNCHANGED <<agg, phase, fetched>> /\ fetched = Nothing /\ phase \in {"boot", "live"}
  BY DEF Forward, Orderly, TrackersTyped
<1>2. PICK e \in Event : e = Head(events)
  BY <1>1, TailTyped
<1>3. /\ e = events[1] /\ 1 \in DOMAIN events
      /\ \A i \in DOMAIN events' : i + 1 \in DOMAIN events /\ events'[i] = events[i + 1]
  BY <1>1, <1>2, TailTyped
<1>4. PICK L \in Nat : DOMAIN events = 1..L /\ DOMAIN events' = 1..(L - 1)
  <2>1. events' \in Seq(Event) /\ Len(events') = Len(events) - 1 /\ Len(events) \in Nat
    BY <1>1, TailTyped, LenProperties
  <2>2. DOMAIN events = 1..Len(events) /\ DOMAIN events' = 1..Len(events')
    BY <1>1, <2>1, LenProperties
  <2>. QED BY <2>1, <2>2
<1>5. \A i \in DOMAIN events : i = 1 \/ (i > 1 /\ i - 1 \in DOMAIN events' /\ events'[i - 1] = events[i])
  <2>1. ASSUME NEW i \in DOMAIN events, i # 1
        PROVE  i > 1 /\ i - 1 \in DOMAIN events' /\ (i - 1) + 1 = i
    BY <1>4, <2>1
  <2>. QED BY <1>3, <2>1
<1>6. EventsAgree'
  <2>1. ASSUME NEW i \in DOMAIN events',
               \A j \in DOMAIN events' : j > i => events'[j].name # events'[i].name
        PROVE  Named(agg, events'[i].name) = Left(events'[i])
    <3>1. i + 1 \in DOMAIN events /\ events'[i] = events[i + 1] /\ i \in 1..(L - 1)
      BY <1>3, <1>4
    <3>2. ASSUME NEW j \in DOMAIN events, j > i + 1 PROVE events[j].name # events[i + 1].name
      <4>1. j - 1 \in DOMAIN events' /\ j - 1 > i /\ events'[j - 1] = events[j]
        BY <1>4, <1>5, <3>1, <3>2
      <4>. QED BY <2>1, <3>1, <4>1
    <3>3. Named(agg, events[i + 1].name) = Left(events[i + 1])
      BY <3>1, <3>2 DEF EventsAgree
    <3>. QED BY <3>1, <3>3
  <2>2. \A n : Named(agg, n)' = Named(agg, n)
    BY <1>1 DEF Named, Known
  <2>. QED BY <2>1, <2>2 DEF EventsAgree, Left
<1>7. ASSUME NEW n \in Name, n # e.name, Quiet(n)' PROVE Quiet(n)
  <2>1. ASSUME NEW i \in DOMAIN events PROVE events[i].name # n
    BY <1>3, <1>5, <1>7, <2>1 DEF Quiet
  <2>. QED BY <2>1 DEF Quiet
<1>8. ASSUME Quiet(e.name)' PROVE Named(agg, e.name) = Left(e)
  <2>1. ASSUME NEW j \in DOMAIN events, j > 1 PROVE events[j].name # events[1].name
    <3>1. j # 1
      BY <1>4, <2>1
    <3>. QED BY <1>3, <1>5, <1>8, <2>1, <3>1 DEF Quiet
  <2>. QED BY <1>3, <2>1 DEF EventsAgree
<1>9. CASE phase = "boot"
  <2>1. UNCHANGED list
    BY <1>9 DEF Forward
  <2>2. ViewAgrees'
    BY <1>1, <1>9 DEF ViewAgrees
  <2>3. EntriesSingle'
    BY <1>1, <2>1 DEF EntriesSingle, Single
  <2>. QED BY <1>6, <2>2, <2>3
<1>10. CASE phase = "live"
  <2>1. PICK n \in Name, a \in Addr : n = e.name /\ a = e.addr /\ a \in Places(n)
    BY <1>3 DEF TrackersPlaced, Event
  <2>2. PICK p \in Peer : p = PeerAt(n, a) /\ Owned(p) /\ p.addr = a
    BY <2>1, PeerAtOwned
  <2>3. IF e.kind = "lost" THEN RemovePeer(p) ELSE Upsert(p)
    BY <1>2, <1>10, <2>1, <2>2 DEF Forward
  <2>4. list \subseteq Peer /\ (\A q \in list : Owned(q)) /\ Single(list)
    BY DEF ViewTyped, ViewOwned, EntriesSingle
  <2>5. /\ Single(list)' /\ Addrs(list') \cap Places(n) = Left(e)
        /\ \A m \in Name : m # n => Addrs(list') \cap Places(m) = Addrs(list) \cap Places(m)
    <3>1. CASE e.kind = "lost"
      BY <2>1, <2>2, <2>3, <2>4, <3>1, RemoveShown DEF Left
    <3>2. CASE e.kind # "lost"
      BY <2>1, <2>2, <2>3, <2>4, <3>2, UpsertShown DEF Left
    <3>. QED BY <3>1, <3>2
  <2>6. ASSUME NEW m \in Name, Quiet(m)' PROVE Addrs(list') \cap Places(m) = Named(agg, m)
    <3>1. CASE m = n
      BY <1>8, <2>1, <2>5, <2>6, <3>1
    <3>2. CASE m # n
      <4>1. Shows(list, m)
        BY <1>1, <1>7, <1>10, <2>1, <2>6, <3>2 DEF ViewAgrees
      <4>. QED BY <2>5, <3>2, <4>1 DEF Shows
    <3>. QED BY <3>1, <3>2
  <2>7. \A m : Shows(list, m)' <=> Addrs(list') \cap Places(m) = Named(agg, m)
    BY <1>1 DEF Shows, Addrs, Places, HeardAt, Named, Known
  <2>8. ViewAgrees'
    BY <1>1, <2>6, <2>7 DEF ViewAgrees
  <2>9. EntriesSingle'
    BY <1>1, <2>5 DEF EntriesSingle
  <2>. QED BY <1>6, <2>8, <2>9
<1>. QED BY <1>1, <1>9, <1>10

(* The answer to a fetch shows the aggregate tracker, each owner once.     *)
LEMMA FetchedShows ==
  ASSUME OneOwner, TrackersTyped, TrackersPlaced, AtOneAddress(agg),
         NEW peers, peers = {PeerAt(agg[a].name, a) : a \in Known(agg)}
  PROVE  Single(peers) /\ \A n : Shows(peers, n)
<1>1. \A a \in Known(agg) : a \in Places(agg[a].name)
  BY PlacedIsPlace DEF TrackersPlaced, Known
<1>2. \A n, a : PeerAt(n, a).addr = a
  BY DEF PeerAt
<1>3. Single(peers)
  <2>1. ASSUME NEW n \in Name, NEW p \in peers, NEW q \in peers,
               p.addr \in Places(n), q.addr \in Places(n)
        PROVE  p = q
    <3>1. PICK a \in Known(agg), b \in Known(agg) :
            p = PeerAt(agg[a].name, a) /\ q = PeerAt(agg[b].name, b)
      OBVIOUS
    <3>2. a \in Places(n) /\ b \in Places(n)
      BY <1>2, <2>1, <3>1
    <3>3. agg[a].name = n /\ agg[b].name = n
      BY <1>1, <3>2, PlacesApart
    <3>. QED BY <3>1, <3>3 DEF AtOneAddress
  <2>. QED BY <2>1 DEF Single
<1>4. Addrs(peers) = Known(agg)
  BY <1>2 DEF Addrs
<1>5. ASSUME NEW n PROVE Known(agg) \cap Places(n) = Named(agg, n)
  <2>1. Named(agg, n) \subseteq Places(n)
    BY NamedInPlace
  <2>2. \A a \in Known(agg) \cap Places(n) : agg[a].name = n
    BY <1>1, PlacesApart
  <2>. QED BY <2>1, <2>2 DEF Named
<1>. QED BY <1>3, <1>4, <1>5 DEF Shows

(* The view after a step that puts, takes over or fetches peers.           *)
LEMMA ViewStep ==
  ASSUME OneOwner, Orderly, TypeOK, TrackersPlaced, ViewOwned, AtOneAddress(agg), AgreeInv,
         Forward \/ Fetch \/ Fetched \/ Subscribe \/ ManualAnswered
  PROVE  (EventsAgree /\ ViewAgrees /\ EntriesSingle /\ AnswerKnown)'
<1>. USE DEF trackerVars, viewVars, deviceVars
<1>0. /\ TrackersTyped /\ ViewTyped
      /\ EventsAgree /\ ViewAgrees /\ EntriesSingle /\ AnswerKnown
  BY TypeParts DEF AgreeInv
<1>1. ASSUME UNCHANGED <<agg, events>> PROVE EventsAgree'
  BY <1>0, <1>1 DEF EventsAgree, Left, Named, Known
<1>2. ASSUME UNCHANGED <<agg, events>>
      PROVE  /\ \A n : Quiet(n)' <=> Quiet(n)
             /\ \A n : Shows(list, n)' <=> Shows(list', n)
             /\ \A n : Shows(fetched, n)' <=> Shows(fetched', n)
  BY <1>2 DEF Quiet, Shows, Addrs, Places, HeardAt, Named, Known
<1>3. UNCHANGED agg /\ (answer' = answer \/ answer' = Nothing)
  BY DEF Forward, Fetch, Fetched, Subscribe, ManualAnswered
<1>4. AnswerKnown'
  BY <1>0, <1>3 DEF AnswerKnown
<1>5. CASE Forward
  BY <1>0, <1>4, <1>5, ForwardAgrees
<1>6. CASE Fetch
  <2>1. /\ fetched' = {PeerAt(agg[a].name, a) : a \in Known(agg)} /\ fetched = Nothing
        /\ UNCHANGED <<agg, events, phase, list>>
    BY <1>6 DEF Fetch
  <2>2. PICK peers : peers = {PeerAt(agg[a].name, a) : a \in Known(agg)}
    OBVIOUS
  <2>3. Single(peers) /\ \A n : Shows(peers, n)
    BY <1>0, <2>2, FetchedShows
  <2>4. fetched' = peers
    BY <2>1, <2>2
  <2>5. ASSUME NEW n \in Name, Quiet(n)'
        PROVE  IF fetched' # Nothing THEN Shows(fetched, n)' ELSE phase' # "boot" => Shows(list, n)'
    <3>1. Shows(fetched', n) /\ Quiet(n)
      BY <1>2, <2>1, <2>3, <2>4, <2>5
    <3>2. phase # "boot" => Shows(list, n)
      BY <1>0, <2>1, <3>1 DEF ViewAgrees
    <3>. QED BY <1>2, <2>1, <3>1, <3>2
  <2>6. ViewAgrees'
    BY <2>5 DEF ViewAgrees
  <2>7. EntriesSingle'
    BY <1>0, <2>1, <2>3, <2>4 DEF EntriesSingle, Single, Places, HeardAt
  <2>. QED BY <1>1, <1>4, <2>1, <2>6, <2>7
<1>7. CASE Fetched
  <2>1. /\ fetched # Nothing /\ SetPeerList(fetched) /\ fetched' = Nothing
        /\ phase' # "boot" /\ UNCHANGED <<agg, events>>
    BY <1>0, <1>7 DEF Fetched, ViewTyped
  <2>2. fetched \subseteq Peer /\ (\A p \in fetched : Owned(p)) /\ Single(fetched)
    BY <1>0, <2>1 DEF ViewTyped, ViewOwned, EntriesSingle
  <2>3. list' = fetched
    BY <2>1, <2>2, TakenOver
  <2>4. \A n \in Name : Quiet(n) => Shows(list', n)
    BY <1>0, <2>1, <2>3 DEF ViewAgrees
  <2>5. ViewAgrees'
    BY <1>2, <2>1, <2>4 DEF ViewAgrees
  <2>6. EntriesSingle'
    BY <2>1, <2>2, <2>3 DEF EntriesSingle, Single, Places, HeardAt
  <2>. QED BY <1>1, <1>4, <2>1, <2>5, <2>6
<1>8. CASE Subscribe
  <2>1. UNCHANGED <<agg, events, fetched, list>> /\ phase # "boot"
    BY <1>8 DEF Subscribe
  <2>2. ViewAgrees'
    BY <1>0, <1>2, <2>1 DEF ViewAgrees
  <2>3. EntriesSingle'
    BY <1>0, <2>1 DEF EntriesSingle, Single, Places, HeardAt
  <2>. QED BY <1>1, <1>4, <2>1, <2>2, <2>3
<1>9. CASE ManualAnswered
  <2>1. /\ answer # Nothing /\ Upsert(answer) /\ UNCHANGED <<agg, events, phase, fetched>>
        /\ answer \in Peer /\ Owned(answer) /\ answer.id = Nothing /\ agg[answer.addr] # Nothing
    BY <1>0, <1>9 DEF ManualAnswered, ViewTyped, ViewOwned, AnswerKnown
  <2>2. PICK a \in ManualAddr : a = answer.addr
    BY <2>1 DEF Owned
  <2>3. PICK n \in Name : n = ManualName[a] /\ Places(n) = {a} /\ Named(agg, n) = {a}
    BY <1>0, <2>1, <2>2, ManualPlaces, ManualNamed
  <2>4. list \subseteq Peer /\ (\A q \in list : Owned(q)) /\ Single(list)
    BY <1>0 DEF ViewTyped, ViewOwned, EntriesSingle
  <2>5. /\ Single(list)' /\ Addrs(list') \cap Places(n) = {a}
        /\ \A m \in Name : m # n => Addrs(list') \cap Places(m) = Addrs(list) \cap Places(m)
    BY <2>1, <2>2, <2>3, <2>4, UpsertShown
  <2>6. \A m \in Name : Shows(list, m) => Shows(list', m)
    BY <2>3, <2>5 DEF Shows
  <2>7. ViewAgrees'
    BY <1>0, <1>2, <2>1, <2>6 DEF ViewAgrees
  <2>8. EntriesSingle'
    BY <1>0, <2>1, <2>5 DEF EntriesSingle, Single, Places, HeardAt
  <2>. QED BY <1>1, <1>4, <2>1, <2>7, <2>8
<1>. QED BY <1>5, <1>6, <1>7, <1>8, <1>9

LEMMA AgreeStep ==
  ASSUME OneOwner, OneSource, OneAdvertised, Orderly, TypeOK, TrackersPlaced, ViewOwned,
         AtOneAddress(udp), AtOneAddress(agg), AgreeInv, [Next]_vars
  PROVE  AgreeInv'
<1>. USE DEF trackerVars, viewVars, deviceVars
<1>0. /\ TrackersTyped /\ ViewTyped /\ events \in Seq(Event)
      /\ EventsAgree /\ ViewAgrees /\ EntriesSingle /\ AnswerKnown
      /\ \A d \in Device : Chained(d)
  BY TypeParts DEF AgreeInv, TrackersTyped
<1>. SUFFICES (EventsAgree /\ ViewAgrees /\ EntriesSingle /\ AnswerKnown)'
  <2>1. (\A d \in Device : Chained(d))'
    BY <1>0, ChainStep
  <2>. QED BY <2>1 DEF AgreeInv
<1>1. ASSUME UNCHANGED <<fetched, list>> PROVE EntriesSingle'
  BY <1>0, <1>1 DEF EntriesSingle, Single, Places, HeardAt
<1>2. ASSUME UNCHANGED <<agg, events, phase, fetched, answer, list>>
      PROVE  (EventsAgree /\ ViewAgrees /\ EntriesSingle /\ AnswerKnown)'
  <2>1. \A n : Named(agg', n) = Named(agg, n)
    BY <1>2 DEF Named, Known
  <2>2. EventsAgree' /\ ViewAgrees'
    BY <1>0, <1>2, <2>1, SameAgrees
  <2>3. AnswerKnown'
    BY <1>0, <1>2 DEF AnswerKnown
  <2>. QED BY <1>1, <1>2, <2>2, <2>3
<1>3. CASE Aggregate
  <2>1. queue # <<>> /\ UNCHANGED <<phase, fetched, answer, list>>
    BY <1>3 DEF Aggregate
  <2>2. PICK e : e = Head(queue)
    OBVIOUS
  <2>3. e.name \in Device
    BY <1>0, <2>1, <2>2, TailTyped DEF TrackersPlaced, FromDevice, TrackersTyped
  <2>4. Fits(e, Named(agg, e.name))
    BY <1>0, <2>1, <2>2, <2>3, ChainFirst
  <2>5. /\ Named(agg', e.name) = Left(e)
        /\ \A m : m # e.name => Named(agg', m) = Named(agg, m)
        /\ \A c \in ManualAddr : agg'[c] = agg[c]
        /\ \E es \in Seq(Event) :
             /\ events' = events \o es
             /\ \A j \in DOMAIN es : es[j].name = e.name /\ Left(es[j]) = Left(e)
             /\ es = <<>> => Named(agg', e.name) = Named(agg, e.name)
    BY <1>0, <1>3, <2>2, <2>4, AggregateEffect
  <2>6. PICK es \in Seq(Event) :
             /\ events' = events \o es
             /\ \A j \in DOMAIN es : es[j].name = e.name /\ Left(es[j]) = Left(e)
             /\ es = <<>> => Named(agg', e.name) = Named(agg, e.name)
    BY <2>5
  <2>7. \A j \in DOMAIN es : Named(agg', es[j].name) = Left(es[j])
    BY <2>5, <2>6
  <2>8. ASSUME NEW n, \A j \in DOMAIN es : es[j].name # n PROVE Named(agg', n) = Named(agg, n)
    <3>1. CASE n # e.name
      BY <2>5, <3>1
    <3>2. CASE n = e.name
      <4>1. es = <<>>
        BY <2>6, <2>8, <3>2, LenProperties, EmptySeq
      <4>. QED BY <2>6, <3>2, <4>1
    <3>. QED BY <3>1, <3>2
  <2>9. EventsAgree' /\ ViewAgrees'
    BY <1>0, <2>1, <2>6, <2>7, <2>8, AppendAgrees
  <2>10. AnswerKnown'
    <3>1. answer # Nothing => answer.addr \in ManualAddr
      BY <1>0 DEF AnswerKnown, ViewOwned, Owned
    <3>. QED BY <1>0, <2>1, <2>5, <3>1 DEF AnswerKnown
  <2>. QED BY <1>1, <2>1, <2>9, <2>10
<1>4. CASE Reap
  <2>1. UNCHANGED <<phase, fetched, answer, list>>
    BY <1>4 DEF Reap
  <2>2. /\ \A a \in Addr : agg[a] # Nothing /\ agg[a].age = 0 => agg'[a] = agg[a]
        /\ \E es \in Seq(Event) :
             /\ events' = events \o es
             /\ \A j \in DOMAIN es : Left(es[j]) = {} /\ Named(agg', es[j].name) = {}
             /\ \A n : (\A j \in DOMAIN es : es[j].name # n) => Named(agg', n) = Named(agg, n)
    BY <1>0, <1>4, ReapEffect
  <2>3. EventsAgree' /\ ViewAgrees'
    BY <1>0, <2>1, <2>2, AppendAgrees
  <2>4. AnswerKnown'
    <3>1. answer # Nothing => answer.addr \in Addr
      BY <1>0 DEF ViewTyped, Peer
    <3>. QED BY <1>0, <2>1, <2>2, <3>1 DEF AnswerKnown
  <2>. QED BY <1>1, <2>1, <2>3, <2>4
<1>5. CASE Tick
  <2>1. UNCHANGED <<events, phase, fetched, answer, list>> /\ answer = Nothing
    BY <1>5 DEF Tick
  <2>2. EventsAgree' /\ ViewAgrees'
    BY <1>0, <1>5, <2>1, TickKeepsNames, SameAgrees
  <2>3. AnswerKnown'
    BY <2>1 DEF AnswerKnown
  <2>. QED BY <1>1, <2>1, <2>2, <2>3
<1>6. ASSUME NEW a \in ManualAddr, NEW n \in {ManualName[a], ProbedName[a]}, AddManual(a, n)
      PROVE  (EventsAgree /\ ViewAgrees /\ EntriesSingle /\ AnswerKnown)'
  <2>1. /\ RecordManual(a) /\ answer' = [id |-> Nothing, name |-> n, addr |-> a]
        /\ UNCHANGED <<phase, fetched, list>>
    BY <1>6 DEF AddManual
  <2>2. /\ Named(agg', ManualName[a]) = {a} /\ agg'[a] # Nothing /\ agg'[a].age = 0
        /\ \A m : m # ManualName[a] => Named(agg', m) = Named(agg, m)
        /\ \E es \in Seq(Event) :
             /\ events' = events \o es
             /\ \A j \in DOMAIN es : es[j].name = ManualName[a] /\ Left(es[j]) = {a}
             /\ es = <<>> => Named(agg', ManualName[a]) = Named(agg, ManualName[a])
    BY <1>0, <2>1, ManualEffect
  <2>3. PICK es \in Seq(Event) :
             /\ events' = events \o es
             /\ \A j \in DOMAIN es : es[j].name = ManualName[a] /\ Left(es[j]) = {a}
             /\ es = <<>> => Named(agg', ManualName[a]) = Named(agg, ManualName[a])
    BY <2>2
  <2>4. \A j \in DOMAIN es : Named(agg', es[j].name) = Left(es[j])
    BY <2>2, <2>3
  <2>5. ASSUME NEW m, \A j \in DOMAIN es : es[j].name # m PROVE Named(agg', m) = Named(agg, m)
    <3>1. CASE m # ManualName[a]
      BY <2>2, <3>1
    <3>2. CASE m = ManualName[a]
      <4>1. es = <<>>
        BY <2>3, <2>5, <3>2, LenProperties, EmptySeq
      <4>. QED BY <2>3, <3>2, <4>1
    <3>. QED BY <3>1, <3>2
  <2>6. EventsAgree' /\ ViewAgrees'
    BY <1>0, <2>1, <2>3, <2>4, <2>5, AppendAgrees
  <2>7. AnswerKnown'
    BY <2>1, <2>2 DEF AnswerKnown
  <2>. QED BY <1>1, <2>1, <2>6, <2>7
<1>7. CASE Forward \/ Fetch \/ Fetched \/ Subscribe \/ ManualAnswered
  BY <1>7, ViewStep
<1>8. CASE \E d \in Device : Join(d) \/ Leave(d) \/ ServiceRemoved(d)
  BY <1>2, <1>8 DEF Join, Leave, ServiceRemoved
<1>9. CASE \E d \in Device, a \in Addr : Heartbeat(d, a) \/ ServiceResolved(d, a)
  BY <1>2, <1>9 DEF Heartbeat, ServiceResolved
<1>10. CASE UdpPrune
  BY <1>2, <1>10 DEF UdpPrune
<1>11. CASE \E p \in list : Select(p)
  BY <1>2, <1>11 DEF Select
<1>12. CASE UNCHANGED vars
  BY <1>2, <1>12 DEF vars
<1>. QED
  BY <1>3, <1>4, <1>5, <1>6, <1>7, <1>8, <1>9, <1>10, <1>11, <1>12 DEF Next

LEMMA AgreeInit ==
  ASSUME Init PROVE AgreeInv
<1>1. /\ Len(queue) = 0 /\ DOMAIN events = {} /\ list = {}
      /\ fetched = Nothing /\ phase = "boot" /\ answer = Nothing
  BY DEF Init
<1>2. ASSUME NEW d \in Device PROVE Chained(d)
  <2>1. Named(agg, d) = {} /\ SourceAt(d) = {}
    BY DEF Init, Named, Known, SourceAt
  <2>2. \A j \in 0..Len(queue) : Place(d, j) = {}
    BY <1>1, <2>1 DEF Place
  <2>3. 1..Len(queue) = {}
    BY <1>1
  <2>. QED BY <2>1, <2>2, <2>3 DEF Chained
<1>3. EventsAgree /\ ViewAgrees /\ EntriesSingle /\ AnswerKnown
  BY <1>1 DEF EventsAgree, ViewAgrees, EntriesSingle, Single, AnswerKnown
<1>. QED BY <1>2, <1>3 DEF AgreeInv

LEMMA AgreedIsListAgrees ==
  ASSUME OneOwner, TypeOK, TrackersPlaced, ViewOwned, AgreeInv PROVE ListAgrees
<1>0. /\ TrackersTyped /\ ViewTyped /\ ViewAgrees /\ Single(list)
  BY TypeParts DEF AgreeInv, EntriesSingle
<1>. SUFFICES ASSUME phase = "live", events = <<>>, fetched = Nothing
              PROVE  /\ {p.addr : p \in list} = Known(agg)
                     /\ \A p, q \in list : p.addr = q.addr => p = q
                     /\ \A p \in list : agg[p.addr].name \in Device => p.id = agg[p.addr].name
  BY DEF ListAgrees
<1>1. \A n \in Name : Addrs(list) \cap Places(n) = Named(agg, n)
  BY <1>0 DEF ViewAgrees, Quiet, Shows
<1>2. \A p \in list : p \in Peer /\ Owned(p)
  BY <1>0 DEF ViewTyped, ViewOwned
<1>3. \A p \in list : \E n \in Name : p.addr \in Places(n)
  BY <1>2, OwnedPlace
<1>4. Addrs(list) \subseteq Known(agg)
  BY <1>1, <1>3 DEF Addrs, Named
<1>5. Known(agg) \subseteq Addrs(list)
  <2>1. \A a \in Known(agg) : agg[a].name \in Name /\ a \in Named(agg, agg[a].name)
    BY <1>0 DEF TrackersTyped, Tracker, Known, Entry, Named
  <2>. QED BY <1>1, <2>1
<1>6. \A p, q \in list : p.addr = q.addr => p = q
  BY <1>0, <1>3 DEF Single
<1>7. ASSUME NEW p \in list, NEW d \in Device, d = agg[p.addr].name PROVE p.id = d
  <2>1. p.addr \in Known(agg)
    BY <1>4 DEF Addrs
  <2>2. p.addr \in Places(d)
    BY <1>7, <2>1, PlacedIsPlace DEF TrackersPlaced, Known
  <2>3. CASE p.id # Nothing
    BY <1>2, <2>2, <2>3, PlacesApart DEF Owned
  <2>4. CASE p.id = Nothing
    <3>1. p.addr \in ManualAddr
      BY <1>2, <2>4 DEF Owned
    <3>. QED BY <2>2, <3>1, DevicePlaces DEF OneOwner
  <2>. QED BY <2>3, <2>4
<1>. QED BY <1>4, <1>5, <1>6, <1>7 DEF Addrs

(***************************************************************************)
(* The theorems                                                            *)
(***************************************************************************)
LEMMA InitEstablishes ==
  Init => /\ TypeOK /\ TrackersPlaced /\ ViewOwned
          /\ AtOneAddress(udp) /\ AtOneAddress(agg) /\ GhostInv /\ SelectedListed
<1>1. Init => TypeOK
  BY TypeInit
<1>2. Init => Known(udp) = {} /\ Known(agg) = {} /\ DOMAIN queue = {} /\ DOMAIN events = {}
  BY DEF Init, Known
<1>3. Init => TrackersPlaced
  BY <1>2 DEF Init, TrackersPlaced
<1>4. Init => ViewOwned /\ SelectedListed
  BY DEF Init, ViewOwned, SelectedListed
<1>5. Init => AtOneAddress(udp) /\ AtOneAddress(agg) /\ GhostInv
  BY <1>2 DEF AtOneAddress, GhostInv
<1>. QED BY <1>1, <1>3, <1>4, <1>5

(* Whatever is lost, expires, lags or overtakes: names stay with the       *)
(* addresses they were announced for, and the frontend is only told of     *)
(* peers with their device's id or their own name.                         *)
THEOREM Invariance == Spec => [](TypeOK /\ TrackersPlaced /\ ViewOwned)
<1>1. TypeOK /\ TrackersPlaced /\ ViewOwned /\ [Next]_vars
        => (TypeOK /\ TrackersPlaced /\ ViewOwned)'
  BY TypeStep, TrackersPlacedStep, ViewOwnedStep
<1>. QED BY <1>1, InitEstablishes, PTL DEF Spec

(* No tracker holds a name at two addresses, in any order of heartbeats,   *)
(* mDNS records, losses, manual additions and expiries                     *)
(* (PeerTracker::record_seen_with_source).                                 *)
THEOREM OneAddressHolds == ASSUME NamesUndisputed PROVE Spec => []OneAddressEach
<1>. DEFINE Inv == AtOneAddress(udp) /\ AtOneAddress(agg)
<1>1. Init => Inv
  BY InitEstablishes
<1>2. TypeOK /\ TrackersPlaced /\ Inv /\ [Next]_vars => Inv'
  BY OneAddressStep
<1>3. Inv => OneAddressEach
  BY OneIsOneAddressEach
<1>. HIDE DEF Inv
<1>. QED BY <1>1, <1>2, <1>3, Invariance, PTL DEF Spec

(* No peer stays in the aggregate tracker for ever after its device is     *)
(* gone: a source knows it at that address and will say that it is lost,   *)
(* or has said what makes the tracker drop it.  Also when heartbeats are   *)
(* lost, records expire and a device is found both ways                    *)
(* (start_discovery, prune_stale_for_source, service_removed).             *)
THEOREM NoGhostsHold ==
  ASSUME NamesUndisputed, DevicesApart, OneAdvertised PROVE Spec => []NoGhosts
<1>. DEFINE Inv == AtOneAddress(udp) /\ AtOneAddress(agg) /\ GhostInv
<1>1. Init => Inv
  BY InitEstablishes
<1>2. TypeOK /\ TrackersPlaced /\ Inv /\ [Next]_vars => Inv'
  BY OneAddressStep, GhostStep
<1>3. TypeOK /\ TrackersPlaced /\ Inv => NoGhosts
  BY GhostsAreNone
<1>. HIDE DEF Inv
<1>. QED BY <1>1, <1>2, <1>3, Invariance, PTL DEF Spec

(* The selected peer's address is always one the list shows, although      *)
(* answers, events and fetched lists merge, move and drop entries, with    *)
(* every fault (upsertPeer, removePeer, setPeerList in peers.js).          *)
THEOREM SelectedIsListed == ASSUME IdentitiesUndisputed PROVE Spec => []SelectedListed
<1>1. TypeOK /\ TrackersPlaced /\ ViewOwned /\ SelectedListed /\ [Next]_vars => SelectedListed'
  BY SelectedStep
<1>. QED BY <1>1, InitEstablishes, Invariance, PTL DEF Spec

(* When nothing is on its way, the list on screen shows each peer of the   *)
(* aggregate tracker once, with its device's id: over two trackers, two    *)
(* channels, fetched lists and manual additions, though heartbeats are     *)
(* lost and records expire, as long as the frontend hears every event      *)
(* behind the list it fetched (start_discovery, setPeerList, upsertPeer,   *)
(* removePeer).                                                            *)
THEOREM ListIsUpToDate ==
  ASSUME OneOwner, OneSource, OneAdvertised, Orderly PROVE Spec => []ListAgrees
<1>. DEFINE Inv == AtOneAddress(udp) /\ AtOneAddress(agg) /\ AgreeInv
<1>1. Init => Inv
  BY InitEstablishes, AgreeInit
<1>2. TypeOK /\ TrackersPlaced /\ ViewOwned /\ Inv /\ [Next]_vars => Inv'
  BY OwnersUndisputed, OneAddressStep, AgreeStep
<1>3. TypeOK /\ TrackersPlaced /\ ViewOwned /\ Inv => ListAgrees
  BY AgreedIsListAgrees
<1>. HIDE DEF Inv
<1>. QED BY <1>1, <1>2, <1>3, Invariance, PTL DEF Spec

=============================================================================
