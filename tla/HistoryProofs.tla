--------------------------- MODULE HistoryProofs ---------------------------
(***************************************************************************)
(* What the steps of ReceiveHistory keep true, from the event of a handler *)
(* to the record in the file.  ReceptionProofs has the theorems.           *)
(***************************************************************************)
EXTENDS ReceiveHistory, SequenceTheorems, TLAPS

(***************************************************************************)
(* The invariant                                                           *)
(***************************************************************************)
OnItsWay(e) == e \in owed \/ e \in ToSet(events) \/ heard = e

(* One writer is at the file and has what is in it.  What it adds is not   *)
(* there yet, and no other writer adds the same.                           *)
StoreInv ==
  /\ \A v, w \in lock : v = w
  /\ \A w \in lock : job[w] # Nothing /\ loaded[w] = file
  /\ job["listener"] # Nothing =>
       \E s \in Session : job["listener"] = Add(s) /\ s \in recorded /\ s \notin added
  /\ job["sender"] # Nothing => \E t \in Sent : job["sender"] = Add(t) /\ t \notin added
  /\ job["user"].do # "add"
  /\ heard # Silence => job["listener"] = Nothing

(* Nothing is known of a session before it is created, what is recorded of *)
(* one that exists is in the file or will be, and one that has ended is    *)
(* recorded or has the event that says so on its way.                      *)
Followed(s) ==
  /\ status[s] = "none" =>
       /\ finished[s] = 0
       /\ s \notin recorded /\ s \notin added /\ s \notin finishing
       /\ \A e \in Event : e.session = s => ~OnItsWay(e)
  /\ s \in added => s \in recorded \/ status[s] = "gone"
  /\ s \in recorded /\ Exists(s) => s \in added \/ s \in missed \/ job["listener"] = Add(s)
  /\ 1..finished[s] \subseteq counted[s]
  /\ s \in finishing => finished[s] < Files
  /\ \/ s \in missed \/ s \in recorded
     \/ /\ status[s] = "cancelled" => OnItsWay(Evt("cancelled", s))
        /\ status[s] = "completed" /\ finished[s] = Files => OnItsWay(Evt("completed", s))

HistoryInv ==
  HistoryTypeOK /\ RecordsKept /\ StoreInv /\ \A s \in Session : Followed(s)

(***************************************************************************)
(* The file and the channel as sequences                                   *)
(***************************************************************************)
LEMMA RemovedAt ==
  ASSUME NEW S, NEW s \in Seq(S), NEW i \in 1..Len(s)
  PROVE  /\ RemoveAt(s, i) \in Seq(S) /\ DOMAIN RemoveAt(s, i) = 1..(Len(s) - 1)
         /\ \A k \in 1..(Len(s) - 1) : RemoveAt(s, i)[k] = IF k < i THEN s[k] ELSE s[k + 1]
<1>. DEFINE a == SubSeq(s, 1, i - 1)
            b == SubSeq(s, i + 1, Len(s))
<1>1. Len(s) \in Nat /\ DOMAIN s = 1..Len(s) /\ \A k \in 1..Len(s) : s[k] \in S
  BY LenProperties, ElementOfSeq
<1>2. /\ a \in Seq(S) /\ Len(a) = i - 1 /\ \A k \in 1..(i - 1) : a[k] = s[k]
  <2>1. \A k \in 1..(i - 1) : s[k] \in S
    BY <1>1
  <2>. QED BY <1>1, <2>1, SubSeqProperties
<1>3. /\ b \in Seq(S) /\ Len(b) = Len(s) - i /\ \A k \in 1..(Len(s) - i) : b[k] = s[i + k]
  <2>1. \A k \in (i + 1)..Len(s) : s[k] \in S
    BY <1>1
  <2>2. /\ b \in Seq(S) /\ Len(b) = IF i + 1 <= Len(s) THEN Len(s) - (i + 1) + 1 ELSE 0
        /\ \A k \in 1..(Len(s) - (i + 1) + 1) : b[k] = s[(i + 1) + k - 1]
    BY <1>1, <2>1, SubSeqProperties
  <2>3. /\ Len(s) - (i + 1) + 1 = Len(s) - i
        /\ (IF i + 1 <= Len(s) THEN Len(s) - (i + 1) + 1 ELSE 0) = Len(s) - i
        /\ \A k \in Nat : (i + 1) + k - 1 = i + k
    <3>1. PICK n \in Nat : n = Len(s)
      BY <1>1
    <3>2. i \in Nat /\ 1 <= i /\ i <= n
      BY <3>1
    <3>3. n - (i + 1) + 1 = n - i /\ (~(i + 1 <= n) => n - i = 0)
      BY <3>2
    <3>4. \A k \in Nat : (i + 1) + k - 1 = i + k
      BY <3>2
    <3>. QED BY <3>1, <3>3, <3>4
  <2>4. \A k \in 1..(Len(s) - i) : k \in Nat
    BY <1>1
  <2>. HIDE DEF b
  <2>. QED BY <2>2, <2>3, <2>4
<1>. HIDE DEF a, b
<1>4. /\ a \o b \in Seq(S) /\ Len(a \o b) = Len(s) - 1
      /\ \A k \in 1..(Len(s) - 1) :
           (a \o b)[k] = IF k <= i - 1 THEN a[k] ELSE b[k - (i - 1)]
  <2>1. /\ a \o b \in Seq(S) /\ Len(a \o b) = Len(a) + Len(b)
        /\ \A k \in 1..(Len(a) + Len(b)) : (a \o b)[k] = IF k <= Len(a) THEN a[k] ELSE b[k - Len(a)]
    BY <1>2, <1>3, ConcatProperties
  <2>2. Len(a) + Len(b) = Len(s) - 1
    BY <1>1, <1>2, <1>3
  <2>. QED BY <1>2, <2>1, <2>2
<1>5. ASSUME NEW k \in 1..(Len(s) - 1)
      PROVE  (a \o b)[k] = IF k < i THEN s[k] ELSE s[k + 1]
  <2>1. CASE k < i
    BY <1>1, <1>2, <1>4, <2>1
  <2>2. CASE ~(k < i)
    <3>1. k - (i - 1) \in 1..(Len(s) - i) /\ i + (k - (i - 1)) = k + 1 /\ ~(k <= i - 1)
      BY <1>1, <2>2
    <3>2. b[k - (i - 1)] = s[k + 1]
      BY <1>3, <3>1
    <3>. QED BY <1>4, <2>2, <3>1, <3>2
  <2>. QED BY <2>1, <2>2
<1>6. DOMAIN (a \o b) = 1..(Len(s) - 1)
  BY <1>4, LenProperties
<1>. QED BY <1>4, <1>5, <1>6 DEF RemoveAt, a, b

(* A record that is deleted is gone, the others stay.                      *)
LEMMA WithoutRecord ==
  ASSUME NEW s \in Seq(Record), IsInjective(s), NEW r
  PROVE  /\ Without(s, r) \in Seq(Record) /\ IsInjective(Without(s, r))
         /\ ToSet(Without(s, r)) = ToSet(s) \ {r}
<1>1. CASE r \notin ToSet(s)
  BY <1>1 DEF Without
<1>2. CASE r \in ToSet(s)
  <2>1. DOMAIN s = 1..Len(s) /\ Len(s) \in Nat
    BY LenProperties
  <2>2. PICK i \in 1..Len(s) : s[i] = r /\ Without(s, r) = RemoveAt(s, i)
    BY <1>2, <2>1 DEF Without, ToSet
  <2>. DEFINE t == RemoveAt(s, i)
  <2>3. /\ t \in Seq(Record) /\ DOMAIN t = 1..(Len(s) - 1)
        /\ \A k \in 1..(Len(s) - 1) : t[k] = IF k < i THEN s[k] ELSE s[k + 1]
    BY RemovedAt
  <2>. HIDE DEF t
  <2>4. \A j, k \in 1..Len(s) : s[j] = s[k] => j = k
    BY <2>1 DEF IsInjective
  <2>5. IsInjective(t)
    <3>1. ASSUME NEW j \in 1..(Len(s) - 1), NEW k \in 1..(Len(s) - 1), t[j] = t[k] PROVE j = k
      <4>1. /\ j \in 1..Len(s) /\ j + 1 \in 1..Len(s) /\ k \in 1..Len(s) /\ k + 1 \in 1..Len(s)
        BY <2>1
      <4>2. CASE j < i /\ k < i
        BY <2>3, <2>4, <3>1, <4>1, <4>2
      <4>3. CASE j < i /\ ~(k < i)
        <5>1. j = k + 1
          BY <2>3, <2>4, <3>1, <4>1, <4>3
        <5>. QED BY <2>1, <4>3, <5>1
      <4>4. CASE ~(j < i) /\ k < i
        <5>1. j + 1 = k
          BY <2>3, <2>4, <3>1, <4>1, <4>4
        <5>. QED BY <2>1, <4>4, <5>1
      <4>5. CASE ~(j < i) /\ ~(k < i)
        <5>1. j + 1 = k + 1
          BY <2>3, <2>4, <3>1, <4>1, <4>5
        <5>. QED BY <5>1
      <4>. QED BY <4>2, <4>3, <4>4, <4>5
    <3>. QED BY <2>3, <3>1 DEF IsInjective
  <2>6. ASSUME NEW x \in ToSet(t) PROVE x \in ToSet(s) /\ x # r
    <3>1. PICK k \in 1..(Len(s) - 1) : t[k] = x
      BY <2>3 DEF ToSet
    <3>2. PICK m \in 1..Len(s) : x = s[m] /\ m # i
      <4>1. /\ k \in 1..Len(s) /\ k + 1 \in 1..Len(s) /\ k < i => k # i
            /\ ~(k < i) => k + 1 # i
        BY <2>1
      <4>. QED BY <2>3, <3>1, <4>1
    <3>. QED BY <2>1, <2>2, <2>4, <3>2 DEF ToSet
  <2>7. ASSUME NEW x \in ToSet(s), x # r PROVE x \in ToSet(t)
    <3>1. PICK m \in 1..Len(s) : s[m] = x /\ m # i
      BY <2>1, <2>2, <2>7 DEF ToSet
    <3>2. CASE m < i
      <4>1. m \in 1..(Len(s) - 1)
        BY <2>1, <3>2
      <4>. QED BY <2>3, <3>1, <3>2, <4>1 DEF ToSet
    <3>3. CASE ~(m < i)
      <4>1. m - 1 \in 1..(Len(s) - 1) /\ ~(m - 1 < i) /\ (m - 1) + 1 = m
        BY <2>1, <3>1, <3>3
      <4>2. t[m - 1] = x
        BY <2>3, <3>1, <4>1
      <4>. QED BY <2>3, <4>1, <4>2 DEF ToSet
    <3>. QED BY <3>2, <3>3
  <2>. QED BY <2>2, <2>3, <2>5, <2>6, <2>7 DEF t
<1>. QED BY <1>1, <1>2

LEMMA WithRecord ==
  ASSUME NEW s \in Seq(Record), IsInjective(s), NEW r \in Record, r \notin ToSet(s)
  PROVE  /\ <<r>> \o s \in Seq(Record) /\ IsInjective(<<r>> \o s)
         /\ ToSet(<<r>> \o s) = ToSet(s) \cup {r}
<1>. DEFINE t == <<r>> \o s
<1>1. /\ DOMAIN s = 1..Len(s) /\ Len(s) \in Nat
      /\ <<r>> \in Seq(Record) /\ Len(<<r>>) = 1 /\ <<r>>[1] = r
  BY LenProperties
<1>2. /\ t \in Seq(Record) /\ Len(t) = 1 + Len(s)
      /\ \A k \in 1..(1 + Len(s)) : t[k] = IF k <= 1 THEN <<r>>[k] ELSE s[k - 1]
  BY <1>1, ConcatProperties
<1>3. DOMAIN t = 1..(1 + Len(s))
  BY <1>2, LenProperties
<1>. HIDE DEF t
<1>4. t[1] = r /\ 1 \in 1..(1 + Len(s))
  BY <1>1, <1>2
<1>5. \A k \in 1..(1 + Len(s)) : k # 1 => k - 1 \in 1..Len(s) /\ t[k] = s[k - 1]
  BY <1>1, <1>2
<1>6. \A k \in 1..Len(s) : k + 1 \in 1..(1 + Len(s)) /\ k + 1 # 1 /\ (k + 1) - 1 = k
  BY <1>1
<1>7. \A k \in 1..Len(s) : s[k] # r
  BY <1>1 DEF ToSet
<1>8. ASSUME NEW j \in 1..(1 + Len(s)), NEW k \in 1..(1 + Len(s)), t[j] = t[k] PROVE j = k
  <2>1. CASE j = 1 \/ k = 1
    BY <1>4, <1>5, <1>7, <1>8, <2>1
  <2>2. CASE j # 1 /\ k # 1
    <3>1. j - 1 = k - 1
      BY <1>1, <1>5, <1>8, <2>2 DEF IsInjective
    <3>. QED BY <3>1
  <2>. QED BY <2>1, <2>2
<1>9. ToSet(t) = ToSet(s) \cup {r}
  <2>1. \A x : x \in ToSet(t) <=> \E k \in 1..(1 + Len(s)) : t[k] = x
    BY <1>3 DEF ToSet
  <2>2. \A x : x \in ToSet(s) <=> \E k \in 1..Len(s) : s[k] = x
    BY <1>1 DEF ToSet
  <2>3. \A k \in 1..Len(s) : t[k + 1] = s[k]
    BY <1>5, <1>6
  <2>. QED BY <1>4, <1>5, <1>6, <2>1, <2>2, <2>3
<1>. QED BY <1>2, <1>3, <1>8, <1>9 DEF IsInjective, t

(* What is sent is in the channel; what drops out of it was missed.        *)
LEMMA Sending ==
  ASSUME HistoryTypeOK, NEW e \in Event, Send(e)
  PROVE  /\ events' \in Seq(Event) /\ Len(events') <= Backlog
         /\ missed \subseteq missed' /\ missed' \subseteq Record
         /\ e \in ToSet(events') /\ ToSet(events') \subseteq ToSet(events) \cup {e}
         /\ \A x \in ToSet(events) : x \in ToSet(events') \/ x.session \in missed'
<1>. DEFINE k == IF Len(events) < Backlog THEN events ELSE Tail(events)
<1>1. /\ events \in Seq(Event) /\ Len(events) <= Backlog /\ Len(events) \in Nat
      /\ missed \subseteq Record /\ Backlog \in Nat /\ Backlog >= 1
      /\ DOMAIN events = 1..Len(events)
  BY BacklogAssumption, LenProperties DEF HistoryTypeOK
<1>2. /\ k \in Seq(Event) /\ Len(k) <= Backlog - 1 /\ Len(k) \in Nat /\ DOMAIN k = 1..Len(k)
      /\ ToSet(k) \subseteq ToSet(events) /\ missed \subseteq missed' /\ missed' \subseteq Record
      /\ \A x \in ToSet(events) : x \in ToSet(k) \/ x.session \in missed'
  <2>1. CASE Len(events) < Backlog
    BY <1>1, <2>1 DEF Send
  <2>2. CASE ~(Len(events) < Backlog)
    <3>1. events # <<>> /\ k = Tail(events) /\ missed' = missed \cup {Head(events).session}
      BY <1>1, <2>2 DEF Send
    <3>2. /\ Head(events) \in Event /\ Tail(events) \in Seq(Event) /\ Head(events) = events[1]
          /\ Len(Tail(events)) = Len(events) - 1
          /\ \A i \in 1..(Len(events) - 1) : Tail(events)[i] = events[i + 1]
      <4>1. events \in Seq(Event) /\ events # <<>>
        BY <1>1, <3>1
      <4>2. Head(events) \in Event /\ Head(events) = events[1]
        BY <4>1
      <4>3. /\ Tail(events) \in Seq(Event) /\ Len(Tail(events)) = Len(events) - 1
            /\ \A i \in 1..Len(Tail(events)) : Tail(events)[i] = events[i + 1]
        BY <4>1, HeadTailProperties
      <4>. QED BY <4>2, <4>3
    <3>3. DOMAIN Tail(events) = 1..(Len(events) - 1)
      BY <3>2, LenProperties
    <3>4. ToSet(Tail(events)) \subseteq ToSet(events)
      BY <1>1, <3>2, <3>3 DEF ToSet
    <3>5. \A i \in 1..Len(events) : i = 1 \/ (i - 1 \in 1..(Len(events) - 1) /\ (i - 1) + 1 = i)
      BY <1>1
    <3>6. \A x \in ToSet(events) : x \in ToSet(Tail(events)) \/ x = events[1]
      <4>1. ASSUME NEW i \in 1..Len(events), i # 1 PROVE events[i] \in ToSet(Tail(events))
        <5>1. i - 1 \in DOMAIN Tail(events) /\ Tail(events)[i - 1] = events[i]
          BY <3>2, <3>3, <3>5, <4>1
        <5>. QED BY <5>1 DEF ToSet
      <4>. QED BY <1>1, <4>1 DEF ToSet
    <3>7. Head(events).session \in Session
      BY <3>2 DEF Event
    <3>8. Len(Tail(events)) <= Backlog - 1 /\ Len(Tail(events)) \in Nat
      <4>1. Len(events) >= 1
        BY <1>1, <2>2
      <4>. QED BY <1>1, <3>2, <4>1
    <3>. QED BY <1>1, <3>1, <3>2, <3>3, <3>4, <3>6, <3>7, <3>8 DEF Record
  <2>. QED BY <2>1, <2>2
<1>3. events' = Append(k, e)
  BY DEF Send
<1>. HIDE DEF k
<1>4. /\ events' \in Seq(Event) /\ Len(events') = Len(k) + 1
      /\ \A i \in 1..Len(k) : events'[i] = k[i]
      /\ events'[Len(k) + 1] = e /\ DOMAIN events' = 1..(Len(k) + 1)
  BY <1>2, <1>3, AppendProperties, LenProperties
<1>5. Len(k) + 1 \in 1..(Len(k) + 1) /\ \A i \in 1..(Len(k) + 1) : i \in 1..Len(k) \/ i = Len(k) + 1
  BY <1>2
<1>6. 1..Len(k) \subseteq 1..(Len(k) + 1)
  BY <1>2
<1>7. ToSet(events') = ToSet(k) \cup {e}
  <2>1. \A x : x \in ToSet(events') <=> \E i \in 1..(Len(k) + 1) : events'[i] = x
    BY <1>4 DEF ToSet
  <2>2. \A x : x \in ToSet(k) <=> \E i \in 1..Len(k) : k[i] = x
    BY <1>2 DEF ToSet
  <2>. QED BY <1>4, <1>5, <1>6, <2>1, <2>2
<1>8. Len(events') <= Backlog
  BY <1>1, <1>2, <1>4
<1>. QED BY <1>2, <1>4, <1>7, <1>8

(***************************************************************************)
(* The handlers                                                            *)
(***************************************************************************)
(* A session whose history and listener stand still.                       *)
LEMMA FollowedFrame ==
  ASSUME NEW s \in Session, Followed(s), UNCHANGED <<recorded, added, job>>, missed \subseteq missed',
         status'[s] = "none" =>
           /\ status[s] = "none" /\ finished'[s] = finished[s] /\ s \notin finishing'
           /\ \A e \in Event : e.session = s /\ OnItsWay(e)' => OnItsWay(e),
         status[s] = "gone" => status'[s] = "gone",
         1..finished'[s] \subseteq counted'[s], s \in finishing' => finished'[s] < Files,
         \/ s \in missed' \/ s \in recorded
         \/ /\ status'[s] = "cancelled" => OnItsWay(Evt("cancelled", s))'
            /\ status'[s] = "completed" /\ finished'[s] = Files => OnItsWay(Evt("completed", s))'
  PROVE  Followed(s)'
BY DEF Followed, Exists

(* Steps that leave the store and the listener alone.                      *)
LEMMA HandlerFrame ==
  ASSUME HistoryInv, UNCHANGED <<listenerVars, job, storeVars>>, HistoryTypeOK',
         \A s \in Session : Followed(s)'
  PROVE  HistoryInv'
<1>1. UNCHANGED <<heard, recorded, job, lock, loaded, file, added, kept>>
  BY DEF listenerVars, storeVars
<1>2. StoreInv' /\ RecordsKept'
  BY <1>1 DEF HistoryInv, StoreInv, RecordsKept
<1>. QED BY <1>2 DEF HistoryInv

LEMMA EventOf ==
  ASSUME NEW kind \in {"progress", "completed", "cancelled"}, NEW s \in Session
  PROVE  Evt(kind, s) \in Event /\ Evt(kind, s).session = s /\ Evt(kind, s).kind = kind
BY DEF Evt, Event

LEMMA HandlerStep ==
  ASSUME HistoryInv, NEW s \in Session,
         CreateSession(s) \/ SessionNext(s)
  PROVE  HistoryInv'
<1>. USE DEF HistoryInv
<1>1. /\ status \in [Session -> {"none", "accepted", "completed", "cancelled", "gone"}]
      /\ counted \in [Session -> SUBSET (1..Files)] /\ finished \in [Session -> 0..Files]
      /\ finishing \subseteq Session /\ owed \subseteq Event /\ Files \in Nat
      /\ \A q \in Session : finished[q] \in Nat /\ finished[q] <= Files
  BY FilesAssumption DEF HistoryTypeOK
<1>2. \A q \in Session : Followed(q) /\ 1..finished[q] \subseteq counted[q]
                        /\ (q \in finishing => finished[q] < Files)
  BY DEF Followed
<1>3. ASSUME CreateSession(s) PROVE HistoryInv'
  <2>1. /\ status[s] = "none" /\ status' = [status EXCEPT ![s] = "accepted"]
        /\ UNCHANGED <<finished, finishing, owed, events, missed>>
        /\ UNCHANGED <<heard, recorded, job, lock, loaded, file, added, kept>>
    BY <1>3 DEF CreateSession, eventVars, listenerVars, storeVars
  <2>2. PICK files \in SUBSET (1..Files) : counted' = [counted EXCEPT ![s] = files]
    BY <1>3 DEF CreateSession
  <2>3. finished[s] = 0
    BY <1>2, <2>1 DEF Followed
  <2>4. HistoryTypeOK'
    BY <1>1, <2>1, <2>2 DEF HistoryTypeOK
  <2>5. ASSUME NEW q \in Session PROVE Followed(q)'
    <3>1. 1..finished[q] \subseteq counted'[q]
      BY <1>1, <1>2, <2>2, <2>3
    <3>. QED BY <1>1, <1>2, <2>1, <3>1 DEF Followed, OnItsWay, Exists
  <2>. QED BY <2>1, <2>4, <2>5, HandlerFrame DEF listenerVars, storeVars
<1>4. ASSUME Chunk(s) PROVE HistoryInv'
  <2>1. /\ status[s] # "none" /\ finished[s] < Files
        /\ counted' = [counted EXCEPT ![s] = @ \cup {finished[s] + 1}] /\ Send(Evt("progress", s))
        /\ UNCHANGED <<status, finished, finishing, owed>>
        /\ UNCHANGED <<heard, recorded, job, lock, loaded, file, added, kept>>
    BY <1>4 DEF Chunk, Open, listenerVars, storeVars
  <2>2. /\ events' \in Seq(Event) /\ Len(events') <= Backlog
        /\ missed \subseteq missed' /\ missed' \subseteq Record
        /\ ToSet(events') \subseteq ToSet(events) \cup {Evt("progress", s)}
        /\ \A x \in ToSet(events) : x \in ToSet(events') \/ x.session \in missed'
    BY <2>1, EventOf, Sending
  <2>3. counted' \in [Session -> SUBSET (1..Files)] /\ \A q \in Session : 1..finished[q] \subseteq counted'[q]
    BY <1>1, <1>2, <2>1
  <2>4. HistoryTypeOK'
    BY <2>1, <2>2, <2>3 DEF HistoryTypeOK
  <2>5. ASSUME NEW q \in Session PROVE Followed(q)'
    <3>1. \A e \in Event : OnItsWay(e)' => OnItsWay(e) \/ e.session = s
      BY <2>1, <2>2, EventOf DEF OnItsWay
    <3>2. \A e \in Event : OnItsWay(e) => OnItsWay(e)' \/ e.session \in missed'
      BY <2>1, <2>2 DEF OnItsWay
    <3>3. \A kind \in {"completed", "cancelled"} :
            OnItsWay(Evt(kind, q)) => OnItsWay(Evt(kind, q))' \/ q \in missed'
      BY <3>2, EventOf
    <3>4. \/ q \in missed' \/ q \in recorded
          \/ /\ status'[q] = "cancelled" => OnItsWay(Evt("cancelled", q))'
             /\ status'[q] = "completed" /\ finished'[q] = Files => OnItsWay(Evt("completed", q))'
      BY <1>2, <2>1, <2>2, <3>3 DEF Followed
    <3>5. status'[q] = "none" => q # s /\ q \notin finishing'
      BY <1>2, <2>1 DEF Followed
    <3>. QED BY <1>2, <2>1, <2>2, <2>3, <3>1, <3>4, <3>5, FollowedFrame
  <2>. QED BY <2>1, <2>4, <2>5, HandlerFrame DEF listenerVars, storeVars
<1>5. ASSUME FinishCheck(s) \/ FinishFails(s) PROVE HistoryInv'
  <2>1. /\ UNCHANGED <<status, counted, finished, owed, events, missed>>
        /\ UNCHANGED <<heard, recorded, job, lock, loaded, file, added, kept>>
        /\ \/ status[s] # "none" /\ finished[s] < Files /\ finishing' = finishing \cup {s}
           \/ finishing' = finishing \ {s}
    BY <1>5 DEF FinishCheck, FinishFails, Open, eventVars, listenerVars, storeVars
  <2>2. HistoryTypeOK'
    BY <1>1, <2>1 DEF HistoryTypeOK
  <2>3. ASSUME NEW q \in Session PROVE Followed(q)'
    BY <1>1, <1>2, <2>1 DEF Followed, OnItsWay, Exists
  <2>. QED BY <2>1, <2>2, <2>3, HandlerFrame DEF listenerVars, storeVars
<1>6. ASSUME FinishRecord(s) PROVE HistoryInv'
  <2>1. /\ s \in finishing /\ finishing' = finishing \ {s}
        /\ owed' = owed \cup {Evt("completed", s)} /\ UNCHANGED <<events, missed>>
        /\ UNCHANGED <<heard, recorded, job, lock, loaded, file, added, kept>>
    BY <1>6 DEF FinishRecord, listenerVars, storeVars
  <2>2. status[s] # "none" /\ finished[s] < Files
    BY <1>2, <2>1 DEF Followed
  <2>3. /\ status' \in [Session -> {"none", "accepted", "completed", "cancelled", "gone"}]
        /\ counted' \in [Session -> SUBSET (1..Files)] /\ finished' \in [Session -> 0..Files]
        /\ \A q \in Session : 1..finished'[q] \subseteq counted'[q]
        /\ \A q \in Session \ {s} : status'[q] = status[q] /\ finished'[q] = finished[q]
        /\ status'[s] \in {status[s], "completed"}
        /\ status[s] = "gone" => status'[s] = "gone"
    <3>1. CASE Exists(s)
      <4>1. /\ finished' = [finished EXCEPT ![s] = @ + 1]
            /\ counted' = [counted EXCEPT ![s] = @ \cup {finished'[s]}]
            /\ status' = [status EXCEPT ![s] = IF AllCounted(counted'[s]) THEN "completed" ELSE @]
        BY <1>6, <3>1 DEF FinishRecord
      <4>2. /\ finished' \in [Session -> 0..Files] /\ finished'[s] = finished[s] + 1
            /\ \A q \in Session \ {s} : finished'[q] = finished[q]
        BY <1>1, <2>2, <4>1
      <4>3. /\ counted' \in [Session -> SUBSET (1..Files)] /\ 1..finished'[s] \subseteq counted'[s]
            /\ \A q \in Session \ {s} : counted'[q] = counted[q]
        <5>1. finished[s] + 1 \in 1..Files /\ \A k \in 1..(finished[s] + 1) : k \in 1..finished[s] \/ k = finished[s] + 1
          BY <1>1, <2>2
        <5>2. counted' = [counted EXCEPT ![s] = counted[s] \cup {finished[s] + 1}]
          BY <4>1, <4>2
        <5>. QED BY <1>1, <1>2, <4>2, <5>1, <5>2
      <4>4. /\ status' \in [Session -> {"none", "accepted", "completed", "cancelled", "gone"}]
            /\ status'[s] \in {status[s], "completed"} /\ status[s] # "gone"
            /\ \A q \in Session \ {s} : status'[q] = status[q]
        BY <1>1, <3>1, <4>1 DEF Exists
      <4>. QED BY <1>2, <4>2, <4>3, <4>4
    <3>2. CASE ~Exists(s)
      BY <1>1, <1>2, <1>6, <3>2 DEF FinishRecord
    <3>. QED BY <3>1, <3>2
  <2>4. HistoryTypeOK'
    BY <1>1, <2>1, <2>3, EventOf DEF HistoryTypeOK
  <2>5. ASSUME NEW q \in Session PROVE Followed(q)'
    <3>1. /\ \A e \in Event : OnItsWay(e)' => OnItsWay(e) \/ e.session = s
          /\ \A e : OnItsWay(e) => OnItsWay(e)'
          /\ OnItsWay(Evt("completed", s))'
      BY <2>1, EventOf DEF OnItsWay
    <3>2. q \in finishing' => q # s /\ finished'[q] < Files
      BY <1>2, <2>1, <2>3
    <3>3. \/ q \in missed' \/ q \in recorded
          \/ /\ status'[q] = "cancelled" => OnItsWay(Evt("cancelled", q))'
             /\ status'[q] = "completed" /\ finished'[q] = Files => OnItsWay(Evt("completed", q))'
      BY <1>2, <2>1, <2>3, <3>1 DEF Followed
    <3>4. status'[q] = "none" => q # s /\ status[q] = "none" /\ q \notin finishing'
      BY <1>2, <2>1, <2>2, <2>3 DEF Followed
    <3>5. status[q] = "gone" => status'[q] = "gone"
      BY <2>3
    <3>. QED BY <1>2, <2>1, <2>3, <3>1, <3>2, <3>3, <3>4, <3>5, FollowedFrame
  <2>. QED BY <2>1, <2>4, <2>5, HandlerFrame DEF listenerVars, storeVars
<1>7. ASSUME CancelSession(s) PROVE HistoryInv'
  <2>1. /\ status[s] \notin {"none", "gone"} /\ status' = [status EXCEPT ![s] = "cancelled"]
        /\ owed' = owed \cup {Evt("cancelled", s)}
        /\ UNCHANGED <<counted, finished, finishing, events, missed>>
        /\ UNCHANGED <<heard, recorded, job, lock, loaded, file, added, kept>>
    BY <1>7 DEF CancelSession, Exists, listenerVars, storeVars
  <2>2. HistoryTypeOK'
    BY <1>1, <2>1, EventOf DEF HistoryTypeOK
  <2>3. ASSUME NEW q \in Session PROVE Followed(q)'
    <3>1. /\ \A e \in Event : OnItsWay(e)' => OnItsWay(e) \/ e.session = s
          /\ \A e : OnItsWay(e) => OnItsWay(e)'
          /\ OnItsWay(Evt("cancelled", s))'
      BY <2>1, EventOf DEF OnItsWay
    <3>2. /\ status'[q] = IF q = s THEN "cancelled" ELSE status[q]
      BY <1>1, <2>1
    <3>3. \/ q \in missed' \/ q \in recorded
          \/ /\ status'[q] = "cancelled" => OnItsWay(Evt("cancelled", q))'
             /\ status'[q] = "completed" /\ finished'[q] = Files => OnItsWay(Evt("completed", q))'
      BY <1>2, <2>1, <3>1, <3>2 DEF Followed
    <3>4. status'[q] = "none" => q # s /\ status[q] = "none" /\ q \notin finishing'
      BY <1>2, <2>1, <3>2 DEF Followed
    <3>. QED BY <1>2, <2>1, <3>1, <3>2, <3>3, <3>4, FollowedFrame
  <2>. QED BY <2>1, <2>2, <2>3, HandlerFrame DEF listenerVars, storeVars
<1>8. ASSUME Prune(s) PROVE HistoryInv'
  <2>1. /\ status[s] \notin {"none", "gone"} /\ status' = [status EXCEPT ![s] = "gone"]
        /\ UNCHANGED <<counted, finished, finishing, owed, events, missed>>
        /\ UNCHANGED <<heard, recorded, job, lock, loaded, file, added, kept>>
    BY <1>8 DEF Prune, Exists, eventVars, listenerVars, storeVars
  <2>2. HistoryTypeOK'
    BY <1>1, <2>1 DEF HistoryTypeOK
  <2>3. ASSUME NEW q \in Session PROVE Followed(q)'
    <3>1. status'[q] = IF q = s THEN "gone" ELSE status[q]
      BY <1>1, <2>1
    <3>. QED BY <1>2, <2>1, <3>1 DEF Followed, OnItsWay, Exists
  <2>. QED BY <2>1, <2>2, <2>3, HandlerFrame DEF listenerVars, storeVars
<1>. QED BY <1>3, <1>4, <1>5, <1>6, <1>7, <1>8 DEF SessionNext

LEMMA EventStep ==
  ASSUME HistoryInv, NEW e \in owed, Emit(e) \/ DropCancel(e)
  PROVE  HistoryInv'
<1>1. /\ HistoryTypeOK /\ e \in Event /\ owed \subseteq Event
      /\ \A q \in Session : Followed(q) /\ 1..finished[q] \subseteq counted[q]
                          /\ (q \in finishing => finished[q] < Files)
  BY DEF HistoryInv, HistoryTypeOK, Followed
<1>2. /\ owed' = owed \ {e} /\ UNCHANGED <<status, counted, finished, finishing>>
      /\ UNCHANGED <<heard, recorded, job, lock, loaded, file, added, kept>>
  BY DEF Emit, DropCancel, sessionVars, listenerVars, storeVars
<1>3. /\ events' \in Seq(Event) /\ Len(events') <= Backlog
      /\ missed \subseteq missed' /\ missed' \subseteq Record
      /\ \A x \in Event : OnItsWay(x)' => OnItsWay(x)
      /\ \A x \in Event : OnItsWay(x) => OnItsWay(x)' \/ x.session \in missed'
  <2>1. CASE Emit(e)
    <3>1. /\ events' \in Seq(Event) /\ Len(events') <= Backlog
          /\ missed \subseteq missed' /\ missed' \subseteq Record
          /\ e \in ToSet(events') /\ ToSet(events') \subseteq ToSet(events) \cup {e}
          /\ \A x \in ToSet(events) : x \in ToSet(events') \/ x.session \in missed'
      BY <1>1, <2>1, Sending DEF Emit
    <3>. QED BY <1>1, <1>2, <3>1 DEF OnItsWay
  <2>2. CASE DropCancel(e)
    <3>1. events' = events /\ missed' = missed \cup {e.session} /\ e.session \in Session
      BY <1>1, <2>2 DEF DropCancel, Event
    <3>. QED BY <1>1, <1>2, <3>1 DEF HistoryTypeOK, OnItsWay, Record
  <2>. QED BY <2>1, <2>2
<1>4. HistoryTypeOK'
  BY <1>1, <1>2, <1>3 DEF HistoryTypeOK
<1>5. ASSUME NEW q \in Session PROVE Followed(q)'
  <2>1. \A kind \in {"completed", "cancelled"} :
          OnItsWay(Evt(kind, q)) => OnItsWay(Evt(kind, q))' \/ q \in missed'
    BY <1>3, EventOf
  <2>2. \/ q \in missed' \/ q \in recorded
        \/ /\ status'[q] = "cancelled" => OnItsWay(Evt("cancelled", q))'
           /\ status'[q] = "completed" /\ finished'[q] = Files => OnItsWay(Evt("completed", q))'
    BY <1>1, <1>2, <1>3, <2>1 DEF Followed
  <2>3. status'[q] = "none" => q \notin finishing'
    BY <1>1, <1>2 DEF Followed
  <2>. QED BY <1>1, <1>2, <1>3, <2>2, <2>3, FollowedFrame
<1>. QED BY <1>2, <1>4, <1>5, HandlerFrame DEF listenerVars, storeVars

(***************************************************************************)
(* The listener                                                            *)
(***************************************************************************)
LEMMA EventIs ==
  ASSUME NEW e \in Event
  PROVE  /\ e.session \in Session /\ e = Evt(e.kind, e.session)
         /\ e.kind \in {"progress", "completed", "cancelled"}
BY DEF Evt, Event

LEMMA JobsDiffer ==
  \A r, q : Add(r) # Nothing /\ (Add(r) = Add(q) => r = q) /\ Add(r).do = "add" /\ Add(r).record = r
BY DEF Add, Nothing

LEMMA ListenerStep ==
  ASSUME HistoryInv, Hear \/ Listen PROVE HistoryInv'
<1>1. /\ HistoryTypeOK /\ StoreInv /\ RecordsKept /\ \A q \in Session : Followed(q)
      /\ UNCHANGED <<status, counted, finished, finishing, owed, missed>>
      /\ UNCHANGED <<lock, loaded, file, added, kept>>
  BY DEF HistoryInv, Hear, Listen, sessionVars, eventVars, storeVars
<1>2. RecordsKept'
  BY <1>1 DEF RecordsKept
<1>3. CASE Hear
  <2>1. /\ heard = Silence /\ job["listener"] = Nothing /\ events # <<>> /\ events \in Seq(Event)
        /\ heard' = Head(events) /\ events' = Tail(events) /\ UNCHANGED <<recorded, job>>
        /\ Len(events) <= Backlog /\ Backlog \in Nat
    BY <1>1, <1>3, BacklogAssumption DEF Hear, HistoryTypeOK
  <2>2. /\ Head(events) \in Event /\ Tail(events) \in Seq(Event)
        /\ Len(Tail(events)) <= Backlog
        /\ ToSet(events) = ToSet(Tail(events)) \cup {Head(events)}
    <3>1. /\ Head(events) \in Event /\ Tail(events) \in Seq(Event) /\ Head(events) = events[1]
          /\ Len(Tail(events)) = Len(events) - 1 /\ Len(events) \in Nat /\ Len(events) >= 1
          /\ \A i \in 1..Len(Tail(events)) : Tail(events)[i] = events[i + 1]
          /\ DOMAIN events = 1..Len(events)
      BY <2>1, HeadTailProperties, LenProperties
    <3>2. DOMAIN Tail(events) = 1..(Len(events) - 1)
      BY <3>1, LenProperties
    <3>3. \A i \in 1..Len(events) : i = 1 \/ (i - 1 \in 1..(Len(events) - 1) /\ (i - 1) + 1 = i)
      BY <3>1
    <3>4. \A i \in 1..(Len(events) - 1) : i + 1 \in 1..Len(events)
      BY <3>1
    <3>5. \A x : x \in ToSet(events) <=> \E i \in 1..Len(events) : events[i] = x
      BY <3>1 DEF ToSet
    <3>6. \A x : x \in ToSet(Tail(events)) <=> \E i \in 1..(Len(events) - 1) : events[i + 1] = x
      BY <3>1, <3>2 DEF ToSet
    <3>7. 1 \in 1..Len(events)
      BY <3>1
    <3>8. \A x : x \in ToSet(events) <=> x \in ToSet(Tail(events)) \/ x = Head(events)
      BY <3>1, <3>3, <3>4, <3>5, <3>6, <3>7
    <3>9. Len(Tail(events)) <= Backlog
      BY <2>1, <3>1
    <3>. QED BY <3>1, <3>8, <3>9
  <2>3. HistoryTypeOK'
    BY <1>1, <2>1, <2>2 DEF HistoryTypeOK
  <2>4. StoreInv'
    BY <1>1, <2>1 DEF StoreInv
  <2>5. \A e \in Event : OnItsWay(e)' <=> OnItsWay(e)
    BY <1>1, <2>1, <2>2, SilenceAssumption DEF OnItsWay
  <2>6. ASSUME NEW q \in Session PROVE Followed(q)'
    <3>1. Evt("completed", q) \in Event /\ Evt("cancelled", q) \in Event
      BY EventOf
    <3>. QED BY <1>1, <2>1, <2>5, <3>1 DEF Followed, Exists
  <2>. QED BY <1>2, <2>3, <2>4, <2>6 DEF HistoryInv
<1>4. CASE Listen
  <2>. DEFINE h == heard.session
              Recorded == heard.kind # "progress" /\ Worth(heard)
  <2>1. /\ heard \in Event /\ heard' = Silence /\ events' = events /\ h \in Session
        /\ job["listener"] = Nothing /\ OnItsWay(heard)
        /\ job \in [Writer -> Job] /\ recorded \subseteq Session
    BY <1>1, <1>4, EventIs DEF Listen, HistoryTypeOK, StoreInv, OnItsWay, eventVars
  <2>2. /\ recorded' = IF Recorded THEN recorded \cup {h} ELSE recorded
        /\ job' = IF Recorded /\ Exists(h) THEN [job EXCEPT !["listener"] = Add(h)] ELSE job
    BY <1>4 DEF Listen
  <2>3. status[h] # "none"
    BY <1>1, <2>1 DEF Followed
  <2>4. Recorded => h \notin recorded
    BY DEF Worth
  <2>5. Recorded /\ Exists(h) => h \notin added
    BY <1>1, <2>1, <2>4 DEF Followed, Exists
  <2>6. HistoryTypeOK'
    <3>1. Add(h) \in Job /\ "listener" \in Writer
      BY <2>1 DEF Add, Job, Record, Writer
    <3>2. job' \in [Writer -> Job] /\ recorded' \subseteq Session
      BY <2>1, <2>2, <3>1
    <3>. QED BY <1>1, <2>1, <3>2 DEF HistoryTypeOK
  <2>7. /\ \A w \in Writer \ {"listener"} : job'[w] = job[w]
        /\ job'["listener"] = IF Recorded /\ Exists(h) THEN Add(h) ELSE Nothing
        /\ {"listener", "sender", "user"} = Writer
    <3>1. "listener" \in Writer
      BY DEF Writer
    <3>. QED BY <2>1, <2>2, <3>1 DEF Writer
  <2>8. StoreInv'
    <3>1. \A w \in lock : w # "listener" /\ w \in Writer
      BY <1>1, <2>1 DEF StoreInv, HistoryTypeOK
    <3>2. job'["sender"] = job["sender"] /\ job'["user"] = job["user"]
      BY <2>7
    <3>3. job'["listener"] # Nothing =>
            \E s \in Session : job'["listener"] = Add(s) /\ s \in recorded' /\ s \notin added'
      BY <1>1, <2>1, <2>2, <2>5, <2>7
    <3>. QED BY <1>1, <2>1, <2>7, <3>1, <3>2, <3>3 DEF StoreInv
  <2>9. \A e \in Event : /\ OnItsWay(e)' => OnItsWay(e)
                         /\ OnItsWay(e) /\ e # heard => OnItsWay(e)'
    BY <1>1, <2>1, SilenceAssumption DEF OnItsWay
  <2>. HIDE DEF h, Recorded
  <2>10. ASSUME NEW q \in Session PROVE Followed(q)'
    <3>1. Followed(q) /\ (Exists(q)' <=> Exists(q))
      BY <1>1 DEF Exists
    <3>2. q \in recorded => q \in recorded'
      BY <2>2
    <3>3. q \in recorded' => q \in recorded \/ (q = h /\ Recorded)
      BY <2>2
    <3>4. status'[q] = "none" => /\ finished'[q] = 0 /\ q \notin recorded' /\ q \notin added' /\ q \notin finishing'
                                /\ \A e \in Event : e.session = q => ~OnItsWay(e)'
      BY <1>1, <2>3, <2>9, <3>1, <3>3 DEF Followed
    <3>5. q \in added' => q \in recorded' \/ status'[q] = "gone"
      BY <1>1, <3>1, <3>2 DEF Followed
    <3>6. q \in recorded' /\ Exists(q)' => q \in added' \/ q \in missed' \/ job'["listener"] = Add(q)
      BY <1>1, <2>1, <2>7, <3>1, <3>3, JobsDiffer DEF Followed
    <3>7. \/ q \in missed' \/ q \in recorded'
          \/ /\ status'[q] = "cancelled" => OnItsWay(Evt("cancelled", q))'
             /\ status'[q] = "completed" /\ finished'[q] = Files => OnItsWay(Evt("completed", q))'
      <4>1. SUFFICES ASSUME q \notin missed, q \notin recorded'
                     PROVE  /\ status[q] = "cancelled" => OnItsWay(Evt("cancelled", q))'
                            /\ status[q] = "completed" /\ finished[q] = Files => OnItsWay(Evt("completed", q))'
        BY <1>1
      <4>2. /\ status[q] = "cancelled" => OnItsWay(Evt("cancelled", q))
            /\ status[q] = "completed" /\ finished[q] = Files => OnItsWay(Evt("completed", q))
        BY <3>1, <3>2, <4>1 DEF Followed
      <4>3. ASSUME status[q] = "cancelled" PROVE Evt("cancelled", q) # heard
        <5>1. SUFFICES ASSUME Evt("cancelled", q) = heard PROVE FALSE
          OBVIOUS
        <5>2. heard.kind = "cancelled" /\ h = q
          BY <5>1, EventOf DEF h
        <5>3. Recorded
          BY <3>2, <4>1, <5>2 DEF Worth, Recorded, h
        <5>. QED BY <2>2, <4>1, <5>2, <5>3
      <4>4. ASSUME status[q] = "completed", finished[q] = Files PROVE Evt("completed", q) # heard
        <5>1. SUFFICES ASSUME Evt("completed", q) = heard PROVE FALSE
          OBVIOUS
        <5>2. heard.kind = "completed" /\ h = q
          BY <5>1, EventOf DEF h
        <5>3. Exists(q) /\ AllCounted(counted[q])
          <6>1. counted[q] \in SUBSET (1..Files) /\ 1..finished[q] \subseteq counted[q]
            BY <1>1, <3>1, FilesAssumption DEF HistoryTypeOK, Followed
          <6>. QED BY <4>4, <6>1 DEF Exists, AllCounted
        <5>4. Recorded
          BY <3>2, <4>1, <5>2, <5>3 DEF Worth, Recorded, h
        <5>. QED BY <2>2, <4>1, <5>2, <5>4
      <4>. QED BY <2>9, <4>2, <4>3, <4>4, EventOf
    <3>. QED BY <1>1, <3>1, <3>4, <3>5, <3>6, <3>7 DEF Followed
  <2>. QED BY <1>2, <2>6, <2>8, <2>10 DEF HistoryInv
<1>. QED BY <1>3, <1>4

(***************************************************************************)
(* The writers                                                             *)
(***************************************************************************)
LEMMA WantStep ==
  ASSUME HistoryInv,
         \/ \E t \in Sent : RecordSent(t)
         \/ \E i \in DOMAIN file : DeleteRecord(i)
         \/ ClearHistory
  PROVE  HistoryInv'
<1>1. HistoryTypeOK /\ StoreInv /\ RecordsKept /\ \A q \in Session : Followed(q)
  BY DEF HistoryInv
<1>2. PICK w \in {"sender", "user"}, wanted \in Job :
        /\ Want(w, wanted)
        /\ w = "sender" => \E t \in Sent : wanted = Add(t) /\ t \notin added
        /\ w = "user" => wanted.do # "add"
  <2>1. ASSUME NEW t \in Sent, RecordSent(t) PROVE Add(t) \in Job /\ t \notin added /\ Want("sender", Add(t))
    BY <2>1 DEF RecordSent, Add, Job, Record
  <2>2. ASSUME NEW i \in DOMAIN file, DeleteRecord(i)
        PROVE  \E wanted \in Job : Want("user", wanted) /\ wanted.do # "add"
    <3>1. file[i] \in Record
      BY <1>1 DEF HistoryTypeOK
    <3>2. [do |-> "delete", record |-> file[i]] \in Job
      BY <3>1 DEF Job
    <3>. QED BY <2>2, <3>2 DEF DeleteRecord
  <2>3. ASSUME ClearHistory PROVE \E wanted \in Job : Want("user", wanted) /\ wanted.do # "add"
    BY <2>3 DEF ClearHistory, Job
  <2>. QED BY <2>1, <2>2, <2>3
<1>3. /\ job[w] = Nothing /\ job' = [job EXCEPT ![w] = wanted] /\ w \in Writer /\ w # "listener"
      /\ UNCHANGED <<status, counted, finished, finishing, owed, events, missed, heard, recorded>>
      /\ UNCHANGED <<lock, loaded, file, added, kept>>
  BY <1>2 DEF Want, Writer, sessionVars, eventVars, listenerVars, storeVars
<1>4. /\ job' \in [Writer -> Job] /\ job'[w] = wanted
      /\ \A v \in Writer \ {w} : job'[v] = job[v]
      /\ Writer = {"listener", "sender", "user"}
  BY <1>1, <1>3 DEF HistoryTypeOK, Writer
<1>5. HistoryTypeOK' /\ RecordsKept'
  BY <1>1, <1>3, <1>4 DEF HistoryTypeOK, RecordsKept
<1>6. StoreInv'
  <2>1. \A v \in lock : v # w /\ v \in Writer
    BY <1>1, <1>3 DEF StoreInv, HistoryTypeOK
  <2>2. job'["sender"] # Nothing => \E t \in Sent : job'["sender"] = Add(t) /\ t \notin added'
    BY <1>1, <1>2, <1>3, <1>4 DEF StoreInv
  <2>3. job'["user"].do # "add" /\ job'["listener"] = job["listener"]
    BY <1>1, <1>2, <1>3, <1>4 DEF StoreInv
  <2>. QED BY <1>1, <1>3, <1>4, <2>1, <2>2, <2>3 DEF StoreInv
<1>7. ASSUME NEW q \in Session PROVE Followed(q)'
  <2>1. job'["listener"] = job["listener"]
    BY <1>3, <1>4
  <2>. QED BY <1>1, <1>3, <2>1 DEF Followed, OnItsWay, Exists
<1>. QED BY <1>5, <1>6, <1>7 DEF HistoryInv

LEMMA LoadStep ==
  ASSUME HistoryInv, NEW w \in Writer, Load(w) PROVE HistoryInv'
<1>1. HistoryTypeOK /\ StoreInv /\ RecordsKept /\ \A q \in Session : Followed(q)
  BY DEF HistoryInv
<1>2. /\ job[w] # Nothing /\ lock' = {w} /\ loaded' = [loaded EXCEPT ![w] = file]
      /\ UNCHANGED <<status, counted, finished, finishing, owed, events, missed, heard, recorded>>
      /\ UNCHANGED <<job, file, added, kept>>
  BY DEF Load, sessionVars, eventVars, listenerVars
<1>3. HistoryTypeOK' /\ RecordsKept'
  BY <1>1, <1>2 DEF HistoryTypeOK, RecordsKept
<1>4. StoreInv'
  BY <1>1, <1>2 DEF StoreInv, HistoryTypeOK
<1>5. ASSUME NEW q \in Session PROVE Followed(q)'
  BY <1>1, <1>2 DEF Followed, OnItsWay, Exists
<1>. QED BY <1>3, <1>4, <1>5 DEF HistoryInv

(* What a writer stores is what it was asked to, on top of the file.       *)
LEMMA StoreStep ==
  ASSUME HistoryInv, NEW w \in Writer, Store(w) PROVE HistoryInv'
<1>1. HistoryTypeOK /\ StoreInv /\ RecordsKept /\ \A q \in Session : Followed(q)
  BY DEF HistoryInv
<1>2. /\ w \in lock /\ job[w] # Nothing /\ loaded[w] = file /\ lock = {w}
      /\ file \in Seq(Record) /\ added \subseteq Record /\ kept \subseteq added
      /\ IsInjective(file) /\ ToSet(file) = kept
      /\ job \in [Writer -> Job] /\ loaded \in [Writer -> Seq(Record)]
  BY <1>1 DEF Store, StoreInv, HistoryTypeOK, RecordsKept
<1>3. /\ file' = Changed(w) /\ lock' = {}
      /\ added' = IF job[w].do = "add" THEN added \cup {job[w].record} ELSE added
      /\ job' = [job EXCEPT ![w] = Nothing] /\ loaded' = [loaded EXCEPT ![w] = <<>>]
      /\ UNCHANGED <<status, counted, finished, finishing, owed, events, missed, heard, recorded>>
  BY <1>2 DEF Store, sessionVars, eventVars, listenerVars
<1>4. /\ Writer = {"listener", "sender", "user"} /\ Nothing \in Job
      /\ job' \in [Writer -> Job] /\ job'[w] = Nothing
      /\ \A v \in Writer \ {w} : job'[v] = job[v]
      /\ loaded' \in [Writer -> Seq(Record)]
  BY <1>2, <1>3 DEF Writer, Job, Nothing
(* A new record is one of a transfer of this writer's own.                 *)
<1>5. ASSUME job[w].do = "add"
      PROVE  \E r \in Record : /\ job[w] = Add(r) /\ r \notin added
                               /\ \/ w = "listener" /\ r \in Session /\ r \in recorded
                                  \/ w = "sender" /\ r \in Sent
  BY <1>1, <1>2, <1>4, <1>5 DEF StoreInv, Record
<1>6. /\ file' \in Seq(Record) /\ IsInjective(file') /\ ToSet(file') = kept'
      /\ added' \subseteq Record /\ kept' \subseteq added'
  <2>1. CASE job[w].do = "add"
    <3>1. PICK r \in Record : job[w] = Add(r) /\ r \notin added
      BY <1>5, <2>1
    <3>2. job[w].record = r
      BY <3>1, JobsDiffer
    <3>3. file' = <<r>> \o file /\ kept' = kept \cup {r} /\ added' = added \cup {r}
      BY <1>2, <1>3, <2>1, <3>2 DEF Store, Changed
    <3>. QED BY <1>2, <3>1, <3>3, WithRecord
  <2>2. CASE job[w].do = "delete"
    <3>1. /\ file' = Without(file, job[w].record) /\ kept' = kept \ {job[w].record}
          /\ added' = added
      BY <1>2, <1>3, <2>2 DEF Store, Changed
    <3>. QED BY <1>2, <3>1, WithoutRecord
  <2>3. CASE job[w].do = "clear"
    <3>1. file' = <<>> /\ kept' = {} /\ added' = added
      BY <1>2, <1>3, <2>3 DEF Store, Changed
    <3>. QED BY <1>2, <3>1, EmptySeq DEF IsInjective, ToSet
  <2>4. job[w].do \in {"add", "delete", "clear"}
    BY <1>2 DEF Job, Nothing
  <2>. QED BY <2>1, <2>2, <2>3, <2>4
<1>7. HistoryTypeOK' /\ RecordsKept'
  BY <1>1, <1>3, <1>4, <1>6 DEF HistoryTypeOK, RecordsKept
<1>8. \A s \in Session : s \in added' => s \in added \/ (w = "listener" /\ job[w] = Add(s))
  BY <1>3, <1>5, JobsDiffer, TokensAssumption
<1>9. \A t \in Sent : t \in added' => t \in added \/ w = "sender"
  BY <1>3, <1>5, JobsDiffer, TokensAssumption
<1>10. StoreInv'
  <2>1. job'["listener"] # Nothing =>
          \E s \in Session : job'["listener"] = Add(s) /\ s \in recorded' /\ s \notin added'
    BY <1>1, <1>3, <1>4, <1>8 DEF StoreInv
  <2>2. job'["sender"] # Nothing => \E t \in Sent : job'["sender"] = Add(t) /\ t \notin added'
    BY <1>1, <1>3, <1>4, <1>9 DEF StoreInv
  <2>3. job'["user"].do # "add"
    BY <1>1, <1>4 DEF StoreInv, Nothing
  <2>4. heard' # Silence => job'["listener"] = Nothing
    BY <1>1, <1>3, <1>4 DEF StoreInv
  <2>. QED BY <1>3, <2>1, <2>2, <2>3, <2>4 DEF StoreInv
<1>11. ASSUME NEW q \in Session PROVE Followed(q)'
  <2>1. Followed(q) /\ (Exists(q)' <=> Exists(q)) /\ \A e : OnItsWay(e)' <=> OnItsWay(e)
    BY <1>1, <1>3 DEF Exists, OnItsWay
  <2>2. q \in added => q \in added'
    BY <1>3
  <2>3. q \in added' => q \in added \/ q \in recorded
    BY <1>1, <1>2, <1>8, JobsDiffer DEF StoreInv
  <2>4. job["listener"] = Add(q) => q \in added' \/ job'["listener"] = Add(q)
    <3>1. CASE w = "listener"
      BY <1>3, <3>1, JobsDiffer
    <3>2. CASE w # "listener"
      BY <1>4, <3>2
    <3>. QED BY <3>1, <3>2
  <2>. QED BY <1>3, <2>1, <2>2, <2>3, <2>4 DEF Followed
<1>. QED BY <1>7, <1>10, <1>11 DEF HistoryInv

(* A record that is not stored is missed, and the file is as it was.       *)
LEMMA StoreFailsStep ==
  ASSUME HistoryInv, NEW w \in Writer, StoreFails(w) PROVE HistoryInv'
<1>1. HistoryTypeOK /\ StoreInv /\ RecordsKept /\ \A q \in Session : Followed(q)
  BY DEF HistoryInv
<1>2. /\ w \in lock /\ lock = {w} /\ lock' = {} /\ job[w] \in Job
      /\ missed' = IF job[w].do = "add" THEN missed \cup {job[w].record} ELSE missed
      /\ job' = [job EXCEPT ![w] = Nothing] /\ loaded' = [loaded EXCEPT ![w] = <<>>]
      /\ UNCHANGED <<status, counted, finished, finishing, owed, events, heard, recorded>>
      /\ UNCHANGED <<file, added, kept>>
  BY <1>1 DEF StoreFails, StoreInv, HistoryTypeOK, sessionVars, listenerVars
<1>3. /\ Writer = {"listener", "sender", "user"} /\ Nothing \in Job
      /\ job' \in [Writer -> Job] /\ job'[w] = Nothing
      /\ \A v \in Writer \ {w} : job'[v] = job[v]
      /\ loaded' \in [Writer -> Seq(Record)]
  BY <1>1, <1>2 DEF HistoryTypeOK, Writer, Job, Nothing
<1>4. missed \subseteq missed' /\ missed' \subseteq Record
  BY <1>1, <1>2 DEF HistoryTypeOK, Job
<1>5. HistoryTypeOK' /\ RecordsKept'
  BY <1>1, <1>2, <1>3, <1>4 DEF HistoryTypeOK, RecordsKept
<1>6. StoreInv'
  BY <1>1, <1>2, <1>3 DEF StoreInv, Nothing
<1>7. ASSUME NEW q \in Session PROVE Followed(q)'
  <2>1. Followed(q) /\ (Exists(q)' <=> Exists(q)) /\ \A e : OnItsWay(e)' <=> OnItsWay(e)
    BY <1>1, <1>2 DEF Exists, OnItsWay
  <2>2. job["listener"] = Add(q) => q \in missed' \/ job'["listener"] = Add(q)
    BY <1>2, <1>3, JobsDiffer
  <2>. QED BY <1>2, <1>4, <2>1, <2>2 DEF Followed
<1>. QED BY <1>5, <1>6, <1>7 DEF HistoryInv

(***************************************************************************)
(* The process                                                             *)
(***************************************************************************)
LEMMA KillStep ==
  ASSUME HistoryInv, Kill PROVE HistoryInv'
<1>1. HistoryTypeOK /\ StoreInv /\ RecordsKept /\ \A q \in Session : Followed(q)
  BY DEF HistoryInv
<1>2. /\ status' = [s \in Session |-> IF Exists(s) THEN "gone" ELSE status[s]]
      /\ missed' = missed \cup {s \in Session : Exists(s)}
      /\ finishing' = {} /\ owed' = {} /\ events' = <<>> /\ heard' = Silence /\ recorded' = {}
      /\ job' = [w \in Writer |-> Nothing] /\ loaded' = [w \in Writer |-> <<>>] /\ lock' = {}
      /\ UNCHANGED <<counted, finished, file, added, kept>>
  BY DEF Kill
<1>3. RecordsKept'
  BY <1>1, <1>2 DEF RecordsKept
<1>4. HistoryTypeOK'
  <2>1. /\ Nothing \in Job /\ <<>> \in Seq(Record) /\ <<>> \in Seq(Event) /\ Len(<<>>) = 0
    BY DEF Job, Nothing
  <2>2. status' \in [Session -> {"none", "accepted", "completed", "cancelled", "gone"}]
    BY <1>1, <1>2 DEF HistoryTypeOK
  <2>3. job' \in [Writer -> Job] /\ loaded' \in [Writer -> Seq(Record)]
    BY <1>2, <2>1
  <2>4. 0 <= Backlog
    BY BacklogAssumption
  <2>. QED BY <1>1, <1>2, <2>1, <2>2, <2>3, <2>4 DEF HistoryTypeOK, Record
<1>5. StoreInv'
  <2>1. \A w \in {"listener", "sender", "user"} : job'[w] = Nothing
    BY <1>2 DEF Writer
  <2>. QED BY <1>2, <2>1 DEF StoreInv, Nothing
<1>6. ASSUME NEW q \in Session PROVE Followed(q)'
  <2>1. status'[q] = (IF Exists(q) THEN "gone" ELSE status[q]) /\ status'[q] \in {"none", "gone"}
    BY <1>2 DEF Exists
  <2>2. \A e \in Event : ~OnItsWay(e)'
    BY <1>2, SilenceAssumption DEF OnItsWay, ToSet
  <2>. QED BY <1>1, <1>2, <2>1, <2>2 DEF Followed, Exists
<1>. QED BY <1>3, <1>4, <1>5, <1>6 DEF HistoryInv

LEMMA HistoryStarts == HistoryInit => HistoryInv
<1>. SUFFICES ASSUME HistoryInit PROVE HistoryInv
  OBVIOUS
<1>. USE DEF HistoryInit
<1>1. /\ Nothing \in Job /\ <<>> \in Seq(Record) /\ <<>> \in Seq(Event) /\ Len(<<>>) = 0
      /\ 0 <= Backlog /\ 0 \in 0..Files /\ ToSet(<<>>) = {} /\ IsInjective(<<>>)
  BY BacklogAssumption, FilesAssumption DEF Job, Nothing, ToSet, IsInjective
<1>2. HistoryTypeOK
  <2>1. job \in [Writer -> Job] /\ loaded \in [Writer -> Seq(Record)]
    BY <1>1
  <2>2. /\ status \in [Session -> {"none", "accepted", "completed", "cancelled", "gone"}]
        /\ counted \in [Session -> SUBSET (1..Files)] /\ finished \in [Session -> 0..Files]
    BY <1>1
  <2>. QED BY <1>1, <2>1, <2>2 DEF HistoryTypeOK
<1>3. RecordsKept
  BY <1>1 DEF RecordsKept
<1>4. StoreInv
  <2>1. \A w \in {"listener", "sender", "user"} : job[w] = Nothing
    BY DEF Writer
  <2>. QED BY <2>1 DEF StoreInv, Nothing
<1>5. ASSUME NEW q \in Session PROVE Followed(q)
  <2>1. \A e \in Event : ~OnItsWay(e)
    BY <1>1, SilenceAssumption DEF OnItsWay
  <2>. QED BY <2>1 DEF Followed, Exists
<1>. QED BY <1>2, <1>3, <1>4, <1>5 DEF HistoryInv

LEMMA HistoryStep ==
  ASSUME HistoryInv, HistoryNext \/ UNCHANGED historyVars PROVE HistoryInv'
<1>1. CASE HistoryNext
  BY <1>1, HandlerStep, EventStep, ListenerStep, WantStep, LoadStep, StoreStep, StoreFailsStep DEF HistoryNext
<1>2. CASE UNCHANGED historyVars
  <2>1. UNCHANGED <<status, counted, finished, finishing, owed, events, missed, heard, recorded,
                    job, lock, loaded, file, added, kept>>
    BY <1>2 DEF historyVars, sessionVars, eventVars, listenerVars, storeVars
  <2>2. HistoryTypeOK' /\ RecordsKept' /\ StoreInv'
    BY <2>1 DEF HistoryInv, HistoryTypeOK, RecordsKept, StoreInv
  <2>3. \A q \in Session : Followed(q)'
    BY <2>1 DEF HistoryInv, Followed, OnItsWay, Exists
  <2>. QED BY <2>2, <2>3 DEF HistoryInv
<1>. QED BY <1>1, <1>2

(* With nothing left on its way, what has ended is recorded or was missed. *)
LEMMA QuietIsRecorded == HistoryInv => EndedIsRecorded
<1>. SUFFICES ASSUME HistoryInv, Quiet, NEW s \in Session, Ended(s), s \notin missed
              PROVE  s \in added
  BY DEF EndedIsRecorded
<1>1. Followed(s) /\ status[s] \in {"completed", "cancelled"}
  BY DEF HistoryInv, Ended
<1>2. ~OnItsWay(Evt("completed", s)) /\ ~OnItsWay(Evt("cancelled", s))
  BY SilenceAssumption, EventOf DEF Quiet, OnItsWay, ToSet
<1>3. s \in recorded /\ Exists(s)
  BY <1>1, <1>2 DEF Followed, Ended, Exists
<1>. QED BY <1>1, <1>3, JobsDiffer DEF Followed, Quiet

=============================================================================
