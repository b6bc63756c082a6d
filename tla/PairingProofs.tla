--------------------------- MODULE PairingProofs ---------------------------
(***************************************************************************)
(* Proofs about Pairing: the registry and its file, the windows in which   *)
(* attempts are counted, and the guesses a PIN sees.                       *)
(***************************************************************************)
EXTENDS Pairing, FiniteSetTheorems, SequenceTheorems, TLAPS

(***************************************************************************)
(* Types                                                                   *)
(***************************************************************************)
(* TypeOK, with the bounded sequences written as TLAPS reasons about them. *)
Stored(s) == s \in Seq(Run) /\ Len(s) <= MaxKeys

Typed ==
  /\ open \in 0..Window /\ since \in 0..Minute
  /\ attempts \in 0..PerMinute /\ unconfirmed \in 0..BeforeRotation
  /\ pending \subseteq Run /\ keys \subseteq Run
  /\ Stored(order) /\ Stored(file)
  /\ storing \in BOOLEAN /\ remember \in BOOLEAN
  /\ at \in [Run -> Stage] /\ knows \in [Run -> BOOLEAN]
  /\ age \in [Run -> 0..LongAgo]
  /\ guesses \in Nat

LEMMA StoredIsRunSeq == \A s : s \in RunSeq <=> Stored(s)
<1>1. ASSUME NEW s, s \in RunSeq PROVE Stored(s)
  <2>1. PICK n \in 0..MaxKeys : s \in [1..n -> Run]
    BY <1>1 DEF RunSeq
  <2>2. s \in Seq(Run) /\ Len(s) = n
    BY <2>1, SeqDef, LimitAssumption
  <2>. QED BY <2>1, <2>2, LimitAssumption DEF Stored
<1>2. ASSUME NEW s, Stored(s) PROVE s \in RunSeq
  <2>1. Len(s) \in 0..MaxKeys /\ s \in [1..Len(s) -> Run]
    BY <1>2, LenProperties, LimitAssumption DEF Stored
  <2>. QED BY <2>1 DEF RunSeq
<1>. QED BY <1>1, <1>2

LEMMA TypedIsTypeOK == TypeOK <=> Typed
BY StoredIsRunSeq DEF TypeOK, Typed

(* The limits are positive numbers.                                        *)
LEMMA Limits ==
  /\ PerMinute \in Nat /\ PerMinute >= 1
  /\ BeforeRotation \in Nat /\ BeforeRotation >= 1
  /\ MaxPending \in Nat /\ MaxPending >= 1
  /\ MaxKeys \in Nat /\ MaxKeys >= 1
  /\ Minute \in Nat /\ Minute >= 1
  /\ Window \in Nat /\ Window >= 1
  /\ LongAgo \in Nat /\ LongAgo >= Minute
BY LimitAssumption DEF LongAgo

(* The file gets the new content or, if that fails, keeps its own.         *)
LEMMA Rewritten ==
  ASSUME NEW content, Rewrite(content)
  PROVE  /\ file' = content \/ file' = file
         /\ "disk" \notin Faults => file' = content
BY DEF Rewrite

(* A key appended to a full registry drops the oldest.                     *)
Kept(s) == IF Len(s) >= MaxKeys THEN Tail(s) ELSE s
Added(s, r) == Append(Kept(s), r)

LEMMA AddedStored ==
  ASSUME NEW s, Stored(s), NEW r \in Run
  PROVE  /\ Stored(Added(s, r))
         /\ Elems(Added(s, r)) = Elems(Kept(s)) \cup {r}
         /\ \A k \in DOMAIN Kept(s) : Added(s, r)[k] = Kept(s)[k]
         /\ DOMAIN Added(s, r) = 1..(Len(Kept(s)) + 1)
         /\ Added(s, r)[Len(Kept(s)) + 1] = r
<1>1. Kept(s) \in Seq(Run) /\ Len(Kept(s)) <= MaxKeys - 1 /\ Len(Kept(s)) \in Nat
  <2>1. CASE Len(s) >= MaxKeys
    <3>1. s # <<>>
      BY <2>1, Limits DEF Stored
    <3>. QED BY <2>1, <3>1, HeadTailProperties, Limits DEF Stored, Kept
  <2>2. CASE ~(Len(s) >= MaxKeys)
    BY <2>2, Limits DEF Stored, Kept
  <2>. QED BY <2>1, <2>2
<1>. DEFINE k == Kept(s)
<1>2. /\ Append(k, r) \in Seq(Run) /\ Len(Append(k, r)) = Len(k) + 1
      /\ \A i \in 1..Len(k) : Append(k, r)[i] = k[i]
      /\ Append(k, r)[Len(k) + 1] = r
      /\ DOMAIN Append(k, r) = 1..(Len(k) + 1) /\ DOMAIN k = 1..Len(k)
  BY <1>1, AppendProperties, LenProperties
<1>3. Elems(Append(k, r)) = Elems(k) \cup {r}
  <2>1. \A x : x \in Elems(Append(k, r)) <=> \E i \in 1..(Len(k) + 1) : Append(k, r)[i] = x
    BY <1>2 DEF Elems
  <2>2. \A x : x \in Elems(k) <=> \E i \in 1..Len(k) : k[i] = x
    BY <1>2 DEF Elems
  <2>. HIDE DEF k
  <2>3. \A i \in 1..(Len(k) + 1) : i \in 1..Len(k) \/ i = Len(k) + 1
    BY <1>1 DEF k
  <2>4. Len(k) + 1 \in 1..(Len(k) + 1) /\ 1..Len(k) \subseteq 1..(Len(k) + 1)
    BY <1>1 DEF k
  <2>. QED BY <1>2, <2>1, <2>2, <2>3, <2>4
<1>. QED BY <1>1, <1>2, <1>3, Limits DEF Stored, Added

(* Accept in these terms, when keys and order agree.                       *)
LEMMA AcceptIsAdded ==
  ASSUME Typed, NEW r \in Run, Accept(r), keys = Elems(order),
         \A i, j \in DOMAIN order : order[i] = order[j] => i = j
  PROVE  /\ order' = Added(order, r) /\ keys' = Elems(Kept(order)) \cup {r}
         /\ Rewrite(IF storing THEN order' ELSE file)
<1>1. order' = Added(order, r)
  BY DEF Accept, Added, Kept
<1>2. CASE Len(order) >= MaxKeys
  <2>1. order \in Seq(Run) /\ order # <<>> /\ Kept(order) = Tail(order)
    BY <1>2, Limits DEF Typed, Stored, Kept
  <2>2. /\ DOMAIN order = 1..Len(order) /\ Len(order) \in Nat /\ Len(order) >= 1
        /\ Head(order) = order[1]
        /\ DOMAIN Kept(order) = 1..(Len(order) - 1)
        /\ \A i \in 1..(Len(order) - 1) : Kept(order)[i] = order[i + 1]
    BY <2>1
  <2>3. Elems(Kept(order)) = Elems(order) \ {Head(order)}
    <3>1. ASSUME NEW i \in 1..Len(order) PROVE i = 1 \/ (i - 1 \in 1..(Len(order) - 1) /\ (i - 1) + 1 = i)
      BY <2>2
    <3>2. \A x : x \in Elems(order) <=> \E i \in 1..Len(order) : order[i] = x
      BY <2>2 DEF Elems
    <3>3. \A x : x \in Elems(Kept(order)) <=> \E i \in 1..(Len(order) - 1) : order[i + 1] = x
      <4>1. \A x : x \in Elems(Kept(order)) <=> \E i \in DOMAIN Kept(order) : Kept(order)[i] = x
        BY DEF Elems
      <4>2. \A i : i \in DOMAIN Kept(order) <=> i \in 1..(Len(order) - 1)
        BY <2>2
      <4>3. \A i \in 1..(Len(order) - 1) : Kept(order)[i] = order[i + 1]
        BY <2>2
      <4>. QED BY ONLY <4>1, <4>2, <4>3, Zenon
    <3>4. \A i \in 1..(Len(order) - 1) : i + 1 \in 1..Len(order) /\ i + 1 # 1 /\ 1 \in 1..Len(order)
      BY <2>2
    <3>5. \A i \in 1..(Len(order) - 1) : order[i + 1] # order[1]
      BY <2>2, <3>4
    <3>6. ASSUME NEW x, x \in Elems(order), x # order[1] PROVE x \in Elems(Kept(order))
      <4>1. PICK i \in 1..Len(order) : order[i] = x
        BY <3>2, <3>6
      <4>. QED BY <3>1, <3>3, <3>6, <4>1
    <3>7. ASSUME NEW x, x \in Elems(Kept(order)) PROVE x \in Elems(order) /\ x # order[1]
      BY <3>2, <3>3, <3>4, <3>5, <3>7
    <3>. QED BY <2>2, <3>6, <3>7
  <2>. QED BY <1>1, <1>2, <2>3 DEF Accept, Persist
<1>3. CASE ~(Len(order) >= MaxKeys)
  BY <1>1, <1>3 DEF Accept, Persist, Kept
<1>. QED BY <1>2, <1>3

(***************************************************************************)
(* The invariant                                                           *)
(***************************************************************************)
Distinct(s) == \A i, j \in DOMAIN s : s[i] = s[j] => i = j

(* A run that has not been answered is nowhere in the registry, so what is *)
(* accepted is new there, also in the file a restart may come back to.     *)
Synced == "disk" \notin Faults /\ storing => file = order

RegistryInv ==
  /\ keys = Elems(order) /\ Distinct(order) /\ Distinct(file)
  /\ Cardinality(pending) <= MaxPending /\ pending \cap keys = {}
  /\ \A r \in Run : at[r] \in {"idle", "rotate", "read"} =>
       r \notin pending /\ r \notin keys /\ r \notin Elems(file)
  /\ Synced

(* The runs of this tick were counted in this window; those of this minute *)
(* in this one or in the one before it.                                    *)
Now == {r \in Run : age[r] = 0}
Since(prev) == {r \in Run \ prev : age[r] < Minute}

WindowInv ==
  /\ Cardinality(Now) <= attempts
  /\ since >= Minute => Now = {}
  /\ \E prev \in SUBSET Run :
       /\ Cardinality(prev) <= PerMinute
       /\ \A r \in prev : age[r] >= since
       /\ Cardinality(Since(prev)) <= attempts

(* While no rotation is due, each guess was counted as unconfirmed, but    *)
(* for those that were on their way when a pairing was confirmed.  Behind  *)
(* a due one there are only the runs of this tick.                         *)
Due == \E r \in Run : at[r] = "rotate"

GuessInv ==
  /\ Handled \subseteq Now /\ \A r \in Now : at[r] # "idle"
  /\ IF Due
       THEN guesses + Cardinality(Handled) <= BeforeRotation + PerMinute + Cardinality(Now)
       ELSE guesses + Cardinality(Handled) <= unconfirmed + PerMinute

IInv == Typed /\ RegistryInv /\ WindowInv /\ GuessInv

(***************************************************************************)
(* Types are kept                                                          *)
(***************************************************************************)
LEMMA TypedStep ==
  ASSUME Typed, keys = Elems(order), Distinct(order), [Next]_vars PROVE Typed'
<1>. USE Limits DEF Typed
<1>1. /\ {"idle", "rotate", "read", "answered", "over"} \subseteq Stage /\ 0 \in 0..LongAgo
  BY DEF Stage
<1>2. ASSUME NEW r \in Run, NEW right \in BOOLEAN, StartCheck(r, right) PROVE Typed'
  BY <1>1, <1>2 DEF StartCheck, Counted, CountUnconfirmed, Goto, keyVars, settingVars, Stored
<1>3. ASSUME NEW r \in Run, StartRefused(r) \/ ClientRejects(r) \/ Lose(r) PROVE Typed'
  BY <1>1, <1>3 DEF StartRefused, ClientRejects, Lose, End, Goto, limitVars, keyVars, settingVars
<1>4. ASSUME NEW r \in Run, Rotate(r) PROVE Typed'
  BY <1>1, <1>4 DEF Rotate, NewPin, Goto, limitVars, keyVars, settingVars
<1>5. ASSUME NEW r \in Run, Respond(r) PROVE Typed'
  <2>1. pending' \subseteq Run
    BY <1>5 DEF Respond, AddPending, Fresh
  <2>. QED BY <1>1, <1>5, <2>1 DEF Respond, Goto, limitVars, keyVars, settingVars
<1>6. ASSUME NEW r \in Run, PairFinish(r) PROVE Typed'
  <2>1. CASE r \in pending /\ age[r] < TTL /\ knows[r]
    <3>1. Accept(r) /\ unconfirmed' = 0 /\ guesses' = 0
      BY <1>6, <2>1 DEF PairFinish
    <3>2. order' = Added(order, r) /\ (file' = order' \/ file' = file)
      BY <3>1, AcceptIsAdded, Rewritten DEF Distinct
    <3>3. Stored(order') /\ Stored(file')
      BY <3>2, AddedStored
    <3>4. keys' \subseteq Run
      BY <3>1 DEF Accept
    <3>. QED BY <1>1, <1>6, <3>1, <3>3, <3>4 DEF PairFinish, End, Goto, settingVars
  <2>2. CASE ~(r \in pending /\ age[r] < TTL /\ knows[r])
    BY <1>1, <1>6, <2>2 DEF PairFinish, End, Goto, settingVars, keyVars
  <2>. QED BY <2>1, <2>2
<1>7. ASSUME NEW ticks \in {0, Window}, SetWindow(ticks) PROVE Typed'
  BY <1>7 DEF SetWindow, limitVars, keyVars, settingVars, runVars
<1>8. ASSUME Regenerate PROVE Typed'
  BY <1>8 DEF Regenerate, NewPin, limitVars, keyVars, settingVars
<1>9. Stored(<<>>)
  BY EmptySeq DEF Stored
<1>10. ASSUME Forget PROVE Typed'
  <2>1. Stored(file')
    BY <1>9, <1>10, Rewritten DEF Forget
  <2>. QED BY <1>9, <1>10, <2>1 DEF Forget, limitVars, settingVars, runVars
<1>11. ASSUME SaveSetting \/ SetPersistence PROVE Typed'
  <2>1. Stored(file')
    BY <1>9, <1>11, Rewritten DEF SaveSetting, SetPersistence, keyVars
  <2>. QED BY <1>9, <1>11, <2>1 DEF SaveSetting, SetPersistence, limitVars, keyVars, runVars
<1>12. ASSUME Restart PROVE Typed'
  <2>1. Stored(order')
    BY <1>9, <1>12 DEF Restart
  <2>2. keys' \subseteq Run
    BY <1>12, <2>1, LenProperties DEF Restart, Elems, Stored
  <2>. QED BY <1>1, <1>12, <2>1, <2>2 DEF Restart
<1>13. ASSUME Tick PROVE Typed'
  <2>1. \A n, limit \in Nat : n \in 0..limit => Older(n, limit) \in 0..limit
    BY DEF Older
  <2>2. open' \in 0..Window
    BY <1>13 DEF Tick
  <2>. QED BY <1>13, <2>1, <2>2 DEF Tick, keyVars, settingVars
<1>14. ASSUME UNCHANGED vars PROVE Typed'
  BY <1>14 DEF vars, limitVars, keyVars, settingVars, runVars
<1>. QED
  BY <1>2, <1>3, <1>4, <1>5, <1>6, <1>7, <1>8, <1>10, <1>11, <1>12, <1>13, <1>14
  DEF Next, RunNext

(***************************************************************************)
(* The registry and its file agree                                         *)
(***************************************************************************)
(* Steps that leave the registry and the file alone and start no run.      *)
LEMMA RegistryFrame ==
  ASSUME RegistryInv, UNCHANGED <<keys, order, file, storing>>,
         pending' \subseteq pending, Cardinality(pending') <= MaxPending,
         \A r \in Run : at'[r] \in {"idle", "rotate", "read"} =>
           at[r] \in {"idle", "rotate", "read"}
  PROVE  RegistryInv'
BY DEF RegistryInv, Distinct, Synced

LEMMA AddedDistinct ==
  ASSUME NEW s, Stored(s), Distinct(s), NEW r \in Run, r \notin Elems(s)
  PROVE  Distinct(Added(s, r)) /\ r \notin Elems(Kept(s)) /\ Elems(Kept(s)) \subseteq Elems(s)
<1>1. /\ Distinct(Kept(s)) /\ Elems(Kept(s)) \subseteq Elems(s)
      /\ DOMAIN Kept(s) = 1..Len(Kept(s)) /\ Len(Kept(s)) \in Nat
  <2>1. CASE Len(s) >= MaxKeys
    <3>1. s \in Seq(Run) /\ s # <<>> /\ Kept(s) = Tail(s)
      BY <2>1, Limits DEF Stored, Kept
    <3>2. /\ DOMAIN s = 1..Len(s) /\ Len(s) \in Nat /\ Len(s) >= 1
          /\ DOMAIN Kept(s) = 1..(Len(s) - 1) /\ Len(Kept(s)) = Len(s) - 1
          /\ \A i \in 1..(Len(s) - 1) : Kept(s)[i] = s[i + 1]
      BY <3>1
    <3>3. \A i \in DOMAIN Kept(s) : i + 1 \in DOMAIN s /\ Kept(s)[i] = s[i + 1]
      BY <3>2
    <3>4. \A i, j \in DOMAIN Kept(s) : i + 1 = j + 1 => i = j
      BY <3>2
    <3>5. Elems(Kept(s)) \subseteq Elems(s)
      BY <3>3 DEF Elems
    <3>6. Distinct(Kept(s))
      BY <3>3, <3>4 DEF Distinct
    <3>. QED BY <3>2, <3>5, <3>6
  <2>2. CASE ~(Len(s) >= MaxKeys)
    BY <2>2, LenProperties DEF Kept, Stored
  <2>. QED BY <2>1, <2>2
<1>. DEFINE n == Len(Kept(s))
<1>2. /\ DOMAIN Added(s, r) = 1..(n + 1) /\ Added(s, r)[n + 1] = r
      /\ \A k \in 1..n : Added(s, r)[k] = Kept(s)[k] /\ Kept(s)[k] # r
  <2>1. \A k \in 1..n : Kept(s)[k] # r
    BY <1>1 DEF Elems
  <2>2. /\ \A k \in DOMAIN Kept(s) : Added(s, r)[k] = Kept(s)[k]
        /\ DOMAIN Added(s, r) = 1..(n + 1) /\ Added(s, r)[n + 1] = r
    BY AddedStored
  <2>. QED BY <1>1, <2>1, <2>2
<1>3. \A k \in 1..(n + 1) : k \in 1..n \/ k = n + 1
  BY <1>1
<1>4. Distinct(Added(s, r))
  <2>1. \A i, j \in 1..n : Kept(s)[i] = Kept(s)[j] => i = j
    BY <1>1 DEF Distinct
  <2>. QED BY <1>2, <1>3, <2>1 DEF Distinct
<1>. QED BY <1>1, <1>4

LEMMA RegistryStep ==
  ASSUME Typed, RegistryInv, [Next]_vars PROVE RegistryInv'
<1>. DEFINE Waits(r) == at[r] \in {"idle", "rotate", "read"}
<1>1. /\ keys = Elems(order) /\ Distinct(order) /\ Distinct(file)
      /\ Cardinality(pending) <= MaxPending /\ pending \cap keys = {}
      /\ \A r \in Run : Waits(r) => r \notin pending /\ r \notin keys /\ r \notin Elems(file)
      /\ Synced
  BY DEF RegistryInv
<1>2. IsFiniteSet(pending) /\ at \in [Run -> Stage]
  BY RunAssumption, FS_Subset DEF Typed
<1>3. ASSUME NEW r \in Run, NEW right \in BOOLEAN,
             StartCheck(r, right) \/ StartRefused(r) \/ Rotate(r) \/ ClientRejects(r) \/ Lose(r)
      PROVE  RegistryInv'
  <2>1. UNCHANGED <<keys, order, file, storing, pending>>
    BY <1>3 DEF StartCheck, StartRefused, Rotate, ClientRejects, Lose, keyVars, settingVars
  <2>2. \A q \in Run : at'[q] \in {"idle", "rotate", "read"} => Waits(q)
    BY <1>2, <1>3 DEF StartCheck, CountUnconfirmed, StartRefused, Rotate, ClientRejects, Lose, End, Goto
  <2>. QED BY <1>1, <2>1, <2>2, RegistryFrame
<1>4. ASSUME NEW r \in Run, Respond(r) PROVE RegistryInv'
  <2>1. /\ at[r] = "read" /\ AddPending(r) /\ at' = [at EXCEPT ![r] = "answered"]
        /\ UNCHANGED <<keys, order, file, storing>>
    BY <1>4 DEF Respond, Goto, keyVars, settingVars
  <2>2. Fresh \subseteq pending /\ IsFiniteSet(Fresh) /\ Cardinality(Fresh) <= MaxPending
    <3>1. Fresh \subseteq pending
      BY DEF Fresh
    <3>2. Cardinality(Fresh) \in Nat /\ Cardinality(pending) \in Nat
      BY <1>2, <3>1, FS_Subset, FS_CardinalityType
    <3>. QED BY <1>1, <1>2, <3>1, <3>2, Limits, FS_Subset
  <2>3. pending' \subseteq Fresh \cup {r} /\ Cardinality(pending') <= MaxPending
    <3>0. Cardinality(Fresh) \in Nat
      BY <2>2, FS_CardinalityType
    <3>1. CASE Cardinality(Fresh) >= MaxPending
      <4>1. PICK old \in Oldest(Fresh) : pending' = (Fresh \ {old}) \cup {r}
        BY <2>1, <3>1 DEF AddPending
      <4>2. IsFiniteSet(Fresh \ {old}) /\ Cardinality(Fresh \ {old}) = Cardinality(Fresh) - 1
        BY <2>2, <4>1, FS_RemoveElement DEF Oldest
      <4>3. Cardinality(pending') <= Cardinality(Fresh \ {old}) + 1
        BY <3>0, <4>1, <4>2, FS_AddElement
      <4>4. Cardinality(pending') \in Nat
        BY <4>1, <4>2, FS_AddElement, FS_CardinalityType
      <4>5. Cardinality(pending') <= MaxPending
        BY <2>2, <3>0, <4>2, <4>3, <4>4, Limits
      <4>. QED BY <4>1, <4>5
    <3>2. CASE ~(Cardinality(Fresh) >= MaxPending)
      <4>1. pending' = Fresh \cup {r}
        BY <2>1, <3>2 DEF AddPending
      <4>2. Cardinality(pending') <= Cardinality(Fresh) + 1
        BY <2>2, <3>0, <4>1, FS_AddElement, SMTT(30)
      <4>3. Cardinality(pending') \in Nat
        BY <2>2, <4>1, FS_AddElement, FS_CardinalityType
      <4>4. Cardinality(pending') <= MaxPending
        BY <3>0, <3>2, <4>2, <4>3, Limits
      <4>. QED BY <4>1, <4>4
    <3>. QED BY <3>1, <3>2
  <2>4. r \notin keys
    BY <1>1, <2>1
  <2>5. \A q \in Run : at'[q] \in {"idle", "rotate", "read"} => Waits(q) /\ q # r
    BY <1>2, <2>1
  <2>. QED BY <1>1, <2>1, <2>2, <2>3, <2>4, <2>5 DEF RegistryInv, Distinct, Synced
<1>5. ASSUME NEW r \in Run, PairFinish(r) PROVE RegistryInv'
  <2>1. /\ at[r] = "answered" /\ at' = [at EXCEPT ![r] = "over"]
        /\ pending' = pending \ {r} /\ UNCHANGED storing
    BY <1>5 DEF PairFinish, End, Goto, settingVars
  <2>2. \A q \in Run : at'[q] \in {"idle", "rotate", "read"} => Waits(q) /\ q # r
    BY <1>2, <2>1
  <2>3. Cardinality(pending') <= MaxPending
    <3>1. Cardinality(pending') <= Cardinality(pending)
      BY <1>2, <2>1, FS_Subset
    <3>2. Cardinality(pending') \in Nat /\ Cardinality(pending) \in Nat
      BY <1>2, <2>1, FS_Subset, FS_CardinalityType
    <3>. QED BY <1>1, <3>1, <3>2, Limits
  <2>4. CASE r \in pending /\ age[r] < TTL /\ knows[r]
    <3>1. /\ order' = Added(order, r) /\ keys' = Elems(Kept(order)) \cup {r}
          /\ file' = order' \/ file' = file
          /\ "disk" \notin Faults /\ storing => file' = order'
      BY <1>1, <1>5, <2>4, AcceptIsAdded, Rewritten DEF PairFinish, Distinct
    <3>2. Stored(order) /\ r \notin Elems(order)
      BY <1>1, <2>4 DEF Typed
    <3>3. keys' = Elems(order') /\ Distinct(order') /\ keys' \subseteq keys \cup {r}
      BY <1>1, <3>1, <3>2, AddedStored, AddedDistinct
    <3>4. Distinct(file') /\ Synced'
      BY <1>1, <2>1, <3>1, <3>3 DEF Synced
    <3>5. \A q \in Run : Waits(q) /\ q # r =>
            q \notin pending' /\ q \notin keys' /\ q \notin Elems(file')
      BY <1>1, <2>1, <3>1, <3>3
    <3>6. pending' \cap keys' = {}
      BY <1>1, <2>1, <3>3
    <3>. QED BY <2>2, <2>3, <3>3, <3>4, <3>5, <3>6 DEF RegistryInv
  <2>5. CASE ~(r \in pending /\ age[r] < TTL /\ knows[r])
    <3>1. UNCHANGED <<keys, order, file>>
      BY <1>5, <2>5 DEF PairFinish, keyVars
    <3>. QED BY <2>1, <2>2, <2>3, <3>1, RegistryFrame
  <2>. QED BY <2>4, <2>5
<1>6. ASSUME \/ \E ticks \in {0, Window} : SetWindow(ticks)
             \/ Regenerate \/ SaveSetting \/ Tick \/ UNCHANGED vars
      PROVE  RegistryInv'
  <2>1. UNCHANGED <<keys, order, file, storing, pending, at>>
    BY <1>6 DEF SetWindow, Regenerate, SaveSetting, Tick, keyVars, settingVars, runVars, vars
  <2>. QED BY <1>1, <2>1, RegistryFrame
<1>7. Elems(<<>>) = {} /\ Distinct(<<>>)
  BY EmptySeq DEF Elems, Distinct
<1>8. ASSUME Forget \/ SetPersistence PROVE RegistryInv'
  <2>1. UNCHANGED <<pending, at>>
    BY <1>8 DEF Forget, SetPersistence, runVars
  <2>2. CASE Forget
    <3>1. /\ keys' = {} /\ order' = <<>> /\ UNCHANGED storing
          /\ file' = <<>> \/ file' = file
          /\ "disk" \notin Faults /\ storing => file' = <<>>
      BY <2>2, Rewritten DEF Forget, settingVars
    <3>. QED BY <1>1, <1>7, <2>1, <3>1 DEF RegistryInv, Distinct, Synced
  <2>3. CASE SetPersistence
    <3>1. /\ UNCHANGED <<keys, order>> /\ storing' = remember
          /\ file' \in {order, <<>>, file}
          /\ "disk" \notin Faults /\ remember => file' = order
      BY <2>3, Rewritten DEF SetPersistence
    <3>. QED BY <1>1, <1>7, <2>1, <3>1 DEF RegistryInv, Distinct, Synced, Typed
  <2>. QED BY <1>8, <2>2, <2>3
<1>9. ASSUME Restart PROVE RegistryInv'
  <2>1. /\ pending' = {} /\ storing' = remember /\ file' = file
        /\ order' = (IF remember THEN file ELSE <<>>) /\ keys' = Elems(order')
        /\ at' = [r \in Run |-> IF r \in Handled THEN "over" ELSE at[r]]
    BY <1>9 DEF Restart
  <2>2. \A q \in Run : at'[q] \in {"idle", "rotate", "read"} => Waits(q)
    BY <2>1
  <2>3. Distinct(order') /\ keys' \subseteq Elems(file)
    BY <1>1, <1>7, <2>1
  <2>4. Cardinality(pending') <= MaxPending
    BY <2>1, FS_EmptySet, Limits
  <2>. QED BY <1>1, <2>1, <2>2, <2>3, <2>4 DEF RegistryInv, Distinct, Typed, Synced
<1>. QED
  BY <1>3, <1>4, <1>5, <1>6, <1>8, <1>9 DEF Next, RunNext

(***************************************************************************)
(* The windows count the runs                                              *)
(***************************************************************************)
LEMMA SmallerSet ==
  ASSUME NEW S \in SUBSET Run, NEW T \in SUBSET S
  PROVE  IsFiniteSet(T) /\ Cardinality(T) \in Nat /\ Cardinality(T) <= Cardinality(S)
BY RunAssumption, FS_Subset, FS_CardinalityType

LEMMA OneMore ==
  ASSUME NEW S \in SUBSET Run, NEW r \in Run, NEW T \in SUBSET (S \cup {r})
  PROVE  Cardinality(T) <= Cardinality(S) + 1
<1>1. IsFiniteSet(S) /\ Cardinality(S) \in Nat
  BY SmallerSet
<1>2. /\ Cardinality(S \cup {r}) = Cardinality(S) \/ Cardinality(S \cup {r}) = Cardinality(S) + 1
      /\ S \cup {r} \in SUBSET Run
  BY <1>1, FS_AddElement
<1>3. Cardinality(T) \in Nat /\ Cardinality(T) <= Cardinality(S \cup {r})
  BY <1>2, SmallerSet
<1>. QED BY <1>1, <1>2, <1>3

LEMMA WindowStep ==
  ASSUME Typed, WindowInv, [Next]_vars PROVE WindowInv'
<1>1. PICK prev \in SUBSET Run :
        /\ Cardinality(prev) <= PerMinute
        /\ \A r \in prev : age[r] >= since
        /\ Cardinality(Since(prev)) <= attempts
  BY DEF WindowInv
<1>2. /\ Cardinality(Now) <= attempts /\ (since >= Minute => Now = {})
      /\ Now \in SUBSET Run /\ Since(prev) \in SUBSET Run
      /\ Cardinality(Now) \in Nat /\ Cardinality(Since(prev)) \in Nat
      /\ Cardinality(prev) \in Nat
  BY SmallerSet DEF WindowInv, Now, Since
<1>3. /\ since \in 0..Minute /\ attempts \in 0..PerMinute /\ age \in [Run -> 0..LongAgo]
  BY DEF Typed
<1>4. Cardinality({}) = 0
  BY FS_EmptySet
<1>5. ASSUME UNCHANGED <<since, attempts, age>> PROVE WindowInv'
  BY <1>5 DEF WindowInv, Now, Since
<1>6. ASSUME NEW r \in Run, NEW right \in BOOLEAN, StartCheck(r, right) PROVE WindowInv'
  <2>1. Counted /\ age' = [age EXCEPT ![r] = 0]
    BY <1>6 DEF StartCheck
  <2>2. /\ Now' \subseteq Now \cup {r} /\ Now' \in SUBSET Run
    BY <1>3, <2>1 DEF Now
  <2>3. CASE since >= Minute
    <3>1. since' = 0 /\ attempts' = 1
      BY <2>1, <2>3, Limits DEF Counted
    <3>2. Now' \in SUBSET ({} \cup {r})
      BY <1>2, <2>2, <2>3
    <3>3. Cardinality(Now') <= attempts'
      BY <1>4, <3>1, <3>2, OneMore
    <3>0. PICK last : last = Since(prev) \ {r}
      OBVIOUS
    <3>4. /\ last \in SUBSET Run /\ Cardinality(last) <= PerMinute
      <4>1. last \in SUBSET Since(prev)
        BY <3>0
      <4>2. Cardinality(last) \in Nat /\ Cardinality(last) <= Cardinality(Since(prev))
        BY <1>2, <4>1, SmallerSet
      <4>. QED BY <1>1, <1>2, <1>3, <4>1, <4>2, Limits
    <3>5. \A q \in last : age'[q] >= since'
      BY <1>3, <2>1, <3>1, <3>4, Limits
    <3>6. Since(last)' \in SUBSET ({} \cup {r})
      <4>1. ASSUME NEW q \in Run \ last, age'[q] < Minute, q # r PROVE FALSE
        <5>1. age[q] < Minute /\ q \notin Since(prev)
          BY <1>3, <2>1, <3>0, <4>1
        <5>2. q \in prev
          BY <5>1 DEF Since
        <5>3. age[q] >= since /\ age[q] \in Nat
          BY <1>1, <1>3, <5>2, Limits
        <5>. QED BY <1>3, <2>3, <5>1, <5>3, Limits
      <4>. QED BY <4>1 DEF Since
    <3>7. Cardinality(Since(last)') <= attempts'
      <4>1. Cardinality(Since(last)') <= Cardinality({}) + 1
        BY <3>6, OneMore
      <4>. QED BY <1>4, <3>1, <4>1
    <3>8. ~(since' >= Minute)
      BY <3>1, Limits
    <3>. QED BY <3>3, <3>4, <3>5, <3>7, <3>8 DEF WindowInv
  <2>4. CASE ~(since >= Minute)
    <3>1. since' = since /\ attempts' = attempts + 1
      BY <2>1, <2>4 DEF Counted
    <3>2. Cardinality(Now') <= Cardinality(Now) + 1 /\ Cardinality(Now') \in Nat
      BY <1>2, <2>2, OneMore, SmallerSet
    <3>. DEFINE last == prev \ {r}
    <3>3. last \in SUBSET Run /\ Cardinality(last) <= PerMinute
      <4>1. Cardinality(last) \in Nat /\ Cardinality(last) <= Cardinality(prev)
        BY SmallerSet
      <4>. QED BY <1>1, <1>2, <4>1, Limits
    <3>4. \A q \in last : age'[q] >= since'
      BY <1>1, <1>3, <2>1, <3>1
    <3>5. Since(last)' \in SUBSET (Since(prev) \cup {r})
      BY <1>3, <2>1 DEF Since
    <3>6. Cardinality(Since(last)') <= Cardinality(Since(prev)) + 1
      BY <1>2, <3>5, OneMore
    <3>7. Cardinality(Since(last)') \in Nat
      BY SmallerSet DEF Since
    <3>8. Cardinality(Since(last)') <= attempts'
      BY <1>1, <1>2, <1>3, <3>1, <3>6, <3>7
    <3>9. Cardinality(Now') <= attempts'
      BY <1>2, <1>3, <3>1, <3>2
    <3>10. ~(since' >= Minute)
      BY <2>4, <3>1
    <3>. QED BY <3>3, <3>4, <3>8, <3>9, <3>10 DEF WindowInv
  <2>. QED BY <2>3, <2>4
<1>7. ASSUME Restart PROVE WindowInv'
  <2>1. since' = 0 /\ attempts' = 0 /\ age' = [r \in Run |-> LongAgo]
    BY <1>7 DEF Restart
  <2>2. Now' = {} /\ Since({})' = {} /\ ~(since' >= Minute)
    BY <2>1, Limits DEF Now, Since
  <2>3. {} \in SUBSET Run /\ Cardinality({}) <= PerMinute /\ \A r \in {} : age'[r] >= since'
    BY <1>4, Limits
  <2>. QED BY <1>4, <2>1, <2>2, <2>3 DEF WindowInv
<1>8. ASSUME Tick PROVE WindowInv'
  <2>1. /\ since' = Older(since, Minute) /\ attempts' = attempts
        /\ age' = [r \in Run |-> Older(age[r], LongAgo)]
    BY <1>8 DEF Tick
  <2>2. \A r \in Run : /\ age[r] \in 0..LongAgo /\ age'[r] = Older(age[r], LongAgo)
                       /\ age'[r] >= age[r] /\ age'[r] # 0
    BY <1>3, <2>1, Limits DEF Older
  <2>3. Now' = {}
    BY <2>2 DEF Now
  <2>4. Since(prev)' \in SUBSET Since(prev)
    <3>1. \A r \in Run : age'[r] < Minute => age[r] < Minute
      BY <1>3, <2>1, Limits DEF Older
    <3>. QED BY <3>1 DEF Since
  <2>5. Cardinality(Since(prev)') \in Nat /\ Cardinality(Since(prev)') <= Cardinality(Since(prev))
    BY <1>2, <2>4, SmallerSet
  <2>6. \A r \in prev : age'[r] >= since'
    BY <1>1, <1>3, <2>1, <2>2, Limits DEF Older
  <2>7. Cardinality(Since(prev)') <= attempts'
    BY <1>1, <1>2, <1>3, <2>1, <2>5
  <2>8. Cardinality(Now') <= attempts'
    BY <1>3, <1>4, <2>1, <2>3
  <2>. QED BY <1>1, <2>3, <2>6, <2>7, <2>8 DEF WindowInv
<1>9. ASSUME NEW r \in Run,
             StartRefused(r) \/ Rotate(r) \/ Respond(r) \/ ClientRejects(r) \/ PairFinish(r) \/ Lose(r)
      PROVE  WindowInv'
  BY <1>5, <1>9 DEF StartRefused, Rotate, Respond, ClientRejects, PairFinish, Lose, limitVars
<1>10. ASSUME \/ \E ticks \in {0, Window} : SetWindow(ticks)
              \/ Regenerate \/ Forget \/ SaveSetting \/ SetPersistence \/ UNCHANGED vars
       PROVE  WindowInv'
  BY <1>5, <1>10
  DEF SetWindow, Regenerate, Forget, SaveSetting, SetPersistence, limitVars, runVars, vars
<1>. QED
  BY <1>6, <1>7, <1>8, <1>9, <1>10 DEF Next, RunNext

(***************************************************************************)
(* The guesses are counted                                                 *)
(***************************************************************************)
(* The handlers at work were all counted in this tick.                     *)
LEMMA HandledCount ==
  ASSUME Typed, WindowInv, GuessInv
  PROVE  /\ Handled \in SUBSET Run /\ Now \in SUBSET Run
         /\ Cardinality(Handled) \in Nat /\ Cardinality(Now) \in Nat
         /\ Cardinality(Handled) <= Cardinality(Now) /\ Cardinality(Now) <= PerMinute
         /\ Due => Cardinality(Handled) >= 1
         /\ guesses + Cardinality(Handled) <=
              IF Due THEN BeforeRotation + PerMinute + Cardinality(Now) ELSE unconfirmed + PerMinute
<1>1. /\ Handled \in SUBSET Run /\ Now \in SUBSET Run /\ Handled \in SUBSET Now
  BY DEF GuessInv, Handled, Now
<1>2. /\ Cardinality(Handled) \in Nat /\ Cardinality(Now) \in Nat /\ IsFiniteSet(Handled)
      /\ Cardinality(Handled) <= Cardinality(Now)
  BY <1>1, SmallerSet
<1>3. Due => Cardinality(Handled) # 0
  BY <1>2, FS_EmptySet DEF Due, Handled
<1>4. Cardinality(Now) <= PerMinute
  BY <1>2, Limits DEF WindowInv, Typed
<1>. QED BY <1>1, <1>2, <1>3, <1>4 DEF GuessInv

(* A step that starts no run and, if it changes the guesses or their       *)
(* count, shows a new PIN or confirms a run.                               *)
LEMMA GuessFrame ==
  ASSUME Typed, WindowInv, GuessInv, Now' = Now, Handled' \in SUBSET Handled,
         \A r \in Run : at'[r] = "idle" => at[r] = "idle",
         unconfirmed' \in Nat,
         \/ guesses' = 0
         \/ (Due' <=> Due) /\ UNCHANGED <<guesses, unconfirmed>>
  PROVE  GuessInv'
<1>1. /\ Handled' \subseteq Now' /\ \A r \in Now' : at'[r] # "idle"
  BY DEF GuessInv, Now
<1>2. Cardinality(Handled') \in Nat /\ Cardinality(Handled') <= Cardinality(Handled)
  BY HandledCount, SmallerSet
<1>3. guesses \in Nat /\ unconfirmed \in Nat /\ Cardinality(Now') = Cardinality(Now)
  BY Limits DEF Typed
<1>4. guesses' + Cardinality(Handled') <=
        IF Due' THEN BeforeRotation + PerMinute + Cardinality(Now') ELSE unconfirmed' + PerMinute
  BY <1>2, <1>3, HandledCount, Limits
<1>. QED BY <1>1, <1>4 DEF GuessInv

LEMMA GuessStep ==
  ASSUME Typed, WindowInv, GuessInv, "unrotated" \notin Faults, [Next]_vars
  PROVE  GuessInv'
<1>1. /\ at \in [Run -> Stage] /\ age \in [Run -> 0..LongAgo]
      /\ guesses \in Nat /\ unconfirmed \in 0..BeforeRotation /\ unconfirmed \in Nat
  BY Limits DEF Typed
<1>2. ASSUME NEW r \in Run, NEW right \in BOOLEAN, StartCheck(r, right) PROVE GuessInv'
  <2>1. /\ at[r] = "idle" /\ CountUnconfirmed(r) /\ age' = [age EXCEPT ![r] = 0]
        /\ guesses' = guesses
    BY <1>2 DEF StartCheck
  <2>2. /\ at' = [at EXCEPT ![r] = at'[r]] /\ at'[r] \in {"rotate", "read"}
    BY <1>1, <2>1 DEF CountUnconfirmed, Goto
  <2>3. Handled' = Handled \cup {r} /\ r \notin Handled
    BY <1>1, <2>1, <2>2 DEF Handled
  <2>4. Now' = Now \cup {r} /\ r \notin Now
    <3>1. 0 \in 0..LongAgo
      BY Limits
    <3>2. Now' = Now \cup {r}
      BY <1>1, <2>1, <3>1 DEF Now
    <3>. QED BY <2>1, <3>2 DEF GuessInv
  <2>5. Handled' \subseteq Now' /\ \A q \in Now' : at'[q] # "idle"
    <3>1. \A q \in Now : q # r => at'[q] = at[q]
      BY <1>1, <2>2 DEF Now
    <3>. QED BY <2>2, <2>3, <2>4, <3>1 DEF GuessInv
  <2>6. /\ Cardinality(Handled') = Cardinality(Handled) + 1
        /\ Cardinality(Now') = Cardinality(Now) + 1
    <3>1. IsFiniteSet(Handled) /\ IsFiniteSet(Now)
      BY HandledCount, SmallerSet
    <3>. QED BY <2>3, <2>4, <3>1, FS_AddElement
  <2>7. Due' <=> (Due \/ at'[r] = "rotate")
    BY <1>1, <2>1, <2>2 DEF Due
  <2>8. CASE unconfirmed < BeforeRotation /\ unconfirmed' = unconfirmed + 1 /\ Goto(r, "read")
    <3>1. at'[r] = "read"
      BY <1>1, <2>8 DEF Goto
    <3>2. guesses' + Cardinality(Handled') <=
            IF Due' THEN BeforeRotation + PerMinute + Cardinality(Now') ELSE unconfirmed' + PerMinute
      BY <1>1, <2>1, <2>6, <2>7, <2>8, <3>1, HandledCount, Limits
    <3>. QED BY <2>5, <3>2 DEF GuessInv
  <2>9. CASE unconfirmed >= BeforeRotation /\ Goto(r, "rotate")
    <3>1. at'[r] = "rotate"
      BY <1>1, <2>9 DEF Goto
    <3>2. guesses' + Cardinality(Handled') <= BeforeRotation + PerMinute + Cardinality(Now')
      BY <1>1, <2>1, <2>6, <2>9, HandledCount, Limits
    <3>. QED BY <2>5, <2>7, <3>1, <3>2 DEF GuessInv
  <2>. QED BY <2>1, <2>8, <2>9 DEF CountUnconfirmed
<1>3. ASSUME NEW r \in Run, Respond(r) PROVE GuessInv'
  <2>1. /\ at[r] = "read" /\ at' = [at EXCEPT ![r] = "answered"]
        /\ guesses' = guesses + 1 /\ UNCHANGED <<unconfirmed, age>>
    BY <1>3 DEF Respond, Goto, limitVars
  <2>2. Handled' = Handled \ {r} /\ r \in Handled /\ (Due' <=> Due)
    BY <1>1, <2>1 DEF Handled, Due
  <2>3. Now' = Now /\ Handled' \subseteq Now' /\ \A q \in Now' : at'[q] # "idle"
    BY <1>1, <2>1, <2>2 DEF GuessInv, Now
  <2>4. Cardinality(Handled') = Cardinality(Handled) - 1
    BY <2>2, HandledCount, SmallerSet, FS_RemoveElement
  <2>5. guesses' + Cardinality(Handled') <=
          IF Due' THEN BeforeRotation + PerMinute + Cardinality(Now') ELSE unconfirmed' + PerMinute
    <3>1. guesses' + Cardinality(Handled') = guesses + Cardinality(Handled)
      BY <1>1, <2>1, <2>4, HandledCount
    <3>. QED BY <2>1, <2>2, <2>3, <3>1, HandledCount
  <2>. QED BY <2>3, <2>5 DEF GuessInv
<1>4. ASSUME NEW r \in Run, Rotate(r) PROVE GuessInv'
  <2>1. /\ at[r] = "rotate" /\ at' = [at EXCEPT ![r] = "read"]
        /\ guesses' = 0 /\ UNCHANGED <<unconfirmed, age>>
    BY <1>4 DEF Rotate, NewPin, Goto, limitVars
  <2>2. Handled' \in SUBSET Handled /\ Now' = Now
    BY <1>1, <2>1 DEF Handled, Now
  <2>. QED BY <1>1, <2>1, <2>2, GuessFrame
<1>5. ASSUME NEW r \in Run, StartRefused(r) \/ ClientRejects(r) \/ PairFinish(r) \/ Lose(r)
      PROVE  GuessInv'
  <2>1. /\ at[r] # "rotate" /\ at' = [at EXCEPT ![r] = "over"] /\ UNCHANGED age
        /\ \/ UNCHANGED <<guesses, unconfirmed>>
           \/ guesses' = 0 /\ unconfirmed' = 0
    BY <1>1, <1>5 DEF StartRefused, ClientRejects, PairFinish, Lose, End, Goto, limitVars, AllFaults
  <2>2. Handled' \in SUBSET Handled /\ Now' = Now /\ (Due' <=> Due)
    BY <1>1, <2>1 DEF Handled, Now, Due
  <2>3. \A q \in Run : at'[q] = "idle" => at[q] = "idle"
    BY <1>1, <2>1
  <2>4. unconfirmed' \in Nat
    BY <1>1, <2>1
  <2>. QED BY <2>1, <2>2, <2>3, <2>4, GuessFrame
<1>6. ASSUME \/ \E ticks \in {0, Window} : SetWindow(ticks)
             \/ Regenerate \/ Forget \/ SaveSetting \/ SetPersistence \/ UNCHANGED vars
      PROVE  GuessInv'
  <2>1. UNCHANGED <<at, age, unconfirmed>> /\ (guesses' = 0 \/ guesses' = guesses)
    BY <1>6 DEF SetWindow, Regenerate, NewPin, Forget, SaveSetting, SetPersistence, limitVars, runVars, vars
  <2>2. Handled' \in SUBSET Handled /\ Now' = Now /\ (Due' <=> Due)
    BY <2>1 DEF Handled, Now, Due
  <2>. QED BY <1>1, <2>1, <2>2, GuessFrame
<1>7. ASSUME Restart \/ Tick PROVE GuessInv'
  <2>1. Now' = {}
    BY <1>1, <1>7, Limits DEF Restart, Tick, Older, Now
  <2>2. Handled' = {} /\ ~Due'
    BY <1>1, <1>7 DEF Restart, Tick, Handled, Due
  <2>3. guesses' <= unconfirmed' + PerMinute
    <3>1. CASE Restart
      BY <3>1, Limits DEF Restart
    <3>2. CASE Tick
      <4>1. ~Due /\ Handled = {} /\ UNCHANGED <<guesses, unconfirmed>>
        BY <3>2 DEF Tick, Due, Handled
      <4>. QED BY <1>1, <4>1, HandledCount, FS_EmptySet
    <3>. QED BY <1>7, <3>1, <3>2
  <2>4. guesses' \in Nat
    BY <1>1, <1>7 DEF Restart, Tick
  <2>5. guesses' + Cardinality(Handled') <= unconfirmed' + PerMinute
    BY <2>2, <2>3, <2>4, FS_EmptySet
  <2>. QED BY <2>1, <2>2, <2>5 DEF GuessInv
<1>. QED
  BY <1>2, <1>3, <1>4, <1>5, <1>6, <1>7 DEF Next, RunNext

(***************************************************************************)
(* Theorems                                                                *)
(***************************************************************************)
LEMMA InitEstablishes == Init => Typed /\ RegistryInv /\ WindowInv /\ GuessInv
<1>. SUFFICES ASSUME Init PROVE Typed /\ RegistryInv /\ WindowInv /\ GuessInv
  OBVIOUS
<1>. USE DEF Init
<1>1. Elems(<<>>) = {} /\ Distinct(<<>>) /\ Stored(<<>>)
  BY Limits, EmptySeq DEF Elems, Distinct, Stored
<1>2. Cardinality({}) = 0
  BY FS_EmptySet
<1>3. Now = {} /\ Since({}) = {} /\ Handled = {} /\ ~Due
  BY Limits DEF Now, Since, Handled, Due
<1>4. Typed
  <2>1. at \in [Run -> Stage] /\ age \in [Run -> 0..LongAgo] /\ open \in 0..Window
    BY Limits DEF Stage
  <2>2. knows \in [Run -> BOOLEAN] /\ storing \in BOOLEAN /\ remember \in BOOLEAN
    OBVIOUS
  <2>3. /\ since \in 0..Minute /\ attempts \in 0..PerMinute
        /\ unconfirmed \in 0..BeforeRotation /\ guesses \in Nat
    BY Limits
  <2>4. pending \subseteq Run /\ keys \subseteq Run /\ Stored(order) /\ Stored(file)
    BY <1>1
  <2>. QED BY ONLY <2>1, <2>2, <2>3, <2>4 DEF Typed
<1>5. RegistryInv
  BY <1>1, <1>2, Limits DEF RegistryInv, Synced
<1>6. WindowInv
  <2>1. {} \in SUBSET Run /\ Cardinality({}) <= PerMinute /\ \A r \in {} : age[r] >= since
    BY <1>2, Limits
  <2>2. ~(since >= Minute) /\ Cardinality(Now) <= attempts /\ Cardinality(Since({})) <= attempts
    <3>1. since = 0 /\ attempts = 0
      OBVIOUS
    <3>2. Cardinality(Now) = 0 /\ Cardinality(Since({})) = 0
      BY <1>2, <1>3
    <3>. QED BY ONLY <3>1, <3>2, Limits
  <2>. QED BY <2>1, <2>2 DEF WindowInv
<1>7. GuessInv
  BY <1>2, <1>3, Limits DEF GuessInv
<1>. QED BY <1>4, <1>5, <1>6, <1>7

(* The registry and the windows keep their invariants whatever goes wrong, *)
(* also when a handler that owes a rotation is dropped.                    *)
THEOREM Invariance == Spec => [](Typed /\ RegistryInv /\ WindowInv)
<1>1. Init => Typed /\ RegistryInv /\ WindowInv
  BY InitEstablishes
<1>2. Typed /\ RegistryInv /\ WindowInv /\ [Next]_vars => (Typed /\ RegistryInv /\ WindowInv)'
  <2>1. RegistryInv => keys = Elems(order) /\ Distinct(order)
    BY DEF RegistryInv
  <2>. QED BY <2>1, TypedStep, RegistryStep, WindowStep
<1>. QED BY <1>1, <1>2, PTL DEF Spec

(* The variables keep their types and the registry's counters their limits *)
(* (PairingRegistry and the PIN's state in server/state.rs).               *)
THEOREM TypeCorrect == Spec => []TypeOK
BY Invariance, TypedIsTypeOK, PTL

(* The keys of the registry and the order they are dropped in hold the     *)
(* same runs, each once, and neither container passes its limit            *)
(* (pair_start, pair_finish, load_accepted_pairings).                      *)
THEOREM RegistryCorrect == Spec => []RegistryAgrees
<1>1. Typed /\ RegistryInv => RegistryAgrees
  BY DEF Typed, Stored, RegistryInv, Distinct, RegistryAgrees
<1>. QED BY <1>1, Invariance, PTL

(* While pairings are remembered the file holds the accepted ones in their *)
(* order, after every handler, setting and restart, as long as every write *)
(* succeeds (PairingRegistry::persist, set_persistence).                   *)
THEOREM StoreCorrect ==
  ASSUME "disk" \notin Faults PROVE Spec => []StoredAgrees
<1>1. RegistryInv => StoredAgrees
  BY DEF RegistryInv, StoredAgrees, Synced
<1>. QED BY <1>1, Invariance, PTL

(* RollingMinute with the limit that the windows do keep.                  *)
TwoWindows == Cardinality({r \in Run : age[r] < Minute}) <= 2 * PerMinute

(* Windows may adjoin, but no minute, wherever it begins, sees more than   *)
(* the attempts of two (PAIR_ATTEMPTS_PER_MINUTE, pair_start).             *)
THEOREM MinuteIsTwoWindows == Spec => []TwoWindows
<1>1. ASSUME Typed, WindowInv PROVE TwoWindows
  <2>1. PICK prev \in SUBSET Run :
          Cardinality(prev) <= PerMinute /\ Cardinality(Since(prev)) <= attempts
    BY <1>1 DEF WindowInv
  <2>2. Since(prev) \in SUBSET Run
    BY DEF Since
  <2>3. /\ IsFiniteSet(prev) /\ Cardinality(prev) \in Nat
        /\ IsFiniteSet(Since(prev)) /\ Cardinality(Since(prev)) \in Nat
    BY <2>2, SmallerSet
  <2>4. Cardinality(prev \cup Since(prev)) <= Cardinality(prev) + Cardinality(Since(prev))
    <3>1. /\ Cardinality(prev \cup Since(prev)) =
              Cardinality(prev) + Cardinality(Since(prev)) - Cardinality(prev \cap Since(prev))
      BY <2>3, FS_Union
    <3>2. Cardinality(prev \cap Since(prev)) \in Nat
      BY <2>2, SmallerSet
    <3>. QED BY <2>3, <3>1, <3>2
  <2>. DEFINE recent == {r \in Run : age[r] < Minute}
  <2>5. recent \in SUBSET (prev \cup Since(prev)) /\ prev \cup Since(prev) \in SUBSET Run
    BY <2>2 DEF Since
  <2>6. /\ Cardinality(recent) \in Nat /\ Cardinality(prev \cup Since(prev)) \in Nat
        /\ Cardinality(recent) <= Cardinality(prev \cup Since(prev))
    BY <2>5, SmallerSet
  <2>7. attempts \in 0..PerMinute
    BY <1>1 DEF Typed
  <2>. HIDE DEF recent
  <2>8. Cardinality(recent) <= 2 * PerMinute
    BY <2>1, <2>3, <2>4, <2>6, <2>7, Limits
  <2>. QED BY <2>8 DEF recent, TwoWindows
<1>. QED BY <1>1, Invariance, PTL

(* When no handler is dropped between its count and the rotation it owes,  *)
(* a PIN answers a bounded number of runs before it is replaced or one of  *)
(* them is confirmed, however the handlers overlap                         *)
(* (PAIR_ATTEMPTS_BEFORE_PIN_ROTATION, pair_start).                        *)
THEOREM GuessesHold ==
  ASSUME "unrotated" \notin Faults PROVE Spec => []GuessesBounded
<1>1. Typed /\ WindowInv /\ GuessInv /\ [Next]_vars => GuessInv'
  BY GuessStep
<1>2. Init => GuessInv
  BY InitEstablishes
<1>3. ASSUME Typed, WindowInv, GuessInv PROVE GuessesBounded
  <2>1. guesses \in Nat /\ unconfirmed \in 0..BeforeRotation
    BY <1>3 DEF Typed
  <2>. QED BY <1>3, <2>1, HandledCount, Limits DEF GuessesBounded
<1>. QED BY <1>1, <1>2, <1>3, Invariance, PTL DEF Spec

(* No step loses an accepted pairing but those that are meant to: all are  *)
(* forgotten, the oldest of a full registry makes room, or a killed host   *)
(* comes back with an older file (pair_finish, forget_accepted_pairings,   *)
(* load_accepted_pairings).  The host notices no write that fails, so none *)
(* may fail here.                                                          *)
THEOREM KeysStay == ASSUME "disk" \notin Faults PROVE Spec => KeysKept
<1>. DEFINE Kind(r) == \/ order' = <<>>
                       \/ Len(order) = MaxKeys /\ r = Head(order)
                       \/ ~storing /\ order' = file
<1>1. ASSUME Typed, RegistryInv, [Next]_vars, NEW r \in keys \ keys' PROVE Kind(r)
  <2>1. ASSUME NEW q \in Run, PairFinish(q) PROVE Kind(r)
    <3>1. Accept(q)
      BY <1>1, <2>1 DEF PairFinish, keyVars
    <3>2. Len(order) >= MaxKeys /\ r = Head(order)
      BY <1>1, <3>1 DEF Accept
    <3>. QED BY <1>1, <3>2, LenProperties, Limits DEF Typed, Stored
  <2>2. ASSUME Forget PROVE Kind(r)
    BY <2>2 DEF Forget
  <2>3. ASSUME Restart PROVE Kind(r)
    BY <1>1, <2>3 DEF Restart, RegistryInv, Synced
  <2>4. ASSUME NEW q \in Run,
               \/ \E right \in BOOLEAN : StartCheck(q, right)
               \/ StartRefused(q) \/ Rotate(q) \/ Respond(q) \/ ClientRejects(q) \/ Lose(q)
        PROVE  FALSE
    BY <1>1, <2>4 DEF StartCheck, StartRefused, Rotate, Respond, ClientRejects, Lose, keyVars
  <2>5. ASSUME \/ \E ticks \in {0, Window} : SetWindow(ticks)
               \/ Regenerate \/ SaveSetting \/ SetPersistence \/ Tick \/ UNCHANGED vars
        PROVE  FALSE
    BY <1>1, <2>5 DEF SetWindow, Regenerate, SaveSetting, SetPersistence, Tick, keyVars, vars
  <2>. QED BY <1>1, <2>1, <2>2, <2>3, <2>4, <2>5 DEF Next, RunNext
<1>2. Typed /\ RegistryInv /\ [Next]_vars => [\A r \in keys \ keys' : Kind(r)]_vars
  BY <1>1
<1>. QED BY <1>2, Invariance, PTL DEF Spec, KeysKept

=============================================================================
