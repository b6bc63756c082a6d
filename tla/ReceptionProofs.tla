-------------------------- MODULE ReceptionProofs --------------------------
(***************************************************************************)
(* Proofs about Reception: what its steps keep true of a request from the  *)
(* handler that asks to the dialog that goes and, with HistoryProofs, on   *)
(* to the record of its transfer.                                          *)
(***************************************************************************)
EXTENDS Reception, HistoryProofs, TLAPS

Asked(r) == WindowEvent("requested", r)
Expired(r) == WindowEvent("expired", r)

(* A request has not been put into the channel yet.                        *)
Unsent(r) == handler[r] \in {"idle", "full"}

InChannel(r) == \E k \in DOMAIN channel : channel[k] = r
InWindow(r) == \E k \in DOMAIN window : window[k] = Asked(r)
Replied(r) == \E reply \in replies : reply.request = r
Running(r) == r \in pending /\ r \in armed

(* A request is in one place at a time, from the channel to the reply, and *)
(* behind one that is shown or about to be there is the expiry task or its *)
(* event, which comes after it.                                            *)
Placed(r) ==
  /\ Unsent(r) => /\ ~InChannel(r) /\ ~InWindow(r) /\ ~Replied(r)
                  /\ dialog # r /\ r \notin pending /\ r \notin armed
  /\ InChannel(r) => /\ ~InWindow(r) /\ ~Replied(r)
                     /\ dialog # r /\ r \notin pending /\ r \notin armed
  /\ InWindow(r) => dialog # r /\ ~Replied(r)
  /\ dialog = r => ~Replied(r)
  /\ r \in pending => r \in armed
  /\ \A i, j \in DOMAIN channel : channel[i] = r /\ channel[j] = r => i = j
  /\ \A i, j \in DOMAIN window : window[i] = Asked(r) /\ window[j] = Asked(r) => i = j
  /\ \A i \in DOMAIN window : window[i] = Asked(r) =>
       Running(r) \/ \E j \in DOMAIN window : i < j /\ window[j] = Expired(r)
  /\ dialog = r => Running(r) \/ \E j \in DOMAIN window : window[j] = Expired(r)

(* What has been accepted anywhere was accepted by the user.               *)
Genuine(r) ==
  /\ \A reply \in replies : reply.request = r /\ reply.word = "accepted" => r \in agreed
  /\ answer[r] = "accepted" => r \in agreed
  /\ handler[r] = "accepted" => r \in agreed

(* Of one who is told that it was accepted nothing is left that could tell *)
(* otherwise, and what the handler has of it was told.                     *)
Settled(r) ==
  /\ \A p, q \in replies : p.request = r /\ q.request = r => p = q
  /\ told[r] = "accepted" =>
       ~Unsent(r) /\ ~InChannel(r) /\ ~InWindow(r) /\ dialog # r /\ ~Replied(r)
  /\ answer[r] = "accepted" \/ handler[r] = "accepted" => told[r] = "accepted"

ConsentInv ==
  ConsentTypeOK /\ \A r \in Request : Placed(r) /\ Genuine(r) /\ Settled(r)

LEMMA ConsentStep ==
  ASSUME ConsentInv, ConsentNext PROVE ConsentInv'
<1>0. ConsentTypeOK /\ \A r \in Request : Placed(r) /\ Genuine(r) /\ Settled(r)
  BY DEF ConsentInv
(* A step of one handler that puts nothing into the channel.               *)
<1>1. ASSUME NEW r \in Request, NEW stage \in Stage, Goto(r, stage),
             stage = "full" => Unsent(r),
             stage = "idle" => FALSE,
             stage = "waiting" => FALSE,
             stage = "accepted" => answer[r] = "accepted",
             UNCHANGED <<channel, pending, armed, answer, frontVars>>
      PROVE  ConsentInv'
  <2>1. ConsentTypeOK'
    BY <1>0, <1>1 DEF ConsentTypeOK, Goto, frontVars
  <2>2. ASSUME NEW q \in Request PROVE Placed(q)' /\ Genuine(q)' /\ Settled(q)'
    <3>1. Unsent(q)' => Unsent(q)
      BY <1>0, <1>1 DEF ConsentTypeOK, Goto, Unsent
    <3>2. UNCHANGED <<channel, pending, armed, answer, window, dialog, replies, told, agreed>>
      BY <1>1 DEF frontVars
    <3>3. Placed(q)'
      BY <1>0, <3>1, <3>2 DEF Placed, InChannel, InWindow, Replied, Running
    <3>4. Genuine(q)'
      BY <1>0, <1>1, <3>2 DEF ConsentTypeOK, Goto, Genuine
    <3>5. Settled(q)'
      BY <1>0, <1>1, <3>1, <3>2 DEF ConsentTypeOK, Goto, Settled, InChannel, InWindow, Replied
    <3>. QED BY <3>3, <3>4, <3>5
  <2>. QED BY <2>1, <2>2 DEF ConsentInv
<1>2. ASSUME NEW r \in Request,
             Ask(r) \/ Answered(r) \/ TimeOut(r) \/ DropReceiver(r) \/ Disconnect(r)
      PROVE  ConsentInv'
  <2>1. /\ handler[r] \in Stage /\ answer[r] \in {None, "accepted", "declined"}
        /\ {"full", "lapsed", "gone", "expired", "accepted", "declined"} \subseteq Stage
    BY <1>0 DEF ConsentTypeOK, Stage
  <2>2. CASE Ask(r)
    BY <1>1, <2>1, <2>2 DEF Ask, Unsent
  <2>3. CASE Answered(r)
    BY <1>1, <2>1, <2>3 DEF Answered, Waiting
  <2>4. CASE TimeOut(r)
    BY NoneAssumption, <1>1, <2>1, <2>4 DEF TimeOut, Waiting
  <2>5. CASE DropReceiver(r)
    BY <1>1, <2>1, <2>5 DEF DropReceiver
  <2>6. CASE Disconnect(r)
    BY <1>1, <2>1, <2>6 DEF Disconnect
  <2>. QED BY <1>2, <2>2, <2>3, <2>4, <2>5, <2>6
<1>3. ASSUME NEW r \in Request, Submit(r) PROVE ConsentInv'
  <2>1. /\ handler' = [handler EXCEPT ![r] = "waiting"] /\ handler[r] = "full"
        /\ channel' = Append(channel, r) /\ Len(channel) < MaxChannel
        /\ UNCHANGED <<pending, armed, answer, window, dialog, replies, told, agreed>>
    BY <1>3 DEF Submit, Goto, frontVars
  <2>2. ConsentTypeOK'
    BY ChannelAssumption, <1>0, <2>1 DEF ConsentTypeOK, Stage
  <2>4. \A q \in Request : /\ InChannel(q)' <=> InChannel(q) \/ q = r
                           /\ Unsent(q)' <=> Unsent(q) /\ q # r
    <3>1. /\ DOMAIN channel' = 1..(Len(channel) + 1) /\ DOMAIN channel = 1..Len(channel)
          /\ \A k \in DOMAIN channel : channel'[k] = channel[k]
          /\ channel'[Len(channel) + 1] = r /\ Len(channel) \in Nat
      BY <1>0, <2>1 DEF ConsentTypeOK
    <3>2. \A q \in Request : InChannel(q)' <=> InChannel(q) \/ q = r
      BY <3>1 DEF InChannel
    <3>3. \A q \in Request : Unsent(q)' <=> Unsent(q) /\ q # r
      BY <1>0, <2>1 DEF ConsentTypeOK, Unsent
    <3>. QED BY <3>2, <3>3
  <2>5. ASSUME NEW q \in Request,
               NEW i \in DOMAIN channel', NEW j \in DOMAIN channel',
               channel'[i] = q, channel'[j] = q
        PROVE  i = j
    <3>1. ~InChannel(r)
      BY <1>0, <2>1 DEF Placed, Unsent
    <3>. QED BY <1>0, <2>1, <2>5, <3>1 DEF ConsentTypeOK, Placed, InChannel
  <2>6. ASSUME NEW q \in Request PROVE Placed(q)' /\ Genuine(q)' /\ Settled(q)'
    <3>1. Placed(q)'
      BY <1>0, <2>1, <2>4, <2>5 DEF Placed, InWindow, Replied, Running, Unsent
    <3>2. Genuine(q)'
      BY <1>0, <2>1 DEF ConsentTypeOK, Genuine
    <3>3. Settled(q)'
      <4>1. Settled(q) /\ Unsent(r)
        BY <1>0, <2>1 DEF Unsent
      <4>2. handler'[q] = "accepted" => handler[q] = "accepted"
        BY <1>0, <2>1 DEF ConsentTypeOK
      <4>. QED BY <2>1, <2>4, <4>1, <4>2 DEF Settled, InWindow, Replied
    <3>. QED BY <3>1, <3>2, <3>3
  <2>. QED BY <2>2, <2>6 DEF ConsentInv
<1>4. ASSUME Bridge PROVE ConsentInv'
  <2>. DEFINE r == Head(channel)
  <2>1. /\ channel # <<>> /\ channel' = Tail(channel)
        /\ pending' = pending \cup {r} /\ armed' = armed \cup {r}
        /\ window' = Append(window, Asked(r))
        /\ UNCHANGED <<handler, answer, dialog, replies, told, agreed>>
    BY <1>4 DEF Bridge, Asked
  <2>2. r \in Request /\ channel[1] = r /\ 1 \in DOMAIN channel
    BY <1>0, <2>1 DEF ConsentTypeOK
  <2>. HIDE DEF r
  <2>3. ConsentTypeOK'
    <3>1. Asked(r) \in [kind : {"requested", "expired"}, request : Request]
      BY <2>2 DEF Asked, WindowEvent
    <3>2. channel' \in Seq(Request) /\ Len(channel') <= MaxChannel
      BY ChannelAssumption, <1>0, <2>1 DEF ConsentTypeOK
    <3>. QED BY <1>0, <2>1, <2>2, <3>1, <3>2 DEF ConsentTypeOK
  <2>4. /\ DOMAIN channel' = 1..(Len(channel) - 1)
        /\ \A k \in DOMAIN channel' : k + 1 \in DOMAIN channel /\ channel'[k] = channel[k + 1]
    BY <1>0, <2>1 DEF ConsentTypeOK
  <2>5. /\ DOMAIN window' = 1..(Len(window) + 1) /\ DOMAIN window = 1..Len(window)
        /\ \A k \in DOMAIN window : window'[k] = window[k]
        /\ window'[Len(window) + 1] = Asked(r) /\ Len(window) \in Nat
    BY <1>0, <2>1 DEF ConsentTypeOK, Asked
  <2>6. \A q \in Request : /\ InChannel(q)' => InChannel(q) /\ q # r
                           /\ InWindow(q)' => InWindow(q) \/ q = r
    <3>1. InChannel(r) /\ \A i, j \in DOMAIN channel : channel[i] = r /\ channel[j] = r => i = j
      BY <1>0, <2>2 DEF InChannel, Placed
    <3>2. \A q : Asked(q) = Asked(r) => q = r
      BY DEF Asked, WindowEvent
    <3>3. \A k \in DOMAIN channel' : k + 1 # 1
      BY <2>4
    <3>4. \A k \in DOMAIN channel' : channel'[k] # r
      BY <2>2, <2>4, <3>1, <3>3
    <3>. QED BY <2>4, <2>5, <3>2, <3>4 DEF InChannel, InWindow
  <2>7. ASSUME NEW q \in Request PROVE Placed(q)' /\ Genuine(q)' /\ Settled(q)'
    <3>1. Genuine(q)'
      BY <1>0, <2>1 DEF Genuine
    <3>2. Placed(q)
      BY <1>0
    <3>3. /\ ~InWindow(r) /\ ~Replied(r) /\ dialog # r /\ ~Unsent(r)
      BY <1>0, <2>2 DEF Placed, InChannel
    <3>4. /\ Unsent(q)' <=> Unsent(q)
          /\ Replied(q)' <=> Replied(q)
          /\ Running(q) \/ q = r => Running(q)'
      BY <2>1 DEF Unsent, Replied, Running
    <3>5. \A i, j \in DOMAIN channel' : channel'[i] = q /\ channel'[j] = q => i = j
      BY <2>4, <3>2 DEF Placed
    <3>6. \A i \in DOMAIN window' : window'[i] = Asked(q) =>
            \/ i = Len(window) + 1 /\ q = r
            \/ i \in DOMAIN window /\ window[i] = Asked(q) /\ q # r
      BY <2>5, <3>3 DEF Asked, WindowEvent, InWindow
    <3>7. \A i, j \in DOMAIN window' : window'[i] = Asked(q) /\ window'[j] = Asked(q) => i = j
      BY <3>2, <3>6 DEF Placed
    <3>8. \A i \in DOMAIN window' : window'[i] = Asked(q) =>
            Running(q)' \/ \E j \in DOMAIN window' : i < j /\ window'[j] = Expired(q)
      BY <2>5, <3>2, <3>4, <3>6 DEF Placed
    <3>9. dialog' = q => Running(q)' \/ \E j \in DOMAIN window' : window'[j] = Expired(q)
      BY <2>1, <2>5, <3>2, <3>4 DEF Placed
    <3>10. Unsent(q)' => /\ ~InChannel(q)' /\ ~InWindow(q)' /\ ~Replied(q)'
                         /\ dialog' # q /\ q \notin pending' /\ q \notin armed'
      BY <2>1, <2>6, <3>2, <3>3, <3>4 DEF Placed
    <3>11. InChannel(q)' => /\ ~InWindow(q)' /\ ~Replied(q)'
                            /\ dialog' # q /\ q \notin pending' /\ q \notin armed'
      BY <2>1, <2>6, <3>2, <3>4 DEF Placed
    <3>12. InWindow(q)' => dialog' # q /\ ~Replied(q)'
      BY <2>1, <2>6, <3>2, <3>3, <3>4 DEF Placed
    <3>13. (dialog' = q => ~Replied(q)') /\ (q \in pending' => q \in armed')
      BY <2>1, <3>2, <3>4 DEF Placed
    <3>14. Placed(q)'
      BY <3>1, <3>5, <3>7, <3>8, <3>9, <3>10, <3>11, <3>12, <3>13 DEF Placed
    <3>15. Settled(q)'
      <4>1. Settled(q) /\ InChannel(r)
        BY <1>0, <2>2 DEF InChannel
      <4>. QED BY <2>1, <2>6, <3>4, <4>1 DEF Settled
    <3>. QED BY <3>1, <3>14, <3>15
  <2>. QED BY <1>1, <2>3, <2>7 DEF ConsentInv
<1>5. ASSUME NEW r \in Request, Expire(r) PROVE ConsentInv'
  <2>1. /\ armed' = armed \ {r} /\ pending' = pending \ {r}
        /\ window' = IF r \in pending THEN Append(window, Expired(r)) ELSE window
        /\ UNCHANGED <<handler, channel, answer, dialog, replies, told, agreed>>
    BY <1>5 DEF Expire, Expired
  <2>2. ConsentTypeOK'
    <3>1. Expired(r) \in [kind : {"requested", "expired"}, request : Request]
      BY DEF Expired, WindowEvent
    <3>2. window' \in Seq([kind : {"requested", "expired"}, request : Request])
      <4>1. CASE r \in pending
        BY <1>0, <2>1, <3>1, <4>1 DEF ConsentTypeOK
      <4>2. CASE r \notin pending
        BY <1>0, <2>1, <4>2 DEF ConsentTypeOK
      <4>. QED BY <4>1, <4>2
    <3>. QED BY <1>0, <2>1, <3>2 DEF ConsentTypeOK
  <2>3. /\ DOMAIN window = 1..Len(window) /\ Len(window) \in Nat
        /\ DOMAIN window \subseteq DOMAIN window'
        /\ \A k \in DOMAIN window : window'[k] = window[k]
        /\ \A k \in DOMAIN window' \ DOMAIN window : window'[k] = Expired(r) /\ Len(window) < k
        /\ r \in pending => Len(window) + 1 \in DOMAIN window' /\ window'[Len(window) + 1] = Expired(r)
    BY <1>0, <2>1 DEF ConsentTypeOK, Expired
  <2>4. ASSUME NEW q \in Request PROVE Placed(q)' /\ Genuine(q)' /\ Settled(q)'
    <3>1. Genuine(q)' /\ Placed(q) /\ Settled(q)
      BY <1>0, <2>1 DEF Genuine
    <3>2. \A k \in DOMAIN window' : window'[k] = Asked(q) => k \in DOMAIN window /\ window[k] = Asked(q)
      BY <2>3 DEF Asked, Expired, WindowEvent
    <3>3. /\ Unsent(q)' <=> Unsent(q)
          /\ Replied(q)' <=> Replied(q)
          /\ InChannel(q)' <=> InChannel(q)
          /\ InWindow(q)' => InWindow(q)
          /\ Running(q) => Running(q)' \/ (q = r /\ r \in pending)
      <4>1. InWindow(q)' => InWindow(q)
        BY <3>2 DEF InWindow
      <4>2. Running(q) => Running(q)' \/ (q = r /\ r \in pending)
        BY <2>1 DEF Running
      <4>. QED BY <2>1, <4>1, <4>2 DEF Unsent, Replied, InChannel
    <3>4. \A i, j \in DOMAIN window' : window'[i] = Asked(q) /\ window'[j] = Asked(q) => i = j
      BY <3>1, <3>2 DEF Placed
    <3>5. \A i \in DOMAIN window' : window'[i] = Asked(q) =>
            Running(q)' \/ \E j \in DOMAIN window' : i < j /\ window'[j] = Expired(q)
      <4>1. SUFFICES ASSUME NEW i \in DOMAIN window, window[i] = Asked(q), ~Running(q)'
                     PROVE  \E j \in DOMAIN window' : i < j /\ window'[j] = Expired(q)
        BY <3>2
      <4>2. CASE Running(q)
        BY <2>3, <3>3, <4>1, <4>2
      <4>3. CASE ~Running(q)
        BY <2>3, <3>1, <4>1, <4>3 DEF Placed
      <4>. QED BY <4>2, <4>3
    <3>6. dialog' = q => Running(q)' \/ \E j \in DOMAIN window' : window'[j] = Expired(q)
      BY <2>1, <2>3, <3>1, <3>3 DEF Placed
    <3>7. Placed(q)'
      BY <2>1, <3>1, <3>3, <3>4, <3>5, <3>6 DEF Placed
    <3>8. Settled(q)'
      BY <2>1, <3>1, <3>3 DEF Settled
    <3>. QED BY <3>1, <3>7, <3>8
  <2>. QED BY <2>2, <2>4 DEF ConsentInv
(* The frontend takes the first of its events.                             *)
<1>6. ASSUME window # <<>>, window' = Tail(window)
      PROVE  /\ DOMAIN window = 1..Len(window) /\ Len(window) \in Nat /\ 1 \in DOMAIN window
             /\ DOMAIN window' = 1..(Len(window) - 1) /\ window[1] = Head(window)
             /\ \A k \in DOMAIN window' : k + 1 \in DOMAIN window /\ window'[k] = window[k + 1]
             /\ \A k \in DOMAIN window : 1 < k => k - 1 \in DOMAIN window' /\ window'[k - 1] = window[k]
             /\ window[1].request \in Request
             /\ window[1] = WindowEvent(window[1].kind, window[1].request)
  <2>1. DOMAIN window = 1..Len(window) /\ Len(window) \in Nat /\ 1 \in DOMAIN window
    BY <1>0, <1>6 DEF ConsentTypeOK
  <2>2. window[1] \in [kind : {"requested", "expired"}, request : Request]
    <3>. DEFINE S == [kind : {"requested", "expired"}, request : Request]
    <3>1. window \in Seq(S)
      BY <1>0 DEF ConsentTypeOK
    <3>. HIDE DEF S
    <3>2. window[1] \in S
      BY <2>1, <3>1
    <3>. QED BY <3>2 DEF S
  <2>3. /\ DOMAIN window' = 1..(Len(window) - 1) /\ window[1] = Head(window)
        /\ \A k \in 1..(Len(window) - 1) : window'[k] = window[k + 1]
    BY <1>0, <1>6 DEF ConsentTypeOK
  <2>4. \A k \in DOMAIN window : 1 < k => k - 1 \in DOMAIN window' /\ window'[k - 1] = window[k]
    <3>1. ASSUME NEW k \in DOMAIN window, 1 < k
          PROVE  k - 1 \in 1..(Len(window) - 1) /\ (k - 1) + 1 = k
      BY <2>1, <3>1
    <3>. QED BY <2>3, <3>1
  <2>5. \A k \in DOMAIN window' : k + 1 \in DOMAIN window
    BY <2>1, <2>3
  <2>. QED BY <2>1, <2>2, <2>3, <2>4, <2>5 DEF WindowEvent
<1>7. ASSUME NEW q \in Request, window # <<>>, window' = Tail(window), UNCHANGED <<pending, armed>>,
             Placed(q)
      PROVE  /\ InWindow(q)' => InWindow(q) /\ window[1] # Asked(q)
             /\ \A i, j \in DOMAIN window' : window'[i] = Asked(q) /\ window'[j] = Asked(q) => i = j
             /\ \A i \in DOMAIN window' : window'[i] = Asked(q) =>
                  Running(q)' \/ \E j \in DOMAIN window' : i < j /\ window'[j] = Expired(q)
  <2>1. Running(q)' <=> Running(q)
    BY <1>7 DEF Running
  <2>2. ASSUME NEW k \in DOMAIN window', window'[k] = Asked(q)
        PROVE  window[1] # Asked(q) /\ window[k + 1] = Asked(q) /\ k + 1 \in DOMAIN window
    BY <1>6, <1>7, <2>2 DEF Placed
  <2>3. ASSUME NEW i \in DOMAIN window', window'[i] = Asked(q)
        PROVE  Running(q)' \/ \E j \in DOMAIN window' : i < j /\ window'[j] = Expired(q)
    <3>1. CASE Running(q)
      BY <2>1, <3>1
    <3>2. CASE ~Running(q)
      <4>1. PICK j \in DOMAIN window : i + 1 < j /\ window[j] = Expired(q)
        BY <1>7, <2>2, <2>3, <3>2 DEF Placed
      <4>2. j - 1 \in DOMAIN window' /\ window'[j - 1] = Expired(q) /\ i < j - 1
        BY <1>6, <1>7, <4>1
      <4>. QED BY <4>2
    <3>. QED BY <3>1, <3>2
  <2>4. \A i, j \in DOMAIN window' : window'[i] = Asked(q) /\ window'[j] = Asked(q) => i = j
    <3>1. ASSUME NEW i \in DOMAIN window', NEW j \in DOMAIN window',
                 window'[i] = Asked(q), window'[j] = Asked(q)
          PROVE  i = j
      <4>1. i + 1 = j + 1
        BY <1>7, <2>2, <3>1 DEF Placed
      <4>. QED BY <1>6, <1>7, <4>1
    <3>. QED BY <3>1
  <2>. QED BY <2>2, <2>3, <2>4 DEF InWindow
<1>8. ASSUME ShowConsent PROVE ConsentInv'
  <2>. DEFINE r == Head(window).request
              shown == IF dialog = None THEN {} ELSE {Reply(dialog, "declined")}
  <2>1. /\ window # <<>> /\ window' = Tail(window) /\ dialog' = r
        /\ replies' = replies \cup shown /\ Head(window).kind = "requested"
        /\ UNCHANGED <<handler, channel, pending, armed, answer, told, agreed>>
    BY <1>8 DEF ShowConsent, backVars
  <2>2. r \in Request /\ window[1] = Asked(r) /\ InWindow(r)
    BY <1>6, <2>1 DEF Asked, InWindow
  <2>3. /\ dialog # None => dialog \in Request
        /\ shown \subseteq [request : Request, word : {"accepted", "declined"}]
        /\ \A reply \in shown : reply.word = "declined" /\ reply.request = dialog /\ dialog # None
        /\ \A p, q \in shown : p = q
    BY <1>0 DEF ConsentTypeOK, Reply
  <2>. HIDE DEF r, shown
  <2>4. ConsentTypeOK'
    <3>1. window' \in Seq([kind : {"requested", "expired"}, request : Request])
      BY <1>0, <2>1 DEF ConsentTypeOK
    <3>. QED BY <1>0, <2>1, <2>2, <2>3, <3>1 DEF ConsentTypeOK
  <2>5. ASSUME NEW q \in Request PROVE Placed(q)' /\ Genuine(q)' /\ Settled(q)'
    <3>1. Genuine(q)'
      BY <1>0, <2>1, <2>3 DEF Genuine
    <3>2. Placed(q) /\ Placed(r)
      BY <1>0, <2>2
    <3>3. /\ Unsent(q)' <=> Unsent(q)
          /\ InChannel(q)' <=> InChannel(q)
          /\ Running(q)' <=> Running(q)
          /\ Replied(q)' => Replied(q) \/ dialog = q
      BY <2>1, <2>3 DEF Unsent, InChannel, Running, Replied
    <3>4. InWindow(q)' => InWindow(q) /\ q # r
      BY <1>7, <2>1, <2>2, <3>2
    <3>5. ASSUME dialog' = q
          PROVE  Running(q)' \/ \E j \in DOMAIN window' : window'[j] = Expired(q)
      <4>1. Running(q) \/ \E j \in DOMAIN window : 1 < j /\ window[j] = Expired(q)
        BY <1>6, <2>1, <2>2, <3>2, <3>5 DEF Placed
      <4>. QED BY <1>6, <2>1, <3>3, <4>1
    <3>6. /\ Unsent(q)' => ~InChannel(q)' /\ ~InWindow(q)' /\ ~Replied(q)' /\ dialog' # q
          /\ InChannel(q)' => ~InWindow(q)' /\ ~Replied(q)' /\ dialog' # q
      BY <2>1, <2>2, <3>2, <3>3, <3>4 DEF Placed
    <3>7. /\ InWindow(q)' => dialog' # q /\ ~Replied(q)'
          /\ dialog' = q => ~Replied(q)'
      BY <2>1, <2>2, <3>2, <3>3, <3>4 DEF Placed
    <3>8. /\ \A i, j \in DOMAIN window' : window'[i] = Asked(q) /\ window'[j] = Asked(q) => i = j
          /\ \A i \in DOMAIN window' : window'[i] = Asked(q) =>
               Running(q)' \/ \E j \in DOMAIN window' : i < j /\ window'[j] = Expired(q)
      BY <1>7, <2>1, <3>2
    <3>9. Placed(q)'
      BY <2>1, <3>2, <3>3, <3>5, <3>6, <3>7, <3>8 DEF Placed
    <3>10. Settled(q)'
      <4>1. Settled(q) /\ (dialog = q => ~Replied(q))
        BY <1>0, <3>2 DEF Placed
      <4>2. told[q] = "accepted" => q # r /\ ~Replied(q)'
        BY <2>2, <3>3, <4>1 DEF Settled
      <4>3. \A p1, p2 \in replies' : p1.request = q /\ p2.request = q => p1 = p2
        BY <2>1, <2>3, <4>1 DEF Settled, Replied
      <4>. QED BY <2>1, <3>3, <3>4, <4>1, <4>2, <4>3 DEF Settled
    <3>. QED BY <3>1, <3>9, <3>10
  <2>. QED BY <2>4, <2>5 DEF ConsentInv
<1>9. ASSUME ExpireConsent PROVE ConsentInv'
  <2>. DEFINE e == Head(window).request
  <2>1. /\ window # <<>> /\ window' = Tail(window) /\ Head(window).kind = "expired"
        /\ IF dialog = e THEN dialog' = None /\ told' = [told EXCEPT ![dialog] = "expired"]
                         ELSE UNCHANGED <<dialog, told>>
        /\ UNCHANGED <<handler, channel, pending, armed, answer, replies, agreed>>
    BY <1>9 DEF ExpireConsent, backVars
  <2>2. e \in Request /\ window[1] = Expired(e)
    BY <1>6, <2>1 DEF Expired
  <2>. HIDE DEF e
  <2>3. ConsentTypeOK'
    <3>1. window' \in Seq([kind : {"requested", "expired"}, request : Request])
      BY <1>0, <2>1 DEF ConsentTypeOK
    <3>2. dialog' \in Request \cup {None}
      BY <1>0, <2>1 DEF ConsentTypeOK
    <3>3. told' \in [Request -> {None, "accepted", "declined", "expired"}]
      BY <1>0, <2>1 DEF ConsentTypeOK
    <3>. QED BY <1>0, <2>1, <3>1, <3>2, <3>3 DEF ConsentTypeOK
  <2>4. ASSUME NEW q \in Request PROVE Placed(q)' /\ Genuine(q)' /\ Settled(q)'
    <3>1. Genuine(q)' /\ Placed(q) /\ Settled(q)
      BY <1>0, <2>1 DEF Genuine
    <3>2. /\ Unsent(q)' <=> Unsent(q)
          /\ InChannel(q)' <=> InChannel(q)
          /\ Running(q)' <=> Running(q)
          /\ Replied(q)' <=> Replied(q)
          /\ dialog' = q => dialog = q /\ q # e
      BY NoneAssumption, <2>1 DEF Unsent, InChannel, Running, Replied
    <3>3. ASSUME dialog' = q
          PROVE  Running(q)' \/ \E j \in DOMAIN window' : window'[j] = Expired(q)
      <4>1. Expired(q) # window[1]
        BY <2>2, <3>2, <3>3 DEF Expired, WindowEvent
      <4>2. Running(q) \/ \E j \in DOMAIN window : 1 < j /\ window[j] = Expired(q)
        BY <1>6, <2>1, <3>1, <3>2, <3>3, <4>1 DEF Placed
      <4>. QED BY <1>6, <2>1, <3>2, <4>2
    <3>4. /\ InWindow(q)' => InWindow(q)
          /\ \A i, j \in DOMAIN window' : window'[i] = Asked(q) /\ window'[j] = Asked(q) => i = j
          /\ \A i \in DOMAIN window' : window'[i] = Asked(q) =>
               Running(q)' \/ \E j \in DOMAIN window' : i < j /\ window'[j] = Expired(q)
      BY <1>7, <2>1, <3>1
    <3>5. Placed(q)'
      BY <2>1, <3>1, <3>2, <3>3, <3>4 DEF Placed
    <3>6. Settled(q)'
      <4>1. /\ told'[q] = "accepted" => told[q] = "accepted"
            /\ told[q] = "accepted" => told'[q] = "accepted"
        BY <1>0, <2>1, <3>1 DEF ConsentTypeOK, Settled
      <4>. QED BY <2>1, <3>1, <3>2, <3>4, <4>1 DEF Settled
    <3>. QED BY <3>1, <3>5, <3>6
  <2>. QED BY <2>3, <2>4 DEF ConsentInv
<1>10. ASSUME NEW word \in {"accepted", "declined"}, Click(word) PROVE ConsentInv'
  <2>1. /\ dialog \in Request /\ dialog' = None
        /\ replies' = replies \cup {Reply(dialog, word)}
        /\ agreed' = IF word = "accepted" THEN agreed \cup {dialog} ELSE agreed
        /\ UNCHANGED <<handler, channel, pending, armed, answer, window, told>>
    BY <1>0, <1>10 DEF Click, ConsentTypeOK, backVars
  <2>2. ConsentTypeOK'
    <3>1. replies' \subseteq [request : Request, word : {"accepted", "declined"}]
      BY <1>0, <2>1 DEF ConsentTypeOK, Reply
    <3>2. agreed' \subseteq Request
      BY <1>0, <2>1 DEF ConsentTypeOK
    <3>. QED BY <1>0, <2>1, <3>1, <3>2 DEF ConsentTypeOK
  <2>3. ASSUME NEW q \in Request PROVE Placed(q)' /\ Genuine(q)' /\ Settled(q)'
    <3>1. Genuine(q)'
      BY <1>0, <2>1 DEF Genuine, Reply
    <3>2. /\ Unsent(q)' <=> Unsent(q)
          /\ InChannel(q)' <=> InChannel(q)
          /\ InWindow(q)' <=> InWindow(q)
          /\ Running(q)' <=> Running(q)
          /\ Replied(q)' => Replied(q) \/ dialog = q
          /\ dialog' # q
      BY NoneAssumption, <2>1 DEF Unsent, InChannel, InWindow, Running, Replied, Reply
    <3>3. Placed(q)'
      BY <1>0, <2>1, <3>2 DEF Placed
    <3>4. Settled(q)'
      <4>1. Settled(q) /\ (dialog = q => ~Replied(q))
        BY <1>0 DEF Placed
      <4>2. \A p1, p2 \in replies' : p1.request = q /\ p2.request = q => p1 = p2
        BY <2>1, <4>1 DEF Settled, Replied, Reply
      <4>. QED BY <2>1, <3>2, <4>1, <4>2 DEF Settled
    <3>. QED BY <3>1, <3>3, <3>4
  <2>. QED BY <2>2, <2>3 DEF ConsentInv
<1>11. ASSUME NEW reply \in replies, Respond(reply) PROVE ConsentInv'
  <2>. DEFINE r == reply.request
  <2>1. /\ replies' = replies \ {reply} /\ pending' = pending \ {r}
        /\ \/ /\ Listening(r) /\ answer' = [answer EXCEPT ![r] = reply.word]
              /\ told' = [told EXCEPT ![r] = reply.word]
           \/ told' = [told EXCEPT ![r] = "expired"] /\ answer' = answer
        /\ UNCHANGED <<handler, channel, armed, window, dialog, agreed>>
    BY <1>11 DEF Respond
  <2>2. r \in Request /\ reply.word \in {"accepted", "declined"} /\ Replied(r)
    BY <1>0 DEF ConsentTypeOK, Replied
  <2>. HIDE DEF r
  <2>3. ConsentTypeOK'
    <3>1. /\ answer' \in [Request -> {None, "accepted", "declined"}]
          /\ told' \in [Request -> {None, "accepted", "declined", "expired"}]
      BY <1>0, <2>1, <2>2 DEF ConsentTypeOK
    <3>. QED BY <1>0, <2>1, <3>1 DEF ConsentTypeOK
  <2>4. ASSUME NEW q \in Request PROVE Placed(q)' /\ Genuine(q)' /\ Settled(q)'
    <3>1. Genuine(q)'
      <4>1. Genuine(q) /\ (reply.request = q /\ reply.word = "accepted" => q \in agreed)
        BY <1>0 DEF Genuine
      <4>2. answer'[q] = "accepted" => answer[q] = "accepted" \/ (q = r /\ reply.word = "accepted")
        BY <1>0, <2>1, <2>2 DEF ConsentTypeOK
      <4>. QED BY <2>1, <4>1, <4>2 DEF Genuine, r
    <3>2. /\ Unsent(q)' <=> Unsent(q)
          /\ InChannel(q)' <=> InChannel(q)
          /\ InWindow(q)' <=> InWindow(q)
          /\ Replied(q)' => Replied(q)
          /\ Running(q) /\ q # r => Running(q)'
          /\ q \in pending' => q \in pending
      BY <2>1 DEF Unsent, InChannel, InWindow, Running, Replied
    <3>3. ~InWindow(r) /\ dialog # r
      BY <1>0, <2>2 DEF Placed
    <3>4. Placed(q)
      BY <1>0
    <3>5. \A i \in DOMAIN window : window[i] = Asked(q) =>
            Running(q)' \/ \E j \in DOMAIN window : i < j /\ window[j] = Expired(q)
      BY <3>2, <3>3, <3>4 DEF Placed, InWindow
    <3>6. Placed(q)'
      BY <2>1, <3>2, <3>3, <3>4, <3>5 DEF Placed
    <3>7. Settled(q)'
      <4>1. Settled(q)
        BY <1>0
      <4>2. CASE q # r
        <5>1. answer'[q] = answer[q] /\ told'[q] = told[q]
          BY <1>0, <2>1, <4>2 DEF ConsentTypeOK
        <5>. QED BY <2>1, <3>2, <4>1, <5>1 DEF Settled
      <4>3. CASE q = r
        <5>1. told[r] # "accepted" /\ answer[r] # "accepted" /\ handler[r] # "accepted"
          BY <2>2, <4>1, <4>3 DEF Settled
        <5>2. answer'[r] = "accepted" => told'[r] = "accepted"
          BY <1>0, <2>1, <2>2, <5>1 DEF ConsentTypeOK
        <5>3. ~Replied(r)' /\ \A p1, p2 \in replies' : p1.request = r /\ p2.request = r => p1 = p2
          BY <2>1, <4>1, <4>3 DEF Settled, Replied, r
        <5>4. ~Unsent(r) /\ ~InChannel(r)
          BY <1>0, <2>2 DEF Placed
        <5>. QED BY <2>1, <3>2, <3>3, <4>3, <5>1, <5>2, <5>3, <5>4 DEF Settled
      <4>. QED BY <4>2, <4>3
    <3>. QED BY <3>1, <3>6, <3>7
  <2>. QED BY <2>3, <2>4 DEF ConsentInv
<1>. QED
  BY <1>2, <1>3, <1>4, <1>5, <1>8, <1>9, <1>10, <1>11 DEF ConsentNext

(* The composition, in which the process may be killed: both parts keep    *)
(* their invariants, and only an accepted request, of which the user is    *)
(* told so, has a session.                                                 *)
ReceptionInv ==
  /\ ConsentInv /\ HistoryInv
  /\ \A s \in Session : status[s] # "none" => s \in agreed /\ told[s] = "accepted"

(* Who agreed has agreed, and who is told that it was accepted is not told *)
(* otherwise later.                                                        *)
LEMMA ToldStays ==
  ASSUME ConsentInv, ConsentNext, NEW r \in Request
  PROVE  /\ agreed \subseteq agreed'
         /\ told[r] = "accepted" => told'[r] = "accepted"
<1>1. ConsentTypeOK /\ Settled(r)
  BY DEF ConsentInv
<1>2. CASE ExpireConsent
  BY <1>1, <1>2 DEF ExpireConsent, backVars, ConsentTypeOK, Settled
<1>3. CASE \E reply \in replies : Respond(reply)
  BY <1>1, <1>3 DEF Respond, ConsentTypeOK, Settled, Replied
<1>4. CASE ~ExpireConsent /\ ~ \E reply \in replies : Respond(reply)
  BY <1>4 DEF ConsentNext, Ask, Submit, Answered, TimeOut, DropReceiver, Disconnect, Expire,
              Bridge, ShowConsent, Click, frontVars
<1>. QED BY <1>2, <1>3, <1>4

(* No step of the history creates a session.                               *)
LEMMA NoneStaysNone ==
  ASSUME HistoryInv, HistoryNext, NEW s \in Session, status'[s] # "none"
  PROVE  status[s] # "none"
<1>1. status \in [Session -> {"none", "accepted", "completed", "cancelled", "gone"}]
  BY DEF HistoryInv, HistoryTypeOK
<1>2. ASSUME NEW q \in Session, SessionNext(q) PROVE status[s] # "none"
  <2>1. q \in finishing => status[q] # "none"
    BY DEF HistoryInv, Followed
  <2>. QED BY <1>1, <1>2, <2>1 DEF SessionNext, Chunk, FinishCheck, FinishFails, FinishRecord,
                                   CancelSession, Prune, Exists
<1>3. ASSUME ~ \E q \in Session : SessionNext(q) PROVE status' = status
  BY <1>3 DEF HistoryNext, Emit, DropCancel, Hear, Listen, RecordSent, DeleteRecord,
              ClearHistory, Want, Load, Store, StoreFails, sessionVars
<1>. QED BY <1>2, <1>3

LEMMA ReceptionHolds == ReceptionSpec => []ReceptionInv
<1>1. ASSUME ReceptionInit PROVE ReceptionInv
  <2>1. ConsentTypeOK
    BY <1>1, ChannelAssumption, NoneAssumption
    DEF ReceptionInit, ConsentInit, ConsentTypeOK, Stage
  <2>2. \A r \in Request : Placed(r) /\ Genuine(r) /\ Settled(r)
    <3>1. /\ DOMAIN channel = {} /\ DOMAIN window = {} /\ pending = {} /\ armed = {}
          /\ replies = {} /\ dialog = None
          /\ \A r \in Request : handler[r] = "idle" /\ answer[r] = None /\ told[r] = None
      BY <1>1 DEF ReceptionInit, ConsentInit
    <3>. QED BY <3>1, NoneAssumption DEF Placed, Genuine, Settled, InChannel, InWindow, Replied
  <2>3. HistoryInv /\ \A s \in Session : status[s] = "none"
    BY <1>1, HistoryStarts DEF ReceptionInit, HistoryInit
  <2>. QED BY <2>1, <2>2, <2>3 DEF ReceptionInv, ConsentInv
<1>2. ASSUME ReceptionInv, [ReceptionNext]_receptionVars PROVE ReceptionInv'
  <2>1. ASSUME UNCHANGED consentVars PROVE ConsentInv' /\ agreed' = agreed /\ told' = told
    <3>1. UNCHANGED <<handler, channel, pending, armed, answer, window, dialog, replies, told, agreed>>
      BY <2>1 DEF consentVars, backVars, frontVars
    <3>2. ConsentTypeOK'
      BY <1>2, <3>1 DEF ReceptionInv, ConsentInv, ConsentTypeOK
    <3>3. \A r \in Request : Placed(r)' /\ Genuine(r)' /\ Settled(r)'
      BY <1>2, <3>1 DEF ReceptionInv, ConsentInv, Placed, Genuine, Settled, Unsent, InChannel, InWindow,
                        Replied, Running
    <3>. QED BY <3>1, <3>2, <3>3 DEF ConsentInv
  <2>2. ASSUME UNCHANGED historyVars PROVE HistoryInv' /\ status' = status
    BY <1>2, <2>2, HistoryStep DEF ReceptionInv, historyVars, sessionVars
  <2>3. CASE ConsentNext /\ UNCHANGED historyVars
    <3>1. \A s \in Session : s \in agreed /\ told[s] = "accepted" => s \in agreed' /\ told'[s] = "accepted"
      BY <1>2, <2>3, ToldStays, SessionAssumption DEF ReceptionInv
    <3>. QED BY <1>2, <2>2, <2>3, <3>1, ConsentStep DEF ReceptionInv
(* A session is created only behind a handler that was told to.            *)
  <2>4. ASSUME NEW r \in Session, Accept(r) PROVE ReceptionInv'
    <3>1. r \in agreed /\ told[r] = "accepted"
      BY <1>2, <2>4, SessionAssumption DEF Accept, ReceptionInv, ConsentInv, Genuine, Settled
    <3>2. \A s \in Session : status'[s] # "none" => status[s] # "none" \/ s = r
      BY <1>2, <2>4 DEF Accept, CreateSession, ReceptionInv, HistoryInv, HistoryTypeOK
    <3>3. HistoryInv'
      BY <1>2, <2>4, HandlerStep DEF Accept, ReceptionInv
    <3>4. ConsentInv' /\ agreed' = agreed /\ told' = told
      BY <2>1, <2>4 DEF Accept
    <3>. QED BY <1>2, <3>1, <3>2, <3>3, <3>4 DEF ReceptionInv
  <2>5. CASE HistoryNext /\ UNCHANGED consentVars
    BY <1>2, <2>1, <2>5, HistoryStep, NoneStaysNone DEF ReceptionInv
  <2>6. CASE KillApp
    <3>1. /\ handler' = [r \in Request |-> IF handler[r] = "idle" THEN "idle" ELSE "gone"]
          /\ channel' = <<>> /\ pending' = {} /\ armed' = {} /\ window' = <<>> /\ dialog' = None
          /\ replies' = {} /\ answer' = [r \in Request |-> None] /\ UNCHANGED <<told, agreed>>
      BY <2>6 DEF KillApp
    <3>2. ConsentTypeOK'
      BY <1>2, <3>1, ChannelAssumption
      DEF ReceptionInv, ConsentInv, ConsentTypeOK, Stage
    <3>3. \A r \in Request : Placed(r)' /\ Genuine(r)' /\ Settled(r)'
      <4>1. DOMAIN channel' = {} /\ DOMAIN window' = {}
        BY <3>1
      <4>2. \A r \in Request : told[r] = "accepted" => ~Unsent(r)'
        BY <1>2, <3>1 DEF ReceptionInv, ConsentInv, Settled, Unsent
      <4>. QED BY <3>1, <4>1, <4>2, NoneAssumption
           DEF Placed, Genuine, Settled, InChannel, InWindow, Replied
    <3>4. HistoryInv' /\ \A s \in Session : status'[s] # "none" => status[s] # "none"
      BY <1>2, <2>6, KillStep DEF KillApp, Kill, Exists, ReceptionInv
    <3>. QED BY <1>2, <3>1, <3>2, <3>3, <3>4 DEF ConsentInv, ReceptionInv
  <2>7. CASE UNCHANGED receptionVars
    BY <1>2, <2>1, <2>2, <2>7 DEF receptionVars, ReceptionInv
  <2>. QED BY <1>2, <2>3, <2>4, <2>5, <2>6, <2>7 DEF ReceptionNext
<1>. QED BY <1>1, <1>2, PTL DEF ReceptionSpec

(* The variables of both parts keep their types, the channels their        *)
(* capacity and the files of a session their range.               *)
THEOREM ReceptionTypeCorrect == ReceptionSpec => []ReceptionTypeOK
<1>1. ReceptionInv => ReceptionTypeOK
  BY DEF ReceptionInv, ConsentInv, HistoryInv, ReceptionTypeOK
<1>. QED BY <1>1, ReceptionHolds, PTL

(* Whose transfer goes on was told so and is not told otherwise, for any   *)
(* requests and channel (evaluate_consent, respond_transfer_request).      *)
THEOREM StartedIsAlwaysTold == ReceptionSpec => []StartedIsTold
<1>1. ASSUME ReceptionInv PROVE StartedIsTold
  <2>1. \A r \in Request : answer[r] = "accepted" \/ handler[r] = "accepted" => told[r] = "accepted"
    BY <1>1 DEF ReceptionInv, ConsentInv, Settled
  <2>2. ToSet(file) \subseteq added /\ \A s \in Session : Followed(s)
    BY <1>1 DEF ReceptionInv, HistoryInv, HistoryTypeOK, RecordsKept
  <2>3. \A s \in Session : s \in ToSet(file) => status[s] # "none"
    BY <2>2 DEF Followed
  <2>. QED BY <1>1, <2>1, <2>3 DEF ReceptionInv, StartedIsTold
<1>. QED BY <1>1, ReceptionHolds, PTL

(* A dialog, or an entry behind it, that nobody waits for is on its way    *)
(* out, whatever crosses its way (the expiry task of lib.rs).              *)
THEOREM StaleAlwaysExpires == ReceptionSpec => []StaleIsExpiring
<1>1. ReceptionInv => StaleIsExpiring
  BY DEF ReceptionInv, ConsentInv, StaleIsExpiring, Placed, Running, Expired
<1>. QED BY <1>1, ReceptionHolds, PTL

(* No session is created for a request its user has not accepted, and no   *)
(* other transfer is ever in the file of received ones (evaluate_consent,  *)
(* create_session, the listener of lib.rs).                                *)
THEOREM ReceivedIsAlwaysAgreed == ReceptionSpec => []ReceivedIsAgreed
<1>1. ASSUME ReceptionInv PROVE ReceivedIsAgreed
  <2>1. \A r \in Request : handler[r] = "accepted" => r \in agreed
    BY <1>1 DEF ReceptionInv, ConsentInv, Genuine
  <2>2. ToSet(file) \subseteq added /\ \A s \in Session : Followed(s)
    BY <1>1 DEF ReceptionInv, HistoryInv, HistoryTypeOK, RecordsKept
  <2>3. \A s \in Session : s \in ToSet(file) => status[s] # "none"
    BY <2>2 DEF Followed
  <2>. QED BY <1>1, <2>1, <2>3 DEF ReceptionInv, ReceivedIsAgreed
<1>. QED BY <1>1, ReceptionHolds, PTL

(* Every record is in the history file once, from the add that returned to *)
(* the user's delete, whoever else writes and whenever the process is      *)
(* killed (HISTORY_LOCK, recorded_tokens).                                 *)
THEOREM RecordsAreKept == ReceptionSpec => []RecordsKept
<1>1. ReceptionInv => RecordsKept
  BY DEF ReceptionInv, HistoryInv
<1>. QED BY <1>1, ReceptionHolds, PTL

(* A received transfer that has completed or was cancelled is recorded     *)
(* once its events are through, unless the channel or a dropped handler    *)
(* has lost one of them, or the file could not be written (emit_event, the *)
(* listener of lib.rs, add_record).                                        *)
THEOREM EndedIsAlwaysRecorded == ReceptionSpec => []EndedIsRecorded
<1>1. ReceptionInv => EndedIsRecorded
  BY QuietIsRecorded DEF ReceptionInv
<1>. QED BY <1>1, ReceptionHolds, PTL
=============================================================================
