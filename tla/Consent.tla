------------------------------ MODULE Consent ------------------------------
(***************************************************************************)
(* The question whether a transfer may start: the request handler          *)
(* (evaluate_consent in server/state.rs), the bridge and the expiry tasks  *)
(* (lib.rs), the dialog (transfer.js, ui.js) and the command that brings   *)
(* the answer back (respond_transfer_request in commands.rs).              *)
(*                                                                         *)
(*   handler --> channel --> bridge --> window --> dialog                  *)
(*      ^                       pending               |                    *)
(*      +------ responder <-- respond <-- replies <---+                    *)
(*                                                                         *)
(* The handler waits 60 s from the moment the channel took its request,    *)
(* the expiry task 61 s from the moment the bridge did, which is later: so *)
(* the task finds the handler no longer waiting.  Time is not modelled     *)
(* beyond that.                                                            *)
(***************************************************************************)
EXTENDS Naturals, Sequences

CONSTANTS
  Request,    \* transfer requests, by request_id
  MaxChannel, \* capacity of the consent channel (64)
  None

ASSUME ChannelAssumption == MaxChannel \in Nat \ {0}
ASSUME NoneAssumption == None \notin Request \cup {"accepted", "declined", "expired"}

VARIABLES
  handler,  \* where the handler of each request stands
  channel,  \* the consent channel
  pending,  \* pending_consents
  armed,    \* requests whose expiry task sleeps
  answer,   \* what the responder has brought to the handler
  window,   \* events on their way to the frontend
  dialog,   \* the request the dialog shows
  replies,  \* calls of respond_transfer_request on their way
  told,     \* what the user was told of a request
  agreed    \* the requests whose dialog the user accepted

backVars == <<handler, channel, pending, armed, answer>>
frontVars == <<window, dialog, replies, told, agreed>>
consentVars == <<backVars, frontVars>>

(* "accepted": evaluate_consent is through, the session is created next.   *)
(* "lapsed": the 60 s are over, the answer can still be sent.              *)
Stage == {"idle", "full", "waiting", "lapsed", "accepted", "declined", "expired", "gone"}
Waiting(r) == handler[r] = "waiting"
Listening(r) == handler[r] \in {"waiting", "lapsed"}
Over(r) == handler[r] \in {"accepted", "declined", "expired", "gone"}

Goto(r, stage) == handler' = [handler EXCEPT ![r] = stage]

(***************************************************************************)
(* The handler                                                             *)
(***************************************************************************)
Ask(r) ==
  /\ handler[r] = "idle"
  /\ Goto(r, "full")
  /\ UNCHANGED <<channel, pending, armed, answer, frontVars>>

(* Faulty variant: the channel is not waited for.                          *)
SubmitAnyway(r) ==
  /\ handler[r] = "full"
  /\ channel' = Append(channel, r)
  /\ Goto(r, "waiting")
  /\ UNCHANGED <<pending, armed, answer, frontVars>>

Submit(r) ==
  /\ handler[r] = "full" /\ Len(channel) < MaxChannel
  /\ channel' = Append(channel, r)
  /\ Goto(r, "waiting")
  /\ UNCHANGED <<pending, armed, answer, frontVars>>

Answered(r) ==
  /\ Waiting(r) /\ answer[r] # None
  /\ Goto(r, answer[r])
  /\ UNCHANGED <<channel, pending, armed, answer, frontVars>>

(* timeout polls the answer, then the clock, and drops the receiver after  *)
(* that: an answer sent in between is taken and not read.                  *)
TimeOut(r) ==
  /\ Waiting(r) /\ answer[r] = None
  /\ Goto(r, "lapsed")
  /\ UNCHANGED <<channel, pending, armed, answer, frontVars>>

DropReceiver(r) ==
  /\ handler[r] = "lapsed"
  /\ Goto(r, "expired")
  /\ UNCHANGED <<channel, pending, armed, answer, frontVars>>

(* The sender closes the connection and the handler is dropped.            *)
Disconnect(r) ==
  /\ handler[r] \in {"full", "waiting"}
  /\ Goto(r, "gone")
  /\ UNCHANGED <<channel, pending, armed, answer, frontVars>>

(***************************************************************************)
(* The bridge and the expiry tasks                                         *)
(***************************************************************************)
WindowEvent(kind, r) == [kind |-> kind, request |-> r]

Bridge ==
  /\ channel # <<>>
  /\ LET r == Head(channel) IN
       /\ pending' = pending \cup {r}
       /\ armed' = armed \cup {r}
       /\ window' = Append(window, WindowEvent("requested", r))
  /\ channel' = Tail(channel)
  /\ UNCHANGED <<handler, answer, dialog, replies, told, agreed>>

(* Faulty variant: the entry goes, the dialog stays.                       *)
ExpireSilently(r) ==
  /\ r \in armed /\ ~Listening(r)
  /\ armed' = armed \ {r}
  /\ pending' = pending \ {r}
  /\ UNCHANGED <<handler, channel, answer, frontVars>>

(* An entry that is still there has had no answer, and its responder is    *)
(* closed.                                                                 *)
Expire(r) ==
  /\ r \in armed /\ ~Listening(r)
  /\ armed' = armed \ {r}
  /\ pending' = pending \ {r}
  /\ window' = IF r \in pending THEN Append(window, WindowEvent("expired", r)) ELSE window
  /\ UNCHANGED <<handler, channel, answer, dialog, replies, told, agreed>>

(***************************************************************************)
(* The frontend                                                            *)
(***************************************************************************)
Reply(r, word) == [request |-> r, word |-> word]

(* Faulty variant: the request the dialog shows is accepted with the next. *)
ShowInstead ==
  /\ window # <<>> /\ Head(window).kind = "requested"
  /\ window' = Tail(window)
  /\ dialog' = Head(window).request
  /\ replies' = replies \cup (IF dialog = None THEN {} ELSE {Reply(dialog, "accepted")})
  /\ UNCHANGED <<backVars, told, agreed>>

(* A request that finds the dialog open declines the one it shows.         *)
ShowConsent ==
  /\ window # <<>> /\ Head(window).kind = "requested"
  /\ window' = Tail(window)
  /\ dialog' = Head(window).request
  /\ replies' = replies \cup (IF dialog = None THEN {} ELSE {Reply(dialog, "declined")})
  /\ UNCHANGED <<backVars, told, agreed>>

ExpireConsent ==
  /\ window # <<>> /\ Head(window).kind = "expired"
  /\ window' = Tail(window)
  /\ IF dialog = Head(window).request
       THEN dialog' = None /\ told' = [told EXCEPT ![dialog] = "expired"]
       ELSE UNCHANGED <<dialog, told>>
  /\ UNCHANGED <<backVars, replies, agreed>>

(* Faulty variant: the dialog stays, and may be answered again.            *)
ClickLeavesOpen(word) ==
  /\ dialog # None
  /\ replies' = replies \cup {Reply(dialog, word)}
  /\ agreed' = IF word = "accepted" THEN agreed \cup {dialog} ELSE agreed
  /\ UNCHANGED <<backVars, window, dialog, told>>

Click(word) ==
  /\ dialog # None
  /\ dialog' = None
  /\ replies' = replies \cup {Reply(dialog, word)}
  /\ agreed' = IF word = "accepted" THEN agreed \cup {dialog} ELSE agreed
  /\ UNCHANGED <<backVars, window, told>>

(* respond_transfer_request: an answer nobody waits for is an error.       *)
Respond(reply) ==
  LET r == reply.request IN
    /\ replies' = replies \ {reply}
    /\ pending' = pending \ {r}
    /\ IF r \in pending /\ Listening(r)
         THEN /\ answer' = [answer EXCEPT ![r] = reply.word]
              /\ told' = [told EXCEPT ![r] = reply.word]
         ELSE /\ told' = [told EXCEPT ![r] = "expired"]
              /\ UNCHANGED answer
    /\ UNCHANGED <<handler, channel, armed, window, dialog, agreed>>

ConsentInit ==
  /\ handler = [r \in Request |-> "idle"]
  /\ channel = <<>> /\ pending = {} /\ armed = {}
  /\ answer = [r \in Request |-> None]
  /\ window = <<>> /\ dialog = None /\ replies = {}
  /\ told = [r \in Request |-> None] /\ agreed = {}

ConsentNext ==
  \/ \E r \in Request : \/ Ask(r) \/ Submit(r) \/ Answered(r)
                        \/ TimeOut(r) \/ DropReceiver(r) \/ Disconnect(r) \/ Expire(r)
  \/ Bridge \/ ShowConsent \/ ExpireConsent
  \/ Click("accepted") \/ Click("declined")
  \/ \E reply \in replies : Respond(reply)

ConsentSpec == ConsentInit /\ [][ConsentNext]_consentVars

(***************************************************************************)
(* Properties                                                              *)
(***************************************************************************)
ConsentTypeOK ==
  /\ handler \in [Request -> Stage]
  /\ channel \in Seq(Request) /\ Len(channel) <= MaxChannel
  /\ pending \subseteq Request /\ armed \subseteq Request
  /\ answer \in [Request -> {None, "accepted", "declined"}]
  /\ window \in Seq([kind : {"requested", "expired"}, request : Request])
  /\ dialog \in Request \cup {None}
  /\ replies \subseteq [request : Request, word : {"accepted", "declined"}]
  /\ told \in [Request -> {None, "accepted", "declined", "expired"}]
  /\ agreed \subseteq Request

(* A user who is told that the transfer was accepted has reached the       *)
(* handler, though its sender may be gone ("send fails when the sender     *)
(* side already timed out and stopped waiting", respond_transfer_request). *)
(* It fails: the send succeeds while the handler has timed out and not yet *)
(* dropped the receiver.                                                   *)
ToldIsHeard ==
  \A r \in Request :
    told[r] = "accepted" => \/ Listening(r) /\ answer[r] = "accepted"
                            \/ handler[r] \in {"accepted", "gone"}

(* A dialog, and an entry behind it, that nobody waits for is on its way   *)
(* out: the expiry task or its event is still to come (lib.rs).            *)
StaleIsExpiring ==
  \A r \in Request : Over(r) =>
    /\ r \in pending => r \in armed
    /\ dialog = r => \/ r \in armed /\ r \in pending
                     \/ \E i \in DOMAIN window : window[i] = WindowEvent("expired", r)
=============================================================================
