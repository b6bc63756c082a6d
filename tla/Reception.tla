----------------------------- MODULE Reception -----------------------------
(***************************************************************************)
(* Receiving from the first request to the history: Consent lets a         *)
(* transfer in, its handler creates the session (create_session after      *)
(* evaluate_consent in server/routes.rs), and ReceiveHistory follows it    *)
(* into the history.  Both live in one process and are killed together.    *)
(***************************************************************************)
EXTENDS Consent, ReceiveHistory

(* Of some requests the transfer is not followed any further.              *)
ASSUME SessionAssumption == Session \subseteq Request

receptionVars == <<consentVars, historyVars>>

Accept(r) ==
  /\ handler[r] = "accepted" /\ CreateSession(r)
  /\ UNCHANGED consentVars

(* Everything but the history file and what the user remembers is gone.    *)
KillApp ==
  /\ \E r \in Request : handler[r] \notin {"idle", "gone"}
  /\ Kill
  /\ handler' = [r \in Request |-> IF handler[r] = "idle" THEN "idle" ELSE "gone"]
  /\ channel' = <<>> /\ pending' = {} /\ armed' = {}
  /\ answer' = [r \in Request |-> None]
  /\ window' = <<>> /\ dialog' = None /\ replies' = {}
  /\ UNCHANGED <<told, agreed>>

ReceptionInit == ConsentInit /\ HistoryInit

ReceptionNext ==
  \/ ConsentNext /\ UNCHANGED historyVars
  \/ \E r \in Session : Accept(r)
  \/ HistoryNext /\ UNCHANGED consentVars
  \/ KillApp

ReceptionSpec == ReceptionInit /\ [][ReceptionNext]_receptionVars

(***************************************************************************)
(* Properties                                                              *)
(***************************************************************************)
ReceptionTypeOK == ConsentTypeOK /\ HistoryTypeOK

(* A transfer starts only after the user has accepted that very request in *)
(* the dialog, and only such a transfer gets into the history, whatever    *)
(* answers cross and whenever the process is killed (evaluate_consent,     *)
(* showConsentModal, the listener of lib.rs).                              *)
ReceivedIsAgreed ==
  /\ \A r \in Request : handler[r] = "accepted" => r \in agreed
  /\ \A s \in Session : status[s] # "none" \/ s \in ToSet(file) => s \in agreed

(* Whose transfer goes on was told so: not that it was declined or has     *)
(* expired, and not nothing, although an answer may cross the clock, the   *)
(* expiry and the next dialog (evaluate_consent, respond_transfer_request, *)
(* showConsentModal).  The converse fails (ToldIsHeard).                   *)
StartedIsTold ==
  /\ \A r \in Request :
       handler[r] = "accepted" \/ (Waiting(r) /\ answer[r] = "accepted") => told[r] = "accepted"
  /\ \A s \in Session : status[s] # "none" \/ s \in ToSet(file) => told[s] = "accepted"
=============================================================================
