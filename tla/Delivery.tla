------------------------------ MODULE Delivery ------------------------------
(***************************************************************************)
(* What a transfer promises its two users, without the protocol: the files *)
(* saved on the receiver only grow in number, a transfer concludes once,   *)
(* and one that concludes as Completed has every file saved.  A transfer   *)
(* that did not complete can be tried again.                               *)
(***************************************************************************)
CONSTANT Wanted   \* the entries of the transfer

VARIABLES
  saved,          \* entries of which an intact copy is in the download folder
  result          \* how the transfer concluded for its sender

DeliveryInit == saved = {} /\ result = "none"

(* A file is saved, perhaps after the sender has given up on it.           *)
Save(f) == /\ saved' = saved \cup {f}
           /\ UNCHANGED result

Conclude(r) == /\ result = "none"
               /\ r = "Completed" => Wanted \subseteq saved
               /\ result' = r
               /\ UNCHANGED saved

TryAgain == /\ result \in {"Failed", "Cancelled"}
            /\ result' = "none"
            /\ UNCHANGED saved

DeliveryNext == \/ \E f \in Wanted : Save(f)
                \/ \E r \in {"Completed", "Cancelled", "Failed"} : Conclude(r)
                \/ TryAgain

DeliverySpec == DeliveryInit /\ [][DeliveryNext]_<<saved, result>>
=============================================================================
