----------------------------- MODULE HubStatus ------------------------------
(***************************************************************************)
(* What a hub promises to those who connect to it: it is starting, then it *)
(* serves or it is gone.  A hub that serves is either ready, with a        *)
(* session, or closed, until a Connect reopens it; or its startup failed,  *)
(* which it says for the rest of its life.                                 *)
(***************************************************************************)

VARIABLE status

Statuses == {"starting", "ready", "closed", "failed", "gone"}

Init == status = "starting"

Decide == status = "starting" /\ status' \in {"ready", "failed", "gone"}
Release == status = "ready" /\ status' = "closed"
Resume == status = "closed" /\ status' = "ready"

Next == Decide \/ Release \/ Resume

Spec == Init /\ [][Next]_status /\ WF_status(Decide)
=============================================================================
