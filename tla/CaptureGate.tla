---------------------------- MODULE CaptureGate ----------------------------
(***************************************************************************)
(* What the hub promises about captures, without cameras, frames, shared   *)
(* memory or threads: while the hub is open at most one capture is being   *)
(* taken; it ends by being published under its id or by being given up;    *)
(* results appear in no other way, may be evicted only to make room for a  *)
(* new one, and do not survive the closing of the session.                 *)
(***************************************************************************)
EXTENDS Naturals

\* No capture is being taken: capture ids are never 0.
None == 0

VARIABLES
  open,      \* captures are admitted
  current,   \* the id of the capture being taken, or None
  results    \* ids GetDepth can answer for

gateVars == <<open, current, results>>

Init ==
  /\ open = TRUE
  /\ current = None
  /\ results = {}

Open ==
  /\ ~open
  /\ open' = TRUE
  /\ UNCHANGED <<current, results>>

\* Closing gives up the capture being taken and forgets every result.
Close ==
  /\ open
  /\ open' = FALSE
  /\ current' = None
  /\ results' = {}

Start ==
  /\ open
  /\ current = None
  /\ current' \in Nat
  /\ current' # None
  /\ UNCHANGED <<open, results>>

Publish ==
  /\ open
  /\ current # None
  /\ current' = None
  /\ results' \subseteq results \union {current}
  /\ \E evicted \in results \union {current} : results \ {evicted} \subseteq results'
  /\ UNCHANGED open

GiveUp ==
  /\ current # None
  /\ current' = None
  /\ UNCHANGED <<open, results>>

Next == Open \/ Close \/ Start \/ Publish \/ GiveUp

Spec == Init /\ [][Next]_gateVars
=============================================================================
