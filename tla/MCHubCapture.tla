---------------------------- MODULE MCHubCapture ----------------------------
(***************************************************************************)
(* Instances of HubCapture for TLC.                                        *)
(***************************************************************************)
EXTENDS HubCapture, TLC

\* Clients are interchangeable: nothing compares them but with each other.
ClientSymmetry == Permutations(Clients)
=============================================================================
