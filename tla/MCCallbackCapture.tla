-------------------------- MODULE MCCallbackCapture -------------------------
(***************************************************************************)
(* Instance of CallbackCapture for TLC: a production command, one that is  *)
(* sent as zeros, one that is refused, and set commands, one of which      *)
(* carries the payload of the production command.                          *)
(***************************************************************************)
EXTENDS CallbackCapture

MCCommands ==
  {[kind |-> "production", index |-> 0], [kind |-> "production", index |-> 4],
   [kind |-> "production", index |-> 5], [kind |-> "set", index |-> 0],
   [kind |-> "set", index |-> 7]}
=============================================================================
