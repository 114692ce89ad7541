---------------------------- MODULE CameraDriver ----------------------------
(***************************************************************************)
(* The camera adapters of libs/camera_driver as values, and each call of   *)
(* ICameraAdapter as an operator from an adapter to [ok, a]: what the call *)
(* returns and the adapter it leaves behind.  Three adapters exist:        *)
(* "galaxy" (the vendor's SDK), "stub" (that SDK not linked, opens         *)
(* nothing) and "null" (no hardware, delivers nothing).                    *)
(*                                                                         *)
(* `fault` says that a call into the vendor's SDK throws.  What the SDK    *)
(* knows is kept beside what the adapter believes: `attached` (the bridge  *)
(* is registered) beside `registered` (capture_registered_), `source` (the *)
(* device's trigger source) beside `mode` (trigger_mode_).                 *)
(***************************************************************************)
EXTENDS Integers

NoCallback == "none"
Callbacks == {NoCallback, "hub", "collect"}  \* none, the hub's, or that of a capture
Features == {"exposure", "gain", "gamma"}
Factory == 0  \* the value a device starts with

New(backend) ==
  [backend |-> backend, open |-> FALSE, mode |-> "software", source |-> "off",
   result_cb |-> NoCallback, frame_cb |-> NoCallback, registered |-> FALSE, attached |-> FALSE,
   grabbing |-> FALSE, settings |-> [f \in Features |-> Factory]]

Adapter ==
  [backend : {"galaxy", "stub", "null"}, open : BOOLEAN, mode : {"software", "hardware"},
   source : {"off", "software", "hardware"}, result_cb : Callbacks, frame_cb : Callbacks,
   registered : BOOLEAN, attached : BOOLEAN, grabbing : BOOLEAN, settings : [Features -> Nat]]

Does(ok, a) == [ok |-> ok, a |-> a]

\* The stub never opens: every call is refused and every setter a no-op.
Stub(a) == Does(FALSE, a)

\* The null adapter opens always, then accepts everything and keeps only its callbacks.
NullOpen(a) == Does(TRUE, [a EXCEPT !.open = TRUE])
Null(a) == Does(a.open, a)

Simple(a) == IF a.backend = "stub" THEN Stub(a) ELSE Null(a)

-----------------------------------------------------------------------------
\* Callbacks and grabbing.

\* StopAsyncGrab: forgets both callbacks; a failing UnregisterCaptureCallback is only logged.
StopAsyncGrab(a, fault) ==
  IF a.backend # "galaxy" THEN a
  ELSE [a EXCEPT !.attached = a.attached /\ fault, !.registered = FALSE, !.result_cb = NoCallback,
                 !.frame_cb = NoCallback, !.grabbing = FALSE]

\* Close: the stream goes, and with it what is registered on it; trigger_mode_ stays.
Close(a) ==
  [StopAsyncGrab(a, FALSE) EXCEPT !.open = FALSE, !.source = "off"]

\* Open: closes first; the trigger mode is applied to the device.
Open(a, fault) ==
  CASE a.backend = "null" -> NullOpen(a)
    [] a.backend = "stub" -> Stub(a)
    [] OTHER -> IF fault THEN Does(FALSE, Close(a))
                ELSE Does(TRUE, [Close(a) EXCEPT !.open = TRUE, !.source = a.mode])

\* SetCaptureResultCallback and SetFrameCallback, on the adapter that already holds the new
\* callbacks: the bridge is registered when the first callback comes and unregistered when the
\* last one goes.  Registering stops the grab first; a failure is logged and swallowed.
Registration(a, fault) ==
  LET want == a.result_cb # NoCallback \/ a.frame_cb # NoCallback
  IN IF a.backend # "galaxy" \/ ~a.open THEN a
     ELSE IF want /\ ~a.registered
     THEN [a EXCEPT !.grabbing = FALSE, !.registered = ~fault, !.attached = @ \/ ~fault]
     ELSE IF ~want /\ a.registered /\ ~fault
     THEN [a EXCEPT !.grabbing = FALSE, !.registered = FALSE, !.attached = FALSE]
     ELSE a

SetResultCallback(a, cb, fault) ==
  IF a.backend = "stub" THEN a ELSE Registration([a EXCEPT !.result_cb = cb], fault)

SetFrameCallback(a, cb, fault) ==
  IF a.backend = "stub" THEN a ELSE Registration([a EXCEPT !.frame_cb = cb], fault)

\* StartStreamGrab: nothing to do if it runs; the interface's default does nothing at all.
StartStreamGrab(a, fault) ==
  IF a.backend # "galaxy" THEN Does(TRUE, a)
  ELSE IF ~a.open THEN Does(FALSE, a)
  ELSE Does(a.grabbing \/ ~fault, [a EXCEPT !.grabbing = @ \/ ~fault])

\* StartAsyncGrab: registers anew whatever was registered, then starts the stream; a failure of
\* either leaves nothing registered.  `fault` names the step that throws.
StartAsyncGrab(a, fault) ==
  LET off == [a EXCEPT !.grabbing = FALSE, !.registered = FALSE, !.attached = FALSE]
  IN IF ~a.open \/ (a.result_cb = NoCallback /\ a.frame_cb = NoCallback) THEN Does(FALSE, a)
     ELSE IF a.backend # "galaxy" THEN Simple(a)
     ELSE IF fault \in {"register", "grab"} THEN Does(FALSE, off)
     ELSE Does(TRUE, [off EXCEPT !.registered = TRUE, !.attached = TRUE, !.grabbing = TRUE])

-----------------------------------------------------------------------------
\* Trigger and settings.

\* SetTriggerMode is kept for the next Open even if the device refuses it.
SetTriggerMode(a, mode, fault) ==
  IF a.backend # "galaxy" THEN Simple(a)
  ELSE IF a.open /\ ~fault THEN Does(TRUE, [a EXCEPT !.mode = mode, !.source = mode])
  ELSE Does(~a.open, [a EXCEPT !.mode = mode])

\* SetExposureUs, SetGainDb and SetGamma.
SetFeature(a, f, value, fault) ==
  IF a.backend # "galaxy" THEN Simple(a)
  ELSE IF ~a.open \/ fault THEN Does(FALSE, a)
  ELSE Does(TRUE, [a EXCEPT !.settings[f] = value])

\* GetExposureUs, GetGainDb and GetGamma.
CanGet(a, fault) == IF a.backend = "galaxy" THEN a.open /\ ~fault ELSE Simple(a).ok

\* A hardware trigger ends in a call of OnGalaxyCaptured, and that of the result callback.
Shoots(a) ==
  a.backend = "galaxy" /\ a.open /\ a.attached /\ a.grabbing /\ a.source = "hardware"
Delivers(a, cb) == Shoots(a) /\ a.result_cb = cb
=============================================================================
