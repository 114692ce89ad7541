--------------------------- MODULE CallbackCapture --------------------------
(***************************************************************************)
(* The orchestrators of libs/capture_orchestrator, which put a projector   *)
(* command and a camera together: SendProductionCommandOnly, which only    *)
(* sends, and the captures of HardTriggerOrchestrator, which stop the      *)
(* camera, give it a lambda over their own locals (mu, cv, acc), start it, *)
(* send the command, wait for frames or a deadline, and stop the camera    *)
(* again before the locals go.                                             *)
(*                                                                         *)
(* The camera adapter is a value of CameraDriver, the command an exchange  *)
(* of SerialLine.  One thread captures and sends; the vendor's thread      *)
(* calls OnGalaxyCaptured, which copies the callback under cb_mu_ and      *)
(* calls the copy without it.  The vendor's SDK (external) lets a callback *)
(* in progress end before UnregisterCaptureCallback returns, unless that   *)
(* call fails.                                                             *)
(***************************************************************************)
EXTENDS SerialLine, CameraDriver

CONSTANTS
  FramesPerFlash,  \* hardware triggers of one production command
  MaxVendorFaults  \* bound: failing calls into the vendor's SDK

ASSUME CallbackCaptureAssumption ==
  {FramesPerFlash, MaxVendorFaults} \subseteq Nat

VARIABLES
  cam,           \* the managed adapter
  fire,          \* where RunCallbackCapture is
  lambda,        \* the one the adapter holds is of this capture, or of one that returned
  flashes,       \* hardware triggers the projector is still to give
  calling,       \* the lambda OnGalaxyCaptured is about to call: none, of this capture, or old
  stray,         \* history: a lambda was called after its capture had returned
  vendor_faults  \* history: failed calls into the vendor's SDK

captureVars == <<cam, fire, lambda, flashes, calling, stray, vendor_faults>>
vars == <<lineVars, captureVars>>

Firing == fire # "idle"
Outlived(call) == IF call = "own" THEN "old" ELSE call

OpenedCamera == [New("galaxy") EXCEPT !.open = TRUE, !.source = "software"]

Init ==
  /\ LineInit
  /\ cam \in {OpenedCamera, New("galaxy")}
  /\ fire = "idle"
  /\ lambda = "none"
  /\ flashes = 0
  /\ calling = "none"
  /\ stray = FALSE
  /\ vendor_faults = 0

Faulting(fault) ==
  /\ fault # "none" => vendor_faults < MaxVendorFaults
  /\ vendor_faults' = vendor_faults + (IF fault = "none" THEN 0 ELSE 1)

\* The projector flashes for a production command it obeys (external).
Triggers(cmd) ==
  flashes' = IF projected' # projected /\ cmd.kind = "production" THEN flashes + FramesPerFlash
             ELSE flashes

-----------------------------------------------------------------------------
\* Sending only: SendProductionCommandOnly of both orchestrators, and the hub's other commands.
SendOnly(cmd) ==
  /\ ~Firing
  /\ \/ SendRefused /\ UNCHANGED flashes
     \/ CommandWritten(cmd) /\ Triggers(cmd)
  /\ UNCHANGED <<cam, fire, lambda, calling, stray, vendor_faults>>

-----------------------------------------------------------------------------
\* RunCallbackCapture.

\* StopAsyncGrab returns: the callback in progress is over, or unregistering failed.
Stops(fault) == calling = "none" \/ fault = "stop"
Stopped(fault) == StopAsyncGrab(cam, fault = "stop")

\* RunCallbackCapture returns, and its locals go.
Return ==
  /\ fire' = "idle"
  /\ lambda' = Outlived(lambda)
  /\ calling' = Outlived(calling)

\* The steps up to StartAsyncGrab.  A camera that refuses ends it; one that cannot start keeps
\* the lambda of the capture that is over, though nothing calls it.
Fire(fault) ==
  LET trigger == SetTriggerMode(Stopped(fault), "hardware", fault = "trigger")
      listening == SetFrameCallback(trigger.a, "collect", fault = "callback")
      started == StartAsyncGrab(listening, fault)
      runs == trigger.ok /\ started.ok
  IN /\ ~Firing
     /\ exchange = Idle
     /\ open
     /\ Stops(fault)
     /\ Faulting(fault)
     /\ cam' = IF trigger.ok THEN started.a ELSE trigger.a
     /\ lambda' = IF runs THEN "own" ELSE "old"
     /\ fire' = IF runs THEN "send" ELSE "idle"
     /\ UNCHANGED <<lineVars, flashes, calling, stray>>

\* Mutant: a command that fails ends the capture at once.
SendFailedAtOnce(fault) ==
  /\ fault = "none"
  /\ Return
  /\ UNCHANGED <<cam, vendor_faults>>

\* The command failed: the camera is stopped and the capture over.
SendFailed(fault) ==
  /\ Stops(fault)
  /\ Faulting(fault)
  /\ cam' = Stopped(fault)
  /\ Return

\* FireProductionAndCollectViaCallback sends a command and reads the answers;
\* FireProjectorAndCollectViaCallback writes the bytes and reads nothing.
Sends(cmd, fault) ==
  /\ fire = "send"
  /\ cmd.kind = "production"
  /\ \/ /\ SendRefused
        /\ SendFailed(fault)
        /\ UNCHANGED flashes
     \/ /\ fault = "none"
        /\ \/ CommandWritten(cmd) /\ fire' = "exchange"
           \/ BytesWritten(cmd) /\ fire' = "wait"
        /\ Triggers(cmd)
        /\ UNCHANGED <<cam, vendor_faults, lambda, calling>>
  /\ UNCHANGED stray

ExchangeOver(fault) ==
  /\ fire = "exchange"
  /\ exchange = Idle
  /\ \/ /\ result.ok
        /\ fault = "none"
        /\ fire' = "wait"
        /\ UNCHANGED <<cam, vendor_faults, lambda, calling>>
     \/ /\ ~result.ok
        /\ SendFailed(fault)
  /\ UNCHANGED <<lineVars, flashes, stray>>

\* WaitForCallbackFrames ends with max_frames frames or at its deadline, so at any time; the frames
\* are copied out under mu, and if there is none the capture returns an error all the same.
WaitEnds ==
  /\ fire = "wait"
  /\ fire' = "stop"
  /\ UNCHANGED <<lineVars, cam, lambda, flashes, calling, stray, vendor_faults>>

\* The camera is stopped; mu was released before.
CaptureOver(fault) ==
  /\ fire = "stop"
  /\ Stops(fault)
  /\ Faulting(fault)
  /\ cam' = Stopped(fault)
  /\ Return
  /\ UNCHANGED <<lineVars, flashes, stray>>

Faults == {"none", "stop"}
CaptureStep ==
  \/ \E cmd \in Commands, fault \in Faults : Sends(cmd, fault)
  \/ \E fault \in Faults : ExchangeOver(fault) \/ CaptureOver(fault)
  \/ WaitEnds

-----------------------------------------------------------------------------
\* The vendor's thread.

\* A trigger reaches the camera: lost unless it grabs, otherwise OnGalaxyCaptured copies the
\* frame callback, if there is one.  The next callback waits for this one.
Flash ==
  /\ flashes > 0
  /\ calling = "none"
  /\ flashes' = flashes - 1
  /\ calling' = IF Shoots(cam) /\ cam.frame_cb # NoCallback THEN lambda ELSE "none"
  /\ UNCHANGED <<lineVars, cam, fire, lambda, stray, vendor_faults>>

\* Mutant: StopAsyncGrab is called where the frames are copied, with mu held.
LambdaLocksUnlessStopping == fire # "stop"

\* mu is held for the copy of the frames and for the wait's test only.
LambdaLocks == TRUE

\* The lambda takes mu and appends to acc; if its capture has returned, neither is there.
LambdaRuns ==
  /\ calling # "none"
  /\ LambdaLocks
  /\ stray' = (stray \/ calling = "old")
  /\ calling' = "none"
  /\ UNCHANGED <<lineVars, cam, fire, lambda, flashes, vendor_faults>>

-----------------------------------------------------------------------------
Next ==
  \/ ~Firing /\ Port /\ UNCHANGED captureVars
  \/ Line /\ UNCHANGED captureVars
  \/ \E cmd \in Commands : SendOnly(cmd)
  \/ \E fault \in {"none", "stop", "trigger", "callback", "register", "grab"} : Fire(fault)
  \/ CaptureStep
  \/ Flash
  \/ LambdaRuns

Spec == Init /\ [][Next]_vars

\* Every read and every wait has a deadline, and the vendor's thread comes back from a callback.
FairSpec ==
  /\ Spec
  /\ WF_vars(Exchange /\ UNCHANGED captureVars)
  /\ WF_vars(CaptureStep)
  /\ WF_vars(LambdaRuns)

-----------------------------------------------------------------------------
\* Properties.

TypeOK ==
  /\ LineTypeOK
  /\ cam \in Adapter
  /\ fire \in {"idle", "send", "exchange", "wait", "stop"}
  /\ {lambda, calling} \subseteq {"none", "own", "old"}
  /\ {flashes, vendor_faults} \subseteq Nat
  /\ stray \in BOOLEAN

\* A frame never reaches the lambda of a capture that has returned, whose mutex and vector are
\* gone, whatever the line and the projector do, as long as no call into the vendor's SDK failed
\* and unregistering waits for a callback in progress (RunCallbackCapture, StopAsyncGrab).
NoCallAfterReturn == stray => vendor_faults > 0

\* A capture returns although it waits in StopAsyncGrab for a callback that needs its mutex.
CaptureReturns == Firing ~> ~Firing
=============================================================================
