----------------------- MODULE CallbackCaptureProofs ------------------------
(***************************************************************************)
(* Proofs about CallbackCapture and the serial line below it, for every    *)
(* value of their constants.                                               *)
(***************************************************************************)
EXTENDS CallbackCapture, CameraDriverProofs, SerialLineProofs

-----------------------------------------------------------------------------
\* No frame reaches a capture that has returned.

\* As long as no call into the vendor's SDK failed, the only lambda that is called is the one of
\* the capture in progress; between captures the adapter holds none, or has no stream.
OnlyOwnLambda ==
  /\ ~stray
  /\ calling # "old"
  /\ calling = "own" => Firing
  /\ Firing => lambda = "own"
  /\ ~Firing => cam.frame_cb = NoCallback \/ ~cam.open

LambdaInv ==
  /\ cam \in Adapter
  /\ cam.backend = "galaxy"
  /\ vendor_faults \in Nat
  /\ {calling, lambda} \subseteq {"none", "own", "old"}
  /\ vendor_faults = 0 => OnlyOwnLambda

LEMMA LambdaInit == Init => LambdaInv
<1> SUFFICES ASSUME Init PROVE LambdaInv
    OBVIOUS
<1>1. /\ New("galaxy") \in Adapter
      /\ New("galaxy").backend = "galaxy"
      /\ New("galaxy").frame_cb = NoCallback
  BY NewCamera
<1>2. /\ OpenedCamera \in Adapter
      /\ OpenedCamera.backend = "galaxy"
      /\ OpenedCamera.frame_cb = NoCallback
  BY <1>1 DEF OpenedCamera, Adapter
<1>3. QED
  BY <1>1, <1>2 DEF Init, LambdaInv, OnlyOwnLambda, Firing

\* A fault that is counted.
LEMMA FaultCounted ==
  ASSUME vendor_faults \in Nat, NEW fault, Faulting(fault)
  PROVE  /\ vendor_faults' \in Nat
         /\ vendor_faults' = 0 => vendor_faults = 0 /\ fault = "none"
BY DEF Faulting

\* Sends(..) with a refusal, ExchangeOver and CaptureOver all end the capture like this.
LEMMA StopAndReturn ==
  ASSUME LambdaInv, NEW fault, Stops(fault), Faulting(fault), cam' = Stopped(fault), Return,
         UNCHANGED stray
  PROVE  LambdaInv'
<1>1. cam' \in Adapter /\ cam'.backend = "galaxy" /\ cam'.frame_cb = NoCallback
  BY StopsCamera DEF LambdaInv, Stopped
<1>2. /\ vendor_faults' \in Nat
      /\ vendor_faults' = 0 => vendor_faults = 0 /\ fault = "none"
  BY FaultCounted DEF LambdaInv
<1>3. {calling', lambda'} \subseteq {"none", "own", "old"}
  BY DEF LambdaInv, Return, Outlived
<1>4. ASSUME vendor_faults' = 0 PROVE OnlyOwnLambda'
  BY <1>1, <1>2, <1>4 DEF LambdaInv, OnlyOwnLambda, Return, Outlived, Stops, Firing
<1>5. QED
  BY <1>1, <1>2, <1>3, <1>4 DEF LambdaInv

\* Fire leaves a camera that runs, or one that has no stream, unless a call failed.
LEMMA FireCamera ==
  ASSUME LambdaInv, NEW fault \in {"none", "stop", "trigger", "callback", "register", "grab"},
         Fire(fault)
  PROVE  /\ cam' \in Adapter /\ cam'.backend = "galaxy"
         /\ fire' = "send" \/ (fire' = "idle" /\ (fault = "none" => ~cam'.open))
         /\ lambda' = IF fire' = "send" THEN "own" ELSE "old"
<1> DEFINE trigger == SetTriggerMode(Stopped(fault), "hardware", fault = "trigger")
           listening == SetFrameCallback(trigger.a, "collect", fault = "callback")
           started == StartAsyncGrab(listening, fault)
<1>1. Stopped(fault) \in Adapter /\ Stopped(fault).backend = "galaxy"
  BY StopsCamera DEF LambdaInv, Stopped
<1>2. /\ trigger.a \in Adapter /\ trigger.a.backend = "galaxy"
      /\ fault = "none" => trigger.ok
      /\ trigger.ok \in BOOLEAN
  BY <1>1, SetsTrigger
<1> HIDE DEF trigger
<1>3. /\ listening \in Adapter /\ listening.backend = "galaxy"
      /\ listening.frame_cb = "collect" /\ listening.frame_cb # NoCallback
  BY <1>2, SetsFrameCallback DEF Callbacks, NoCallback
<1> HIDE DEF listening
<1>4. /\ started.a \in Adapter /\ started.a.backend = "galaxy"
      /\ fault = "none" /\ ~started.ok => ~started.a.open
      /\ started.ok \in BOOLEAN
  BY <1>3, StartsAsyncGrab
<1> HIDE DEF started
<1>5. /\ cam' = IF trigger.ok THEN started.a ELSE trigger.a
      /\ lambda' = IF trigger.ok /\ started.ok THEN "own" ELSE "old"
      /\ fire' = IF trigger.ok /\ started.ok THEN "send" ELSE "idle"
  BY DEF Fire, trigger, listening, started
<1>6. QED
  BY <1>2, <1>4, <1>5

LEMMA LambdaNext == LambdaInv /\ [Next]_vars => LambdaInv'
<1> SUFFICES ASSUME LambdaInv, [Next]_vars PROVE LambdaInv'
    OBVIOUS
<1>1. CASE UNCHANGED captureVars
  BY <1>1 DEF captureVars, LambdaInv, OnlyOwnLambda, Firing
<1>2. ASSUME NEW cmd \in Commands, SendOnly(cmd) PROVE LambdaInv'
  BY <1>2 DEF SendOnly, LambdaInv, OnlyOwnLambda, Firing
<1>3. ASSUME NEW fault \in {"none", "stop", "trigger", "callback", "register", "grab"}, Fire(fault)
      PROVE  LambdaInv'
  <2>1. /\ vendor_faults' \in Nat
        /\ vendor_faults' = 0 => vendor_faults = 0 /\ fault = "none"
    <3>1. Faulting(fault)
      BY <1>3 DEF Fire
    <3>2. QED
      BY <3>1, FaultCounted DEF LambdaInv
  <2>2. /\ cam' \in Adapter /\ cam'.backend = "galaxy"
        /\ fire' = "send" \/ (fire' = "idle" /\ (fault = "none" => ~cam'.open))
        /\ lambda' = IF fire' = "send" THEN "own" ELSE "old"
    BY <1>3, FireCamera
  <2>3. UNCHANGED <<calling, stray>> /\ ~Firing
    BY <1>3 DEF Fire
  <2>4. QED
    BY <2>1, <2>2, <2>3 DEF LambdaInv, OnlyOwnLambda, Firing
<1>4. ASSUME NEW cmd \in Commands, NEW fault \in Faults, Sends(cmd, fault) PROVE LambdaInv'
  <2>1. CASE SendFailed(fault)
    BY <1>4, <2>1, StopAndReturn DEF Sends, SendFailed
  <2>2. CASE fire' \in {"exchange", "wait"} /\ UNCHANGED <<cam, vendor_faults, lambda, calling>>
    BY <1>4, <2>2 DEF Sends, LambdaInv, OnlyOwnLambda, Firing
  <2>3. QED
    BY <1>4, <2>1, <2>2 DEF Sends
<1>5. ASSUME NEW fault \in Faults, ExchangeOver(fault) PROVE LambdaInv'
  <2>1. CASE SendFailed(fault)
    BY <1>5, <2>1, StopAndReturn DEF ExchangeOver, SendFailed
  <2>2. CASE fire' = "wait" /\ UNCHANGED <<cam, vendor_faults, lambda, calling>>
    BY <1>5, <2>2 DEF ExchangeOver, LambdaInv, OnlyOwnLambda, Firing
  <2>3. QED
    BY <1>5, <2>1, <2>2 DEF ExchangeOver
<1>6. ASSUME NEW fault \in Faults, CaptureOver(fault) PROVE LambdaInv'
  BY <1>6, StopAndReturn DEF CaptureOver
<1>7. CASE WaitEnds
  BY <1>7 DEF WaitEnds, LambdaInv, OnlyOwnLambda, Firing
<1>8. CASE Flash
  BY <1>8 DEF Flash, Shoots, LambdaInv, OnlyOwnLambda, Firing
<1>9. CASE LambdaRuns
  BY <1>9 DEF LambdaRuns, LambdaInv, OnlyOwnLambda, Firing
<1>10. QED
  BY <1>1, <1>2, <1>3, <1>4, <1>5, <1>6, <1>7, <1>8, <1>9
     DEF Next, CaptureStep, vars

\* No frame reaches the lambda of a capture that has returned (FireProjectorAndCollectViaCallback),
\* whose stack frame it writes to, unless a vendor call failed; unregistering waits for callbacks.
THEOREM NoFrameAfterReturn == Spec => []NoCallAfterReturn
<1>1. LambdaInv => NoCallAfterReturn
  BY DEF LambdaInv, OnlyOwnLambda, NoCallAfterReturn
<1>2. QED
  BY <1>1, LambdaInit, LambdaNext, PTL DEF Spec

-----------------------------------------------------------------------------
\* The serial line below the captures.

LEMMA LineFollows == Next => [LineStep]_lineVars
<1> SUFFICES ASSUME Next PROVE [LineStep]_lineVars
    OBVIOUS
<1>1. CASE Port \/ Line
  BY <1>1 DEF LineStep
<1>2. ASSUME NEW cmd \in Commands, SendOnly(cmd) PROVE [LineStep]_lineVars
  BY <1>2 DEF SendOnly, LineStep
<1>3. ASSUME NEW cmd \in Commands, NEW fault \in Faults, Sends(cmd, fault)
      PROVE  [LineStep]_lineVars
  BY <1>3 DEF Sends, LineStep
<1>4. CASE UNCHANGED lineVars
  BY <1>4
<1>5. QED
  BY <1>1, <1>2, <1>3, <1>4
     DEF Next, CaptureStep, Fire, ExchangeOver, CaptureOver, WaitEnds, Flash, LambdaRuns

\* The invariant of the line holds in every behaviour of the captures and of what is only sent.
LEMMA LineHolds == Spec => []LineInv
<1>1. Init => LineInv
  BY LineInitial DEF Init
<1>2. LineInv /\ [Next]_vars => LineInv'
  BY LineFollows, LineInductive DEF vars, lineVars
<1>3. QED
  BY <1>1, <1>2, PTL DEF Spec

\* A command that found the line quiet, and was read without a fault, is reported as done only
\* for its own answers, however sending, writing, time-outs and mismatches followed each other.
THEOREM SuccessIsOwn == Spec => []CleanSuccessIsOwn
<1>1. LineInv => CleanSuccessIsOwn
  BY DEF LineInv
<1>2. QED
  BY <1>1, LineHolds, PTL

\* No exchange with a projector that obeys makes up for an answer left over from before.
THEOREM BacklogStays == Spec => BacklogNeverShrinks
<1>1. LineInv /\ [Next]_vars =>
        [exchange # Idle /\ exchange' = Idle /\ faults = 0 /\ exchange.n \in projected =>
           Backlog' >= exchange.before]_lineVars
  BY LineFollows, BacklogKept DEF vars, lineVars
<1>2. QED
  BY <1>1, LineHolds, PTL DEF Spec, BacklogNeverShrinks

-----------------------------------------------------------------------------
\* Type correctness of the whole.

CaptureTypeOK ==
  /\ fire \in {"idle", "send", "exchange", "wait", "stop"}
  /\ {lambda, calling} \subseteq {"none", "own", "old"}
  /\ flashes \in Nat
  /\ stray \in BOOLEAN

LEMMA CaptureTyped == CaptureTypeOK /\ [Next]_vars => CaptureTypeOK'
<1> SUFFICES ASSUME CaptureTypeOK, [Next]_vars PROVE CaptureTypeOK'
    OBVIOUS
<1> USE DEF CaptureTypeOK
<1>1. {Outlived(lambda), Outlived(calling)} \subseteq {"none", "own", "old"}
  BY DEF Outlived
<1>2. CASE UNCHANGED captureVars
  BY <1>2 DEF captureVars
<1>3. ASSUME NEW cmd \in Commands, Triggers(cmd) PROVE flashes' \in Nat
  BY <1>3, CallbackCaptureAssumption DEF Triggers
<1>4. ASSUME NEW cmd \in Commands, SendOnly(cmd) PROVE CaptureTypeOK'
  BY <1>3, <1>4 DEF SendOnly
<1>5. ASSUME NEW fault, Fire(fault) PROVE CaptureTypeOK'
  <2>1. fire' \in {"send", "idle"} /\ lambda' \in {"own", "old"}
    BY <1>5 DEF Fire
  <2>2. UNCHANGED <<flashes, calling, stray>>
    BY <1>5 DEF Fire
  <2>3. QED
    BY <2>1, <2>2
<1>6. ASSUME NEW cmd \in Commands, NEW fault \in Faults, Sends(cmd, fault) PROVE CaptureTypeOK'
  BY <1>1, <1>3, <1>6 DEF Sends, SendFailed, Return
<1>7. ASSUME NEW fault \in Faults, ExchangeOver(fault) \/ CaptureOver(fault) PROVE CaptureTypeOK'
  BY <1>1, <1>7 DEF ExchangeOver, CaptureOver, SendFailed, Return
<1>8. CASE WaitEnds
  BY <1>8 DEF WaitEnds
<1>9. CASE Flash
  BY <1>9 DEF Flash
<1>10. CASE LambdaRuns
  <2>1. stray' \in BOOLEAN
    BY <1>10 DEF LambdaRuns
  <2>2. QED
    BY <1>10, <2>1 DEF LambdaRuns
<1>11. QED
  BY <1>2, <1>4, <1>5, <1>6, <1>7, <1>8, <1>9, <1>10 DEF Next, CaptureStep, vars

\* Every variable keeps its type, the adapter and the bytes on the line included.
THEOREM TypeCorrect == Spec => []TypeOK
<1>1. Init => CaptureTypeOK
  <2> SUFFICES ASSUME Init PROVE CaptureTypeOK
      OBVIOUS
  <2>1. stray \in BOOLEAN
    BY DEF Init
  <2>2. QED
    BY <2>1 DEF Init, CaptureTypeOK
<1>2. LineInv /\ LambdaInv /\ CaptureTypeOK => TypeOK
  BY DEF LineInv, LambdaInv, CaptureTypeOK, TypeOK
<1>3. QED
  BY <1>1, <1>2, CaptureTyped, LambdaInit, LambdaNext, LineHolds, PTL DEF Spec
=============================================================================
