-------------------------- MODULE HubCaptureProofs --------------------------
(***************************************************************************)
(* Proofs about HubCapture, for every value of its constants.              *)
(***************************************************************************)
EXTENDS HubCapture, TLAPS

-----------------------------------------------------------------------------
\* Type correctness.

\* The constants are as HubCapture assumes them.
LEMMA Constants ==
  /\ CameraCount \in Nat \ {0}
  /\ FramesPerTrigger \in Nat \ {0}
  /\ MaxPublications \in Nat \ {0}
  /\ SlotCount \in Nat \ {0}
  /\ CaptureIds \subseteq Nat
  /\ RecModes \subseteq BOOLEAN
BY CameraCountAssumption, FramesPerTriggerAssumption, MaxPublicationsAssumption,
   SlotCountAssumption, CaptureIdsAssumption, ModesAssumption

\* The initial state is typed.
LEMMA TypeInit == Init => TypeOK
<1> SUFFICES ASSUME Init PROVE TypeOK
    OBVIOUS
<1> USE Constants DEF Init
<1>1. HubTypeOK
  BY DEF HubTypeOK, Cameras
<1>2. CaptureTypeOK
  <2>1. <<>> \in Seq(Frame)
    OBVIOUS
  <2>2. NoPending \in [Cameras -> Seq(Frame)]
    BY <2>1 DEF NoPending
  <2>3. QED
    BY <2>2 DEF CaptureTypeOK
<1>3. TableTypeOK
  BY DEF TableTypeOK, NoPublications
<1>4. RingTypeOK
  BY DEF RingTypeOK, CreatedRing, Slots
<1>5. WritingTypeOK
  BY DEF WritingTypeOK, NotWriting
<1>6. ClientTypeOK
  BY DEF ClientTypeOK, NotWaiting, NoReply, Reply
<1>7. CameraTypeOK
  <2>1. <<>> \in Seq(Frame)
    OBVIOUS
  <2>2. [k \in Cameras |-> <<>>] \in [Cameras -> Seq(Frame)]
    BY <2>1
  <2>3. QED
    BY <2>2 DEF CameraTypeOK
<1>8. QED
  BY <1>1, <1>2, <1>3, <1>4, <1>5, <1>6, <1>7 DEF TypeOK

\* A part of the state that a step leaves alone keeps its type.
LEMMA TypeFrame ==
  ASSUME TypeOK
  PROVE  /\ UNCHANGED hubVars => HubTypeOK'
         /\ UNCHANGED <<awaitVars, pending, shm_error>> => CaptureTypeOK'
         /\ UNCHANGED pubVars => TableTypeOK'
         /\ UNCHANGED <<ring, cursor>> => RingTypeOK'
         /\ UNCHANGED writing => WritingTypeOK'
         /\ UNCHANGED <<cameraVars, shot>> => CameraTypeOK'
<1>1. UNCHANGED hubVars => HubTypeOK'
  BY DEF TypeOK, HubTypeOK, hubVars
<1>2. UNCHANGED <<awaitVars, pending, shm_error>> => CaptureTypeOK'
  BY DEF TypeOK, CaptureTypeOK, awaitVars
<1>3. UNCHANGED pubVars => TableTypeOK'
  BY DEF TypeOK, TableTypeOK, pubVars
<1>4. UNCHANGED <<ring, cursor>> => RingTypeOK'
  BY DEF TypeOK, RingTypeOK
<1>5. UNCHANGED writing => WritingTypeOK'
  BY DEF TypeOK, WritingTypeOK
<1>6. UNCHANGED <<cameraVars, shot>> => CameraTypeOK'
  BY DEF TypeOK, CameraTypeOK, cameraVars
<1>7. QED
  BY <1>1, <1>2, <1>3, <1>4, <1>5, <1>6

\* Answers are typed.
LEMMA AnswerType ==
  ASSUME NEW c \in Clients, NEW code \in Nat, NEW id \in Nat, NEW n \in Nat,
         Answer(c, code, id, n)
  PROVE  reply' \in Reply
BY DEF Answer, Reply

LEMMA SilentType == Silent => reply' \in Reply
BY DEF Silent, NoReply, Reply

\* Codes are numbers.
LEMMA CodeTypes ==
  /\ CodeOk \in Nat /\ CodeInvalidSession \in Nat /\ CodeInProgress \in Nat
  /\ CodeSerialFailed \in Nat /\ CodeTimeout \in Nat /\ CodeNoPublication \in Nat
  /\ CodeOrchestratorInitFailed \in Nat /\ CodeSessionNotEstablished \in Nat
BY DEF CodeOk, CodeInvalidSession, CodeInProgress, CodeSerialFailed, CodeTimeout,
   CodeNoPublication, CodeOrchestratorInitFailed, CodeSessionNotEstablished

\* Restoring a session, whether it succeeds or not, leaves typed values.
LEMMA RestoreType ==
  ASSUME HubTypeOK, NEW ok \in BOOLEAN, RestoreActiveSession(ok)
  PROVE  session' \in BOOLEAN /\ has_orchestrator' \in BOOLEAN /\ streaming' \subseteq Cameras
<1>1. session' \in BOOLEAN /\ has_orchestrator' \in BOOLEAN
  BY DEF RestoreActiveSession
<1>2. CASE ok
  BY <1>1, <1>2 DEF RestoreActiveSession
<1>3. CASE ~ok
  <2>1. PICK k \in Cameras : streaming' = (1 .. k - 1) \union (streaming \ (1 .. k))
    BY <1>3 DEF RestoreActiveSession
  <2>2. 1 .. k - 1 \subseteq Cameras
    BY Constants DEF Cameras
  <2>3. QED
    BY <1>1, <2>1, <2>2 DEF HubTypeOK
<1>4. QED
  BY <1>2, <1>3

\* Connect keeps the types.
LEMMA TypeConnect ==
  ASSUME TypeOK, NEW c \in Clients, Connect(c)
  PROVE  TypeOK'
<1>1. HubTypeOK'
  <2>1. session' \in BOOLEAN /\ has_orchestrator' \in BOOLEAN /\ streaming' \subseteq Cameras
    BY RestoreType DEF TypeOK, HubTypeOK, Connect
  <2>2. runtime' \in {"Ready", "SessionNotEstablished"} /\ auto_capture' \in Nat
    BY DEF TypeOK, HubTypeOK, Connect
  <2>3. QED
    BY <2>1, <2>2 DEF HubTypeOK
<1>2. ClientTypeOK'
  <2>1. reply' \in Reply
    BY AnswerType, CodeTypes DEF Connect
  <2>2. holds_session' \subseteq Clients /\ UNCHANGED <<call, used_ids>>
    BY DEF TypeOK, ClientTypeOK, Connect
  <2>3. QED
    BY <2>1, <2>2 DEF TypeOK, ClientTypeOK
<1>3. UNCHANGED <<awaitVars, pending, shm_error, pubVars, ringVars, cameraVars, shot>>
  BY DEF Connect
<1>4. QED
  BY <1>1, <1>2, <1>3, TypeFrame DEF TypeOK, ringVars

\* The empty collections are typed.
LEMMA NoPendingType == NoPending \in [Cameras -> Seq(Frame)]
<1>1. <<>> \in Seq(Frame)
  OBVIOUS
<1>2. QED
  BY <1>1 DEF NoPending

LEMMA NoPublicationsType ==
  ASSUME publications' = NoPublications, finish_lru' = <<>>, latest_id' = 0
  PROVE  TableTypeOK'
BY Constants DEF TableTypeOK, NoPublications

\* What Disconnect leaves alone, whatever it tears down.
LEMMA DisconnectFrame ==
  ASSUME TypeOK, NEW c \in Clients, Disconnect(c)
  PROVE  RingTypeOK' /\ WritingTypeOK' /\ ClientTypeOK' /\ CameraTypeOK'
<1>1. ClientTypeOK'
  <2>1. reply' \in Reply
    BY AnswerType, CodeTypes DEF Disconnect
  <2>2. holds_session' \subseteq Clients /\ UNCHANGED <<call, used_ids>>
    BY DEF TypeOK, ClientTypeOK, Disconnect
  <2>3. QED
    BY <2>1, <2>2 DEF TypeOK, ClientTypeOK
<1>2. UNCHANGED <<ringVars, cameraVars, shot>>
  BY DEF Disconnect
<1>3. QED
  BY <1>1, <1>2, TypeFrame DEF ringVars

\* Disconnect keeps the types.
LEMMA TypeDisconnect ==
  ASSUME TypeOK, NEW c \in Clients, Disconnect(c)
  PROVE  TypeOK'
<1>1. CASE session
  <2>1. HubTypeOK'
    BY <1>1 DEF TypeOK, HubTypeOK, Disconnect, TeardownSession
  <2>2. CaptureTypeOK'
    <3>1. awaiting' = FALSE /\ awaiting_id' = 0 /\ awaiting_shot' = 0 /\ pending' = NoPending
      BY <1>1 DEF Disconnect, TeardownSession
    <3>2. UNCHANGED <<awaiting_rec, shm_error>>
      BY <1>1 DEF Disconnect, TeardownSession
    <3>3. QED
      BY <3>1, <3>2, NoPendingType DEF TypeOK, CaptureTypeOK
  <2>3. TableTypeOK'
    BY <1>1, NoPublicationsType DEF Disconnect, TeardownSession, TableTypeOK
  <2>4. QED
    BY <2>1, <2>2, <2>3, DisconnectFrame DEF TypeOK
<1>2. CASE ~session
  <2>1. UNCHANGED <<hubVars, pending, shm_error, pubVars, awaitVars>>
    BY <1>2 DEF Disconnect, hubVars
  <2>2. QED
    BY <2>1, DisconnectFrame, TypeFrame DEF TypeOK
<1>3. QED
  BY <1>1, <1>2 DEF TypeOK, HubTypeOK

\* The id of a capture, the next automatic id and the triggered frames are typed.
LEMMA RequestType ==
  ASSUME TypeOK, NEW req \in CaptureIds
  PROVE  /\ CaptureId(req) \in Nat
         /\ NextAuto(req) \in Nat
         /\ shot + 1 \in Nat
         /\ TriggeredLine \in [Cameras -> Seq(Frame)]
<1>1. CaptureId(req) \in Nat /\ NextAuto(req) \in Nat
  BY Constants DEF CaptureId, NextAuto, TypeOK, HubTypeOK
<1>2. shot + 1 \in Nat
  BY DEF TypeOK, CameraTypeOK
<1>3. ASSUME NEW k \in Cameras
      PROVE  [i \in 1 .. FramesPerTrigger |-> [camera |-> k, shot |-> shot + 1, index |-> i]]
               \in Seq(Frame)
  <2>1. ASSUME NEW i \in 1 .. FramesPerTrigger
        PROVE  [camera |-> k, shot |-> shot + 1, index |-> i] \in Frame
    BY <1>2, Constants DEF Frame
  <2>2. QED
    BY <2>1, Constants
<1>4. ASSUME NEW k \in Cameras
      PROVE  line[k] \o [i \in 1 .. FramesPerTrigger |->
                          [camera |-> k, shot |-> shot + 1, index |-> i]] \in Seq(Frame)
  BY <1>3 DEF TypeOK, CameraTypeOK
<1>5. QED
  BY <1>1, <1>2, <1>4 DEF TriggeredLine

\* A refused Capture keeps the types.
LEMMA TypeCaptureRefused ==
  ASSUME TypeOK, NEW c \in Clients, CaptureRefused(c)
  PROVE  TypeOK'
<1>1. reply' \in Reply
  BY AnswerType, CodeTypes DEF CaptureRefused
<1>2. UNCHANGED <<hubVars, awaitVars, pending, shm_error, pubVars, ringVars, clientVars,
                  cameraVars, shot, used_ids>>
  BY DEF CaptureRefused
<1>3. ClientTypeOK'
  BY <1>1, <1>2 DEF TypeOK, ClientTypeOK, clientVars
<1>4. QED
  BY <1>2, <1>3, TypeFrame DEF TypeOK, ringVars

LEMMA TypeCaptureInProgress ==
  ASSUME TypeOK, NEW c \in Clients, NEW req \in CaptureIds, CaptureInProgress(c, req)
  PROVE  TypeOK'
<1>1. reply' \in Reply
  BY AnswerType, CodeTypes DEF CaptureInProgress
<1>2. UNCHANGED <<awaitVars, pending, shm_error, pubVars, ringVars, clientVars,
                  cameraVars, shot, used_ids>>
  BY DEF CaptureInProgress
<1>3. ClientTypeOK'
  BY <1>1, <1>2 DEF TypeOK, ClientTypeOK, clientVars
<1>4. HubTypeOK'
  BY RequestType DEF CaptureInProgress, TypeOK, HubTypeOK
<1>5. QED
  BY <1>2, <1>3, <1>4, TypeFrame DEF TypeOK, ringVars

LEMMA TypeCaptureSerialFailed ==
  ASSUME TypeOK, NEW c \in Clients, NEW req \in CaptureIds, NEW rec \in RecModes,
         CaptureSerialFailed(c, req, rec)
  PROVE  TypeOK'
<1>1. reply' \in Reply
  BY AnswerType, CodeTypes, RequestType DEF CaptureSerialFailed
<1>2. UNCHANGED <<pubVars, ringVars, clientVars>>
  BY DEF CaptureSerialFailed
<1>3. ClientTypeOK'
  <2>1. used_ids' \subseteq Nat
    BY RequestType DEF CaptureSerialFailed, TypeOK, ClientTypeOK
  <2>2. QED
    BY <1>1, <1>2, <2>1 DEF TypeOK, ClientTypeOK, clientVars
<1>4. HubTypeOK'
  BY RequestType DEF CaptureSerialFailed, TypeOK, HubTypeOK
<1>5. CaptureTypeOK'
  BY NoPendingType, Constants DEF CaptureSerialFailed, TypeOK, CaptureTypeOK
<1>6. CameraTypeOK'
  <2>1. UNCHANGED <<in_callback, lost>>
    BY DEF CaptureSerialFailed
  <2>2. \/ UNCHANGED <<line, shot>>
        \/ line' = TriggeredLine /\ shot' = shot + 1
    BY DEF CaptureSerialFailed
  <2>3. QED
    BY <2>1, <2>2, RequestType DEF TypeOK, CameraTypeOK
<1>7. QED
  BY <1>2, <1>3, <1>4, <1>5, <1>6, TypeFrame DEF TypeOK, ringVars

LEMMA TypeCaptureStarted ==
  ASSUME TypeOK, NEW c \in Clients, NEW req \in CaptureIds, NEW async \in AsyncModes,
         NEW rec \in RecModes, CaptureStarted(c, req, async, rec)
  PROVE  TypeOK'
<1>1. reply' \in Reply
  BY AnswerType, SilentType, CodeTypes, RequestType DEF CaptureStarted
<1>2. UNCHANGED <<pubVars, ringVars, holds_session>>
  BY DEF CaptureStarted
<1>3. ClientTypeOK'
  <2>1. used_ids' \subseteq Nat
    BY RequestType DEF CaptureStarted, TypeOK, ClientTypeOK
  <2>2. call' \in [Clients -> [id : Nat, shot : Nat]]
    <3>1. \/ UNCHANGED call
          \/ call' = [call EXCEPT ![c] = [id |-> CaptureId(req), shot |-> shot + 1]]
      BY DEF CaptureStarted
    <3>2. [id |-> CaptureId(req), shot |-> shot + 1] \in [id : Nat, shot : Nat]
      BY RequestType
    <3>3. QED
      BY <3>1, <3>2 DEF TypeOK, ClientTypeOK
  <2>3. QED
    BY <1>1, <1>2, <2>1, <2>2 DEF TypeOK, ClientTypeOK
<1>4. HubTypeOK'
  BY RequestType DEF CaptureStarted, TypeOK, HubTypeOK
<1>5. CaptureTypeOK'
  BY NoPendingType, Constants, RequestType DEF CaptureStarted, TypeOK, CaptureTypeOK
<1>6. CameraTypeOK'
  BY RequestType DEF CaptureStarted, TypeOK, CameraTypeOK
<1>7. QED
  BY <1>2, <1>3, <1>4, <1>5, <1>6, TypeFrame DEF TypeOK, ringVars

LEMMA TypeSyncReturn ==
  ASSUME TypeOK, NEW c \in Clients, SyncReturn(c)
  PROVE  TypeOK'
<1>1. call[c].id \in Nat /\ call[c].shot \in Nat
  BY DEF TypeOK, ClientTypeOK
<1>2. reply' \in Reply
  BY <1>1, AnswerType, CodeTypes DEF SyncReturn, SyncFinished, SyncTimedOut
<1>3. UNCHANGED <<hubVars, pubVars, ringVars, holds_session, cameraVars, shot, used_ids>>
  BY DEF SyncReturn, SyncFinished, SyncTimedOut
<1>4. ClientTypeOK'
  <2>1. call' = [call EXCEPT ![c] = NotWaiting]
    BY DEF SyncReturn, SyncFinished, SyncTimedOut
  <2>2. call' \in [Clients -> [id : Nat, shot : Nat]]
    BY <2>1 DEF TypeOK, ClientTypeOK, NotWaiting
  <2>3. QED
    BY <1>2, <1>3, <2>2 DEF TypeOK, ClientTypeOK
<1>5. CaptureTypeOK'
  <2>1. CASE SyncFinished(c)
    BY <2>1 DEF SyncFinished, TypeOK, CaptureTypeOK, awaitVars
  <2>2. CASE SyncTimedOut(c)
    BY <2>2, NoPendingType DEF SyncTimedOut, TypeOK, CaptureTypeOK
  <2>3. QED
    BY <2>1, <2>2 DEF SyncReturn
<1>6. QED
  BY <1>3, <1>4, <1>5, TypeFrame DEF TypeOK, ringVars

\* The cameras' steps before a frame reaches the hub keep the types.
LEMMA TypeDeliver ==
  ASSUME TypeOK, NEW k \in Cameras, Deliver(k)
  PROVE  TypeOK'
<1>1. UNCHANGED <<hubVars, awaitVars, pending, shm_error, pubVars, ringVars, clientVars, lost,
                  shot, used_ids>>
  BY DEF Deliver
<1>2. ClientTypeOK'
  BY <1>1, SilentType DEF Deliver, TypeOK, ClientTypeOK, clientVars
<1>3. CameraTypeOK'
  <2>1. Head(line[k]) \in Frame /\ Tail(line[k]) \in Seq(Frame)
    BY DEF Deliver, TypeOK, CameraTypeOK
  <2>2. line' \in [Cameras -> Seq(Frame)]
    BY <2>1 DEF Deliver, TypeOK, CameraTypeOK
  <2>3. in_callback' \in [Cameras -> Frame \union {NoFrame}]
    BY <2>1 DEF Deliver, TypeOK, CameraTypeOK
  <2>4. QED
    BY <1>1, <2>2, <2>3 DEF TypeOK, CameraTypeOK
<1>4. QED
  BY <1>1, <1>2, <1>3, TypeFrame DEF TypeOK, ringVars

LEMMA TypeLoseFrame ==
  ASSUME TypeOK, NEW k \in Cameras, LoseFrame(k)
  PROVE  TypeOK'
<1>1. UNCHANGED <<hubVars, awaitVars, pending, shm_error, pubVars, ringVars, clientVars,
                  in_callback, shot, used_ids>>
  BY DEF LoseFrame
<1>2. ClientTypeOK'
  BY <1>1, SilentType DEF LoseFrame, TypeOK, ClientTypeOK, clientVars
<1>3. CameraTypeOK'
  <2>1. Tail(line[k]) \in Seq(Frame)
    BY DEF LoseFrame, TypeOK, CameraTypeOK
  <2>2. line' \in [Cameras -> Seq(Frame)]
    BY <2>1 DEF LoseFrame, TypeOK, CameraTypeOK
  <2>3. lost' \in Nat
    BY DEF LoseFrame, TypeOK, CameraTypeOK
  <2>4. QED
    BY <1>1, <2>2, <2>3 DEF TypeOK, CameraTypeOK
<1>4. QED
  BY <1>1, <1>2, <1>3, TypeFrame DEF TypeOK, ringVars

\* A callback that returns leaves the cameras typed.
LEMMA CallbackReturnsType ==
  ASSUME CameraTypeOK, NEW k \in Cameras, CallbackReturns(k), UNCHANGED <<line, lost, shot>>
  PROVE  CameraTypeOK'
BY DEF CameraTypeOK, CallbackReturns

\* The bursts with one frame more are typed.
LEMMA CollectedType ==
  ASSUME TypeOK, NEW k \in Cameras, in_callback[k] # NoFrame
  PROVE  Collected(k) \in [Cameras -> Seq(Frame)]
<1>1. in_callback[k] \in Frame
  BY DEF TypeOK, CameraTypeOK
<1>2. Append(pending[k], in_callback[k]) \in Seq(Frame)
  BY <1>1 DEF TypeOK, CaptureTypeOK
<1>3. QED
  BY <1>2 DEF Collected, TypeOK, CaptureTypeOK

\* The callback up to the point where it starts to write keeps the types.
LEMMA TypeOnCameraFrame ==
  ASSUME TypeOK, NEW k \in Cameras, OnCameraFrame(k)
  PROVE  TypeOK'
<1>1. CASE FrameDropped(k)
  <2>1. UNCHANGED <<hubVars, awaitVars, pending, shm_error, pubVars, ringVars, clientVars, line,
                    lost, shot, used_ids>>
    BY <1>1 DEF FrameDropped
  <2>2. ClientTypeOK'
    BY <1>1, <2>1, SilentType DEF FrameDropped, TypeOK, ClientTypeOK, clientVars
  <2>3. CameraTypeOK'
    BY <1>1, <2>1, CallbackReturnsType DEF FrameDropped, TypeOK
  <2>4. QED
    BY <2>1, <2>2, <2>3, TypeFrame DEF TypeOK, ringVars
<1>2. CASE FrameCollected(k)
  <2>1. UNCHANGED <<hubVars, awaitVars, shm_error, pubVars, ringVars, clientVars, line,
                    lost, shot, used_ids>>
    BY <1>2 DEF FrameCollected
  <2>2. ClientTypeOK'
    BY <1>2, <2>1, SilentType DEF FrameCollected, TypeOK, ClientTypeOK, clientVars
  <2>3. CameraTypeOK'
    BY <1>2, <2>1, CallbackReturnsType DEF FrameCollected, TypeOK
  <2>4. CaptureTypeOK'
    BY <1>2, <2>1, CollectedType DEF FrameCollected, TypeOK, CaptureTypeOK, awaitVars
  <2>5. QED
    BY <2>1, <2>2, <2>3, <2>4, TypeFrame DEF TypeOK, ringVars
<1>3. CASE BurstTaken(k)
  <2>1. UNCHANGED <<hubVars, awaiting_rec, shm_error, pubVars, ring, cursor, clientVars,
                    cameraVars, shot, used_ids>>
    BY <1>3 DEF BurstTaken
  <2>2. ClientTypeOK'
    BY <1>3, <2>1, SilentType DEF BurstTaken, TypeOK, ClientTypeOK, clientVars
  <2>3. \A j \in Cameras : Collected(k)[j] \in Seq(Frame) /\ Len(Collected(k)[j]) >= FramesPerTrigger
    BY <1>3, CollectedType DEF BurstTaken, BurstComplete
  <2>4. CaptureTypeOK'
    <3>1. ASSUME NEW j \in Cameras
          PROVE  SubSeq(Collected(k)[j], FramesPerTrigger + 1, Len(Collected(k)[j])) \in Seq(Frame)
      BY <2>3, Constants
    <3>2. pending' \in [Cameras -> Seq(Frame)]
      BY <1>3, <3>1 DEF BurstTaken
    <3>3. QED
      BY <1>3, <2>1, <3>2 DEF BurstTaken, TypeOK, CaptureTypeOK
  <2>5. WritingTypeOK'
    <3>1. ASSUME NEW j \in Cameras
          PROVE  /\ SubSeq(Collected(k)[j], 1, FramesPerTrigger) \in Seq(Frame)
                 /\ Len(SubSeq(Collected(k)[j], 1, FramesPerTrigger)) = FramesPerTrigger
      BY <2>3, Constants
    <3>2. NoRef \in Ref /\ <<>> \in Seq(Ref)
      BY Constants DEF NoRef, Ref, Slots
    <3>3. 1 \in 1 .. CameraCount + 1 /\ 1 \in 1 .. FramesPerTrigger
      BY Constants
    <3>4. awaiting_id \in Nat /\ awaiting_shot \in Nat /\ awaiting_rec \in BOOLEAN
      BY DEF TypeOK, CaptureTypeOK
    <3>5. QED
      BY <1>3, <3>1, <3>2, <3>3, <3>4 DEF BurstTaken, WritingTypeOK
  <2>6. QED
    BY <2>1, <2>2, <2>4, <2>5, TypeFrame DEF TypeOK
<1>4. QED
  BY <1>1, <1>2, <1>3 DEF OnCameraFrame

\* What the writer works with while it is active.
LEMMA WritingTypes ==
  ASSUME TypeOK, writing.active
  PROVE  /\ writing.thread \in Cameras
         /\ WriterCursor \in Slots
         /\ ring[WriterCursor].seq \in Nat
         /\ cursor' = [cursor EXCEPT ![writing.thread] = NextCursor(@)] =>
              cursor' \in [Cameras -> Slots]
<1>1. writing.thread \in Cameras
  BY DEF TypeOK, WritingTypeOK
<1>2. WriterCursor \in Slots
  BY <1>1 DEF TypeOK, RingTypeOK, WriterCursor
<1>3. ring[WriterCursor].seq \in Nat
  BY <1>2 DEF TypeOK, RingTypeOK
<1>4. NextCursor(WriterCursor) \in Slots
  BY <1>2, Constants DEF NextCursor, Slots
<1>5. QED
  BY <1>1, <1>2, <1>3, <1>4 DEF TypeOK, RingTypeOK, WriterCursor

\* Writing a frame leaves the ring typed and gives a typed reference.
LEMMA WriteSlotType ==
  ASSUME TypeOK, writing.active, NEW payload \in Frame
  PROVE  /\ RefOf(payload) \in Ref
         /\ TryWriteNextSlot(ring, WriterCursor, payload)
              \in [Slots -> [seq : Nat, data : Frame \union {NoPayload}]]
<1>1. RefOf(payload) \in Ref
  BY WritingTypes DEF RefOf, Ref
<1>2. PublishedSlot(ring[WriterCursor], payload) \in [seq : Nat, data : Frame \union {NoPayload}]
  BY WritingTypes DEF PublishedSlot
<1>3. QED
  BY <1>1, <1>2 DEF TryWriteNextSlot, TypeOK, RingTypeOK

\* The steps of the burst write keep the types.
LEMMA TypeWriteRaw ==
  ASSUME TypeOK, WriteRaw
  PROVE  TypeOK'
<1>1. writing.active /\ writing.camera \in Cameras /\ writing.index \in 1 .. FramesPerTrigger
  BY Constants DEF WriteRaw, WritingRaw, TypeOK, WritingTypeOK, Cameras
<1>2. NextPayload \in Frame
  BY <1>1 DEF NextPayload, TypeOK, WritingTypeOK
<1>3. UNCHANGED <<hubVars, awaitVars, pending, shm_error, pubVars, clientVars, cameraVars, shot,
                  used_ids>>
  BY DEF WriteRaw
<1>4. ClientTypeOK'
  BY <1>3, SilentType DEF WriteRaw, TypeOK, ClientTypeOK, clientVars
<1>5. RingTypeOK'
  BY <1>1, <1>2, WriteSlotType, WritingTypes DEF WriteRaw, RingTypeOK, AdvanceCursor
<1>6. WritingTypeOK'
  <2>1. Append(writing.refs, RefOf(NextPayload)) \in Seq(Ref)
    <3>1. writing.refs \in Seq(Ref)
      BY <1>1 DEF TypeOK, WritingTypeOK
    <3>2. RefOf(NextPayload) \in Ref
      BY <1>1, <1>2, WriteSlotType
    <3>3. QED
      BY <3>1, <3>2
  <2>2. (IF writing.index < FramesPerTrigger THEN writing.index + 1 ELSE 1) \in 1 .. FramesPerTrigger
    BY <1>1, Constants
  <2>3. (IF writing.index < FramesPerTrigger THEN writing.camera ELSE writing.camera + 1)
          \in 1 .. CameraCount + 1
    BY <1>1, Constants DEF Cameras
  <2>4. QED
    BY <1>1, <2>1, <2>2, <2>3 DEF WriteRaw, TypeOK, WritingTypeOK
<1>7. QED
  BY <1>3, <1>4, <1>5, <1>6, TypeFrame DEF TypeOK

LEMMA TypeWriteFails ==
  ASSUME TypeOK, WriteFails
  PROVE  TypeOK'
<1>1. writing.active
  BY DEF WriteFails, WritingRaw
<1>2. UNCHANGED <<hubVars, awaitVars, pending, pubVars, ring, clientVars, line, lost, shot,
                  used_ids>>
  BY DEF WriteFails
<1>3. ClientTypeOK'
  BY <1>2, SilentType DEF WriteFails, TypeOK, ClientTypeOK, clientVars
<1>4. RingTypeOK'
  BY <1>1, <1>2, WritingTypes DEF WriteFails, RingTypeOK, AdvanceCursor, TypeOK
<1>5. WritingTypeOK'
  BY DEF WriteFails, WritingTypeOK, NotWriting
<1>6. CameraTypeOK'
  BY <1>1, <1>2, WritingTypes, CallbackReturnsType DEF WriteFails, TypeOK
<1>7. CaptureTypeOK'
  BY <1>2 DEF WriteFails, TypeOK, CaptureTypeOK, awaitVars
<1>8. QED
  BY <1>2, <1>3, <1>4, <1>5, <1>6, <1>7, TypeFrame DEF TypeOK

LEMMA TypeWriteFinal ==
  ASSUME TypeOK, WriteFinal
  PROVE  TypeOK'
<1>1. writing.active
  BY DEF WriteFinal, WritingFinal
<1>2. writing.burst[1][1] \in Frame
  <2>1. 1 \in Cameras /\ 1 \in 1 .. FramesPerTrigger
    BY Constants DEF Cameras
  <2>2. QED
    BY <1>1, <2>1 DEF TypeOK, WritingTypeOK
<1>3. UNCHANGED <<hubVars, awaitVars, pending, shm_error, pubVars, clientVars, cameraVars, shot,
                  used_ids>>
  BY DEF WriteFinal
<1>4. ClientTypeOK'
  BY <1>3, SilentType DEF WriteFinal, TypeOK, ClientTypeOK, clientVars
<1>5. RingTypeOK'
  BY <1>1, <1>2, WriteSlotType, WritingTypes DEF WriteFinal, RingTypeOK, AdvanceCursor
<1>6. WritingTypeOK'
  BY <1>1, <1>2, WriteSlotType DEF WriteFinal, TypeOK, WritingTypeOK
<1>7. QED
  BY <1>3, <1>4, <1>5, <1>6, TypeFrame DEF TypeOK

\* RememberPublication keeps the table typed and within its bound.
LEMMA RememberType ==
  ASSUME TableTypeOK, NEW id \in Nat, NEW pub \in Publication, RememberPublication(id, pub)
  PROVE  TableTypeOK'
<1> DEFINE stored == [i \in DOMAIN publications \union {id} |->
                        IF i = id THEN pub ELSE publications[i]]
           lru == Append(finish_lru, id)
<1>1. /\ DOMAIN stored \subseteq Nat
      /\ stored \in [DOMAIN stored -> Publication]
  BY DEF TableTypeOK
<1>2. lru \in Seq(Nat) /\ Len(lru) = Len(finish_lru) + 1 /\ lru # <<>>
  BY DEF TableTypeOK
<1>3. latest_id' \in Nat
  BY DEF RememberPublication
<1>4. CASE Len(lru) > MaxPublications
  <2>1. /\ finish_lru' = Tail(lru)
        /\ publications' = [i \in DOMAIN stored \ {Head(lru)} |-> stored[i]]
    BY <1>4 DEF RememberPublication
  <2>2. Tail(lru) \in Seq(Nat) /\ Len(Tail(lru)) = Len(finish_lru)
    BY <1>2
  <2>3. /\ DOMAIN publications' \subseteq Nat
        /\ publications' \in [DOMAIN publications' -> Publication]
    BY <1>1, <2>1
  <2>4. QED
    BY <1>3, <2>1, <2>2, <2>3 DEF TableTypeOK
<1>5. CASE ~(Len(lru) > MaxPublications)
  <2>1. finish_lru' = lru /\ publications' = stored
    BY <1>5 DEF RememberPublication
  <2>2. Len(lru) <= MaxPublications
    BY <1>2, <1>5, Constants DEF TableTypeOK
  <2>3. QED
    BY <1>1, <1>2, <1>3, <2>1, <2>2 DEF TableTypeOK
<1>6. QED
  BY <1>4, <1>5

LEMMA TypePublishBurst ==
  ASSUME TypeOK, PublishBurst
  PROVE  TypeOK'
<1>1. writing.active
  BY DEF PublishBurst, WritingDone
<1>2. UNCHANGED <<hubVars, awaitVars, pending, ring, cursor, clientVars, line, lost, shot,
                  used_ids>>
  BY DEF PublishBurst
<1>3. ClientTypeOK'
  BY <1>2, SilentType DEF PublishBurst, TypeOK, ClientTypeOK, clientVars
<1>4. WritingTypeOK'
  BY DEF PublishBurst, WritingTypeOK, NotWriting
<1>5. CameraTypeOK'
  BY <1>1, <1>2, WritingTypes, CallbackReturnsType DEF PublishBurst, TypeOK
<1>6. CaptureTypeOK'
  BY <1>2 DEF PublishBurst, TypeOK, CaptureTypeOK, awaitVars
<1>7. TableTypeOK'
  <2>1. /\ writing.id \in Nat
        /\ [shot |-> writing.shot, refs |-> writing.refs, final |-> writing.final] \in Publication
    BY <1>1 DEF TypeOK, WritingTypeOK, Publication
  <2>2. QED
    BY <2>1, RememberType DEF PublishBurst, TypeOK
<1>8. QED
  BY <1>2, <1>3, <1>4, <1>5, <1>6, <1>7, TypeFrame DEF TypeOK

\* Every step keeps the types.
LEMMA TypeNext == TypeOK /\ [Next]_vars => TypeOK'
<1> SUFFICES ASSUME TypeOK, [Next]_vars PROVE TypeOK'
    OBVIOUS
<1>1. ASSUME NEW c \in Clients, Connect(c) PROVE TypeOK'
  BY <1>1, TypeConnect
<1>2. ASSUME NEW c \in Clients, Disconnect(c) PROVE TypeOK'
  BY <1>2, TypeDisconnect
<1>3. ASSUME NEW c \in Clients, CaptureRefused(c) PROVE TypeOK'
  BY <1>3, TypeCaptureRefused
<1>4. ASSUME NEW c \in Clients, NEW req \in CaptureIds, CaptureInProgress(c, req) PROVE TypeOK'
  BY <1>4, TypeCaptureInProgress
<1>5. ASSUME NEW c \in Clients, NEW req \in CaptureIds, NEW rec \in RecModes,
             CaptureSerialFailed(c, req, rec)
      PROVE  TypeOK'
  BY <1>5, TypeCaptureSerialFailed
<1>6. ASSUME NEW c \in Clients, NEW req \in CaptureIds, NEW async \in AsyncModes,
             NEW rec \in RecModes, CaptureStarted(c, req, async, rec)
      PROVE  TypeOK'
  BY <1>6, TypeCaptureStarted
<1>7. ASSUME NEW c \in Clients, SyncReturn(c) PROVE TypeOK'
  BY <1>7, TypeSyncReturn
<1>8. ASSUME NEW k \in Cameras, Deliver(k) PROVE TypeOK'
  BY <1>8, TypeDeliver
<1>9. ASSUME NEW k \in Cameras, LoseFrame(k) PROVE TypeOK'
  BY <1>9, TypeLoseFrame
<1>10. ASSUME NEW k \in Cameras, OnCameraFrame(k) PROVE TypeOK'
  BY <1>10, TypeOnCameraFrame
<1>11. CASE FinishBurst
  BY <1>11, TypeWriteRaw, TypeWriteFails, TypeWriteFinal, TypePublishBurst DEF FinishBurst
<1>12. CASE UNCHANGED vars
  <2>1. UNCHANGED <<hubVars, awaitVars, pending, shm_error, pubVars, ringVars, clientVars,
                    cameraVars, reply, shot, used_ids>>
    BY <1>12 DEF vars
  <2>2. ClientTypeOK'
    BY <2>1 DEF TypeOK, ClientTypeOK, clientVars
  <2>3. QED
    BY <2>1, <2>2, TypeFrame DEF TypeOK, ringVars
<1>13. QED
  BY <1>1, <1>2, <1>3, <1>4, <1>5, <1>6, <1>7, <1>8, <1>9, <1>10, <1>11, <1>12 DEF Next

\* Every variable of the hub keeps its type, and the LRU list of publications never exceeds
\* kMaxPublications, whatever the clients, cameras and capture ids.
THEOREM TypeCorrect == Spec => []TypeOK
<1>1. Init => TypeOK
  BY TypeInit
<1>2. TypeOK /\ [Next]_vars => TypeOK'
  BY TypeNext
<1>3. QED
  BY <1>1, <1>2, PTL DEF Spec

-----------------------------------------------------------------------------
\* Sessions: SessionInv is inductive, and what is armed can be completed.

LEMMA SessionInit == Init => SessionInv
<1> SUFFICES ASSUME Init PROVE SessionInv
    OBVIOUS
<1>1. writing.active = FALSE /\ DOMAIN publications = {}
  BY DEF Init, NotWriting, NoPublications
<1>2. QED
  BY <1>1 DEF Init, SessionInv, ReadyIsComplete, ClosedIsIdle, OneCapture, IdsNotZero,
              NoCompleteBurstWaits

\* The parts of SessionInv speak of these variables only.
LEMMA SessionFrame ==
  ASSUME SessionInv, UNCHANGED <<hubVars, awaitVars, pending, writing>>,
         DOMAIN publications' = DOMAIN publications
  PROVE  SessionInv'
BY DEF SessionInv, ReadyIsComplete, ClosedIsIdle, OneCapture, IdsNotZero,
       NoCompleteBurstWaits, hubVars, awaitVars

\* Connect: only a closed hub is restored, and it says Ready only when that succeeds.
LEMMA SessionConnect ==
  ASSUME SessionInv, NEW c \in Clients, Connect(c)
  PROVE  SessionInv'
<1>1. UNCHANGED <<auto_capture, awaiting, awaiting_id, pending, publications, writing>>
  BY DEF Connect, awaitVars, pubVars, ringVars
<1>2. \/ runtime' = "Ready" /\ session' /\ has_orchestrator' /\ streaming' = Cameras
      \/ runtime # "Ready" /\ runtime' = runtime
      \/ UNCHANGED <<runtime, session, has_orchestrator, streaming>>
  <2>1. NeedsRestore => runtime # "Ready"
    BY DEF NeedsRestore, SessionInv, ReadyIsComplete
  <2>2. QED
    BY <2>1 DEF Connect, RestoreActiveSession
<1>3. ReadyIsComplete' /\ ClosedIsIdle'
  BY <1>1, <1>2 DEF SessionInv, ReadyIsComplete, ClosedIsIdle
<1>4. QED
  BY <1>1, <1>3 DEF SessionInv, OneCapture, IdsNotZero, NoCompleteBurstWaits

\* Disconnect closes the hub and leaves nothing behind.
LEMMA SessionDisconnect ==
  ASSUME SessionInv, NEW c \in Clients, Disconnect(c)
  PROVE  SessionInv'
<1>1. UNCHANGED <<auto_capture, writing>> /\ ~writing.active
  BY DEF Disconnect, ringVars, MuFree
<1>2. CASE session
  <2>1. runtime' = "SessionNotEstablished" /\ ~awaiting' /\ publications' = NoPublications
    BY <1>2 DEF Disconnect, TeardownSession
  <2>2. DOMAIN publications' = {}
    BY <2>1 DEF NoPublications
  <2>3. QED
    BY <1>1, <2>1, <2>2 DEF SessionInv, ReadyIsComplete, ClosedIsIdle, OneCapture, IdsNotZero,
                            NoCompleteBurstWaits
<1>3. CASE ~session
  <2>1. UNCHANGED <<hubVars, awaitVars, pending, writing, publications>>
    BY <1>1, <1>3 DEF Disconnect, hubVars, pubVars
  <2>2. QED
    BY <2>1, SessionFrame
<1>4. QED
  BY <1>2, <1>3

\* Ids taken by captures are never 0.
LEMMA IdNotZero ==
  ASSUME TypeOK, auto_capture # 0, NEW req \in CaptureIds
  PROVE  CaptureId(req) # 0 /\ NextAuto(req) # 0
BY DEF TypeOK, HubTypeOK, CaptureId, NextAuto

\* The three outcomes of an admitted Capture.
LEMMA SessionCapture ==
  ASSUME TypeOK, SessionInv, NEW c \in Clients, NEW req \in CaptureIds,
         \/ CaptureInProgress(c, req)
         \/ \E rec \in RecModes : CaptureSerialFailed(c, req, rec)
         \/ \E async \in AsyncModes, rec \in RecModes : CaptureStarted(c, req, async, rec)
  PROVE  SessionInv'
<1>1. auto_capture' # 0
  BY IdNotZero DEF CaptureInProgress, CaptureSerialFailed, CaptureStarted, SessionInv, IdsNotZero
<1>2. UNCHANGED <<runtime, session, has_orchestrator, streaming, publications, writing>>
  BY DEF CaptureInProgress, CaptureSerialFailed, CaptureStarted, pubVars, ringVars
<1>3. CASE CaptureInProgress(c, req)
  <2>1. UNCHANGED <<awaiting, awaiting_id, pending>>
    BY <1>3 DEF CaptureInProgress, awaitVars
  <2>2. QED
    BY <1>1, <1>2, <2>1 DEF SessionInv, ReadyIsComplete, ClosedIsIdle, OneCapture, IdsNotZero,
                            NoCompleteBurstWaits
<1>4. CASE \E rec \in RecModes : CaptureSerialFailed(c, req, rec)
  <2>1. ~awaiting /\ ~awaiting'
    BY <1>4 DEF CaptureSerialFailed
  <2>2. QED
    BY <1>1, <1>2, <2>1 DEF SessionInv, ReadyIsComplete, ClosedIsIdle, OneCapture, IdsNotZero,
                            NoCompleteBurstWaits
<1>5. CASE \E async \in AsyncModes, rec \in RecModes : CaptureStarted(c, req, async, rec)
  <2>1. /\ Admitted(c)
        /\ awaiting' /\ awaiting_id' = CaptureId(req) /\ pending' = NoPending
    BY <1>5 DEF CaptureStarted
  <2>2. awaiting_id' # 0
    BY <2>1, IdNotZero DEF SessionInv, IdsNotZero
  <2>3. NoCompleteBurstWaits'
    <3>1. 1 \in Cameras
      BY Constants DEF Cameras
    <3>2. Len(NoPending[1]) < FramesPerTrigger
      BY <3>1, Constants DEF NoPending
    <3>3. QED
      BY <2>1, <3>1, <3>2 DEF NoCompleteBurstWaits
  <2>4. runtime = "Ready" /\ ~writing.active
    BY <2>1 DEF Admitted, MuFree
  <2>5. QED
    BY <1>1, <1>2, <2>2, <2>3, <2>4 DEF SessionInv, ReadyIsComplete, ClosedIsIdle, OneCapture,
                                       IdsNotZero
<1>6. QED
  BY <1>3, <1>4, <1>5

\* A synchronous Capture that returns leaves its capture finished or disarms what is armed.
LEMMA SessionSyncReturn ==
  ASSUME SessionInv, NEW c \in Clients, SyncReturn(c)
  PROVE  SessionInv'
<1>1. UNCHANGED <<hubVars, publications, writing>>
  BY DEF SyncReturn, SyncFinished, SyncTimedOut, pubVars, ringVars
<1>2. CASE SyncFinished(c)
  BY <1>1, <1>2, SessionFrame DEF SyncFinished
<1>3. CASE SyncTimedOut(c)
  <2>1. ~awaiting'
    BY <1>3 DEF SyncTimedOut
  <2>2. QED
    BY <1>1, <2>1 DEF SessionInv, ReadyIsComplete, ClosedIsIdle, OneCapture, IdsNotZero,
                      NoCompleteBurstWaits, hubVars
<1>4. QED
  BY <1>2, <1>3 DEF SyncReturn

\* A frame completes the burst or leaves some camera short of frames.
LEMMA SessionOnCameraFrame ==
  ASSUME TypeOK, SessionInv, NEW k \in Cameras, OnCameraFrame(k)
  PROVE  SessionInv'
<1>1. CASE FrameDropped(k)
  BY <1>1, SessionFrame DEF FrameDropped, pubVars, ringVars
<1>2. CASE FrameCollected(k)
  <2>1. UNCHANGED <<hubVars, awaitVars, publications, writing>>
    BY <1>2 DEF FrameCollected, pubVars, ringVars
  <2>2. NoCompleteBurstWaits'
    <3>1. PICK j \in Cameras : ~(Len(Collected(k)[j]) >= FramesPerTrigger)
      BY <1>2 DEF FrameCollected, BurstComplete
    <3>2. Collected(k)[j] \in Seq(Frame)
      BY <1>2, CollectedType DEF FrameCollected
    <3>3. Len(Collected(k)[j]) < FramesPerTrigger
      BY <3>1, <3>2, Constants
    <3>4. pending' = Collected(k)
      BY <1>2 DEF FrameCollected
    <3>5. QED
      BY <3>3, <3>4 DEF NoCompleteBurstWaits
  <2>3. QED
    BY <2>1, <2>2 DEF SessionInv, ReadyIsComplete, ClosedIsIdle, OneCapture, IdsNotZero,
                      hubVars, awaitVars
<1>3. CASE BurstTaken(k)
  <2>1. UNCHANGED <<hubVars, publications>>
    BY <1>3 DEF BurstTaken, pubVars
  <2>2. awaiting /\ ~awaiting' /\ writing'.active /\ writing'.id = awaiting_id
    BY <1>3 DEF BurstTaken
  <2>3. QED
    BY <2>1, <2>2 DEF SessionInv, ReadyIsComplete, ClosedIsIdle, OneCapture, IdsNotZero,
                      NoCompleteBurstWaits, hubVars
<1>4. QED
  BY <1>1, <1>2, <1>3 DEF OnCameraFrame

\* The burst write happens while the hub is Ready and no capture is armed.
LEMMA SessionFinishBurst ==
  ASSUME TypeOK, SessionInv, FinishBurst
  PROVE  SessionInv'
<1>1. writing.active /\ runtime = "Ready" /\ ~awaiting
  BY DEF FinishBurst, WriteRaw, WriteFails, WriteFinal, PublishBurst, WritingRaw, WritingFinal,
         WritingDone, SessionInv, ClosedIsIdle, OneCapture
<1>2. UNCHANGED <<hubVars, awaitVars, pending>>
  BY DEF FinishBurst, WriteRaw, WriteFails, WriteFinal, PublishBurst
<1>3. \/ writing'.active = FALSE
      \/ writing'.active = writing.active /\ writing'.id = writing.id
  <2>1. CASE WriteRaw \/ WriteFinal
    BY <1>1, <2>1 DEF WriteRaw, WriteFinal, TypeOK, WritingTypeOK
  <2>2. CASE WriteFails \/ PublishBurst
    BY <2>2 DEF WriteFails, PublishBurst, NotWriting
  <2>3. QED
    BY <2>1, <2>2 DEF FinishBurst
<1>4. IdsNotZero'
  BY <1>1, <1>2, <1>3 DEF SessionInv, IdsNotZero, hubVars, awaitVars
<1>5. QED
  BY <1>1, <1>2, <1>4 DEF SessionInv, ReadyIsComplete, ClosedIsIdle, OneCapture,
                          NoCompleteBurstWaits, hubVars, awaitVars

LEMMA SessionNext == TypeOK /\ SessionInv /\ [Next]_vars => SessionInv'
<1> SUFFICES ASSUME TypeOK, SessionInv, [Next]_vars PROVE SessionInv'
    OBVIOUS
<1>1. ASSUME NEW c \in Clients, Connect(c) PROVE SessionInv'
  BY <1>1, SessionConnect
<1>2. ASSUME NEW c \in Clients, Disconnect(c) PROVE SessionInv'
  BY <1>2, SessionDisconnect
<1>3. ASSUME NEW c \in Clients, CaptureRefused(c) PROVE SessionInv'
  BY <1>3, SessionFrame DEF CaptureRefused, pubVars, ringVars
<1>4. ASSUME NEW c \in Clients, NEW req \in CaptureIds,
             \/ CaptureInProgress(c, req)
             \/ \E rec \in RecModes : CaptureSerialFailed(c, req, rec)
             \/ \E async \in AsyncModes, rec \in RecModes : CaptureStarted(c, req, async, rec)
      PROVE  SessionInv'
  BY <1>4, SessionCapture
<1>5. ASSUME NEW c \in Clients, SyncReturn(c) PROVE SessionInv'
  BY <1>5, SessionSyncReturn
<1>6. ASSUME NEW k \in Cameras, Deliver(k) PROVE SessionInv'
  BY <1>6, SessionFrame DEF Deliver, pubVars, ringVars
<1>7. ASSUME NEW k \in Cameras, LoseFrame(k) PROVE SessionInv'
  BY <1>7, SessionFrame DEF LoseFrame, pubVars, ringVars
<1>8. ASSUME NEW k \in Cameras, OnCameraFrame(k) PROVE SessionInv'
  BY <1>8, SessionOnCameraFrame
<1>9. CASE FinishBurst
  BY <1>9, SessionFinishBurst
<1>10. CASE UNCHANGED vars
  BY <1>10, SessionFrame DEF vars, pubVars, ringVars
<1>11. QED
  BY <1>1, <1>2, <1>3, <1>4, <1>5, <1>6, <1>7, <1>8, <1>9, <1>10 DEF Next

LEMMA SessionInvariant == Spec => []SessionInv
<1>1. Init => SessionInv
  BY SessionInit
<1>2. TypeOK /\ SessionInv /\ [Next]_vars => SessionInv'
  BY SessionNext
<1>3. QED
  BY <1>1, <1>2, TypeCorrect, PTL DEF Spec

\* Whatever the clients do to the session they share, and however a Connect fails, a capture
\* that waits for frames has a session, an orchestrator and every camera streaming.
THEOREM CapturesAreServiceable == Spec => []ArmedIsServiceable
<1>1. SessionInv => ArmedIsServiceable
  BY DEF SessionInv, ReadyIsComplete, ClosedIsIdle, ArmedIsServiceable
<1>2. QED
  BY <1>1, SessionInvariant, PTL

\* A burst that is complete is taken by the callback that completes it.
THEOREM BurstsAreTaken == Spec => []NoCompleteBurstWaits
<1>1. SessionInv => NoCompleteBurstWaits
  BY DEF SessionInv
<1>2. QED
  BY <1>1, SessionInvariant, PTL

-----------------------------------------------------------------------------
\* The ring: RefsInv is inductive, and seq identifies what a slot holds.

LEMMA RefsInit == Init => RefsInv
<1> SUFFICES ASSUME Init PROVE RefsInv
    OBVIOUS
<1>1. writing.active = FALSE /\ DOMAIN publications = {}
  BY DEF Init, NotWriting, NoPublications
<1>2. QED
  BY <1>1 DEF RefsInv

\* One write of the ring outdates the references to its slot and touches no other.
LEMMA MatchesKept ==
  ASSUME TypeOK, NEW ref \in Ref, Matches(ring, ref), NEW s \in Slots, NEW payload
  PROVE  Matches(TryWriteNextSlot(ring, s, payload), ref)
<1> DEFINE written == TryWriteNextSlot(ring, s, payload)
<1>1. ref.slot \in Slots /\ ref.seq \in Nat /\ ring[ref.slot].seq \in Nat
  BY DEF Ref, TypeOK, RingTypeOK
<1>2. CASE ref.slot # s
  <2>1. written[ref.slot] = ring[ref.slot]
    BY <1>1, <1>2 DEF TryWriteNextSlot, TypeOK, RingTypeOK
  <2>2. QED
    BY <2>1 DEF Matches
<1>3. CASE ref.slot = s
  <2>1. written[ref.slot].seq = ring[ref.slot].seq + 1
    BY <1>1, <1>3 DEF TryWriteNextSlot, PublishedSlot, TypeOK, RingTypeOK
  <2>2. QED
    BY <1>1, <2>1 DEF Matches
<1>4. QED
  BY <1>2, <1>3

\* The same for all references of a publication.
LEMMA AllMatchKept ==
  ASSUME TypeOK, NEW refs \in Seq(Ref), AllMatch(ring, refs), NEW s \in Slots, NEW payload
  PROVE  AllMatch(TryWriteNextSlot(ring, s, payload), refs)
<1>1. ASSUME NEW i \in DOMAIN refs
      PROVE  Matches(TryWriteNextSlot(ring, s, payload), refs[i])
  <2>1. refs[i] \in Ref /\ Matches(ring, refs[i])
    BY DEF AllMatch
  <2>2. QED
    BY <2>1, MatchesKept
<1>2. QED
  BY <1>1 DEF AllMatch

\* The publications keep matching when the ring is written.
LEMMA PublishedKept ==
  ASSUME TypeOK, RefsInv, NEW s \in Slots, NEW payload
  PROVE  \A id \in DOMAIN publications :
           AllMatch(TryWriteNextSlot(ring, s, payload), publications[id].refs)
<1>1. ASSUME NEW id \in DOMAIN publications
      PROVE  AllMatch(TryWriteNextSlot(ring, s, payload), publications[id].refs)
  <2>1. publications[id].refs \in Seq(Ref)
    BY DEF TypeOK, TableTypeOK, Publication
  <2>2. AllMatch(ring, publications[id].refs)
    BY DEF RefsInv
  <2>3. QED
    BY <2>1, <2>2, AllMatchKept
<1>2. QED
  BY <1>1

\* A step that leaves the table, the ring and the burst being written alone.
LEMMA RefsFrame ==
  ASSUME RefsInv, UNCHANGED <<publications, ring, writing>>
  PROVE  RefsInv'
BY DEF RefsInv

\* A step that forgets every publication, outside a burst write.
LEMMA RefsForgotten ==
  ASSUME publications' = NoPublications, ~writing.active, UNCHANGED writing
  PROVE  RefsInv'
<1>1. DOMAIN publications' = {}
  BY DEF NoPublications
<1>2. QED
  BY <1>1 DEF RefsInv

\* The write of a frame: its own reference matches, those taken before still do.
LEMMA RefsWriteRaw ==
  ASSUME TypeOK, RefsInv, WriteRaw
  PROVE  RefsInv'
<1>1. writing.active /\ WriterCursor \in Slots /\ ring[WriterCursor].seq \in Nat
  BY WritingTypes DEF WriteRaw, WritingRaw
<1>2. /\ ring' = TryWriteNextSlot(ring, WriterCursor, NextPayload)
      /\ UNCHANGED publications
  BY DEF WriteRaw, pubVars
<1>3. \A id \in DOMAIN publications : AllMatch(ring', publications[id].refs)
  BY <1>1, <1>2, PublishedKept
<1>4. writing.refs \in Seq(Ref) /\ AllMatch(ring, writing.refs)
  BY <1>1 DEF TypeOK, WritingTypeOK, RefsInv
<1>5. AllMatch(ring', writing.refs)
  BY <1>1, <1>2, <1>4, AllMatchKept
<1>6. Matches(ring', RefOf(NextPayload))
  BY <1>1, <1>2 DEF Matches, RefOf, TryWriteNextSlot, PublishedSlot, TypeOK, RingTypeOK
<1>7. writing'.refs = Append(writing.refs, RefOf(NextPayload))
  BY <1>1 DEF WriteRaw, TypeOK, WritingTypeOK
<1>8. AllMatch(ring', writing'.refs)
  <2>1. ASSUME NEW i \in DOMAIN writing'.refs PROVE Matches(ring', writing'.refs[i])
    <3>1. \/ i \in DOMAIN writing.refs /\ writing'.refs[i] = writing.refs[i]
          \/ writing'.refs[i] = RefOf(NextPayload)
      BY <1>4, <1>7
    <3>2. QED
      BY <1>5, <1>6, <3>1 DEF AllMatch
  <2>2. QED
    BY <2>1 DEF AllMatch
<1>9. QED
  BY <1>2, <1>3, <1>8 DEF RefsInv

\* The placeholder of the result is one more write; no reference to it is kept in refs.
LEMMA RefsWriteFinal ==
  ASSUME TypeOK, RefsInv, WriteFinal
  PROVE  RefsInv'
<1>1. writing.active /\ WriterCursor \in Slots
  BY WritingTypes DEF WriteFinal, WritingFinal
<1>2. /\ ring' = TryWriteNextSlot(ring, WriterCursor, writing.burst[1][1])
      /\ UNCHANGED publications
  BY DEF WriteFinal, pubVars
<1>3. \A id \in DOMAIN publications : AllMatch(ring', publications[id].refs)
  BY <1>1, <1>2, PublishedKept
<1>4. writing.refs \in Seq(Ref) /\ AllMatch(ring, writing.refs)
  BY <1>1 DEF TypeOK, WritingTypeOK, RefsInv
<1>5. AllMatch(ring', writing.refs)
  BY <1>1, <1>2, <1>4, AllMatchKept
<1>6. writing'.refs = writing.refs
  BY <1>1 DEF WriteFinal, TypeOK, WritingTypeOK
<1>7. QED
  BY <1>2, <1>3, <1>5, <1>6 DEF RefsInv

\* A publication is either one of the table before or the one just remembered.
LEMMA RememberOrigin ==
  ASSUME NEW id, NEW pub, RememberPublication(id, pub)
  PROVE  \A i \in DOMAIN publications' :
           \/ i \in DOMAIN publications /\ publications'[i] = publications[i]
           \/ publications'[i] = pub
<1> DEFINE stored == [i \in DOMAIN publications \union {id} |->
                        IF i = id THEN pub ELSE publications[i]]
<1>1. \/ publications' = stored
      \/ publications' = [i \in DOMAIN stored \ {Head(Append(finish_lru, id))} |-> stored[i]]
  BY DEF RememberPublication
<1>2. \A i \in DOMAIN publications' : i \in DOMAIN stored /\ publications'[i] = stored[i]
  BY <1>1
<1>3. \A i \in DOMAIN stored :
        \/ i \in DOMAIN publications /\ stored[i] = publications[i]
        \/ stored[i] = pub
  OBVIOUS
<1>4. QED
  BY <1>2, <1>3

LEMMA RefsPublishBurst ==
  ASSUME TypeOK, RefsInv, PublishBurst
  PROVE  RefsInv'
<1> DEFINE pub == [shot |-> writing.shot, refs |-> writing.refs, final |-> writing.final]
<1>1. UNCHANGED ring /\ writing'.active = FALSE
  BY DEF PublishBurst, NotWriting
<1>2. AllMatch(ring, pub.refs)
  BY DEF PublishBurst, WritingDone, RefsInv
<1>3. RememberPublication(writing.id, pub)
  BY DEF PublishBurst
<1>4. ASSUME NEW i \in DOMAIN publications' PROVE AllMatch(ring, publications'[i].refs)
  <2>1. \/ i \in DOMAIN publications /\ publications'[i] = publications[i]
        \/ publications'[i] = pub
    BY <1>3, RememberOrigin
  <2>2. QED
    BY <1>2, <2>1 DEF RefsInv
<1>5. QED
  BY <1>1, <1>4 DEF RefsInv

LEMMA RefsNext == TypeOK /\ RefsInv /\ [Next]_vars => RefsInv'
<1> SUFFICES ASSUME TypeOK, RefsInv, [Next]_vars PROVE RefsInv'
    OBVIOUS
<1>1. ASSUME NEW c \in Clients, Disconnect(c) PROVE RefsInv'
  <2>1. UNCHANGED <<ring, writing>> /\ ~writing.active
    BY <1>1 DEF Disconnect, ringVars, MuFree
  <2>2. UNCHANGED publications \/ publications' = NoPublications
    BY <1>1 DEF Disconnect, TeardownSession, pubVars
  <2>3. QED
    BY <2>1, <2>2, RefsFrame, RefsForgotten
<1>2. ASSUME NEW c \in Clients,
             \/ Connect(c)
             \/ CaptureRefused(c)
             \/ \E req \in CaptureIds : CaptureInProgress(c, req)
             \/ \E req \in CaptureIds, rec \in RecModes : CaptureSerialFailed(c, req, rec)
             \/ \E req \in CaptureIds, async \in AsyncModes, rec \in RecModes :
                  CaptureStarted(c, req, async, rec)
             \/ SyncReturn(c)
      PROVE  RefsInv'
  <2>1. UNCHANGED <<publications, ring, writing>>
    BY <1>2 DEF Connect, CaptureRefused, CaptureInProgress, CaptureSerialFailed, CaptureStarted,
                SyncReturn, SyncFinished, SyncTimedOut, pubVars, ringVars
  <2>2. QED
    BY <2>1, RefsFrame
<1>3. ASSUME NEW k \in Cameras, Deliver(k) \/ LoseFrame(k) PROVE RefsInv'
  BY <1>3, RefsFrame DEF Deliver, LoseFrame, pubVars, ringVars
<1>4. ASSUME NEW k \in Cameras, OnCameraFrame(k) PROVE RefsInv'
  <2>1. CASE FrameDropped(k) \/ FrameCollected(k)
    BY <2>1, RefsFrame DEF FrameDropped, FrameCollected, pubVars, ringVars
  <2>2. CASE BurstTaken(k)
    <3>1. writing'.refs = <<>> /\ UNCHANGED <<publications, ring>>
      BY <2>2 DEF BurstTaken, pubVars
    <3>2. QED
      BY <3>1 DEF RefsInv, AllMatch
  <2>3. QED
    BY <1>4, <2>1, <2>2 DEF OnCameraFrame
<1>5. CASE FinishBurst
  <2>1. CASE WriteFails
    <3>1. writing'.active = FALSE /\ UNCHANGED <<publications, ring>>
      BY <2>1 DEF WriteFails, NotWriting, pubVars
    <3>2. QED
      BY <3>1 DEF RefsInv
  <2>2. QED
    BY <1>5, <2>1, RefsWriteRaw, RefsWriteFinal, RefsPublishBurst DEF FinishBurst
<1>6. CASE UNCHANGED vars
  BY <1>6, RefsFrame DEF vars, pubVars, ringVars
<1>7. QED
  BY <1>1, <1>2, <1>3, <1>4, <1>5, <1>6 DEF Next

\* A reader that finds the recorded seq in a slot reads the frame that was published there,
\* however many callback threads write the ring with cursors of their own.
THEOREM SeqIsSound == Spec => []SeqIdentifiesPayload
<1>1. Init => RefsInv
  BY RefsInit
<1>2. TypeOK /\ RefsInv /\ [Next]_vars => RefsInv'
  BY RefsNext
<1>3. RefsInv => SeqIdentifiesPayload
  BY DEF RefsInv, AllMatch, Matches, SeqIdentifiesPayload, Sound
<1>4. QED
  BY <1>1, <1>2, <1>3, TypeCorrect, PTL DEF Spec

-----------------------------------------------------------------------------
\* Refinement: the hub implements CaptureGate.

\* A step that changes neither of the three abstract variables is a stuttering step.
LEMMA GateStutters ==
  ASSUME UNCHANGED runtime, CurrentCapture' = CurrentCapture,
         DOMAIN publications' = DOMAIN publications
  PROVE  [Gate!Next]_(Gate!gateVars)
BY DEF Gate!gateVars

\* Where nothing is written, the capture being taken is the armed one.
LEMMA CurrentFrame ==
  ASSUME UNCHANGED <<awaiting, awaiting_id>>,
         \/ UNCHANGED writing
         \/ writing'.active = writing.active /\ writing'.id = writing.id
  PROVE  CurrentCapture' = CurrentCapture
BY DEF CurrentCapture

LEMMA GateInit == Init => Gate!Init
<1> SUFFICES ASSUME Init PROVE Gate!Init
    OBVIOUS
<1>1. writing.active = FALSE /\ DOMAIN publications = {}
  BY DEF Init, NotWriting, NoPublications
<1>2. QED
  BY <1>1 DEF Init, Gate!Init, Gate!None, CurrentCapture

\* Connect opens the gate or does nothing to it.
LEMMA GateConnect ==
  ASSUME SessionInv, NEW c \in Clients, Connect(c)
  PROVE  [Gate!Next]_(Gate!gateVars)
<1>1. CurrentCapture' = CurrentCapture /\ UNCHANGED publications
  BY CurrentFrame DEF Connect, awaitVars, pubVars, ringVars
<1>2. CASE runtime' = runtime
  BY <1>1, <1>2, GateStutters
<1>3. CASE runtime' # runtime
  <2>1. runtime' = "Ready" /\ runtime # "Ready"
    BY <1>3 DEF Connect
  <2>2. Gate!Open
    BY <1>1, <2>1 DEF Gate!Open
  <2>3. QED
    BY <2>2 DEF Gate!Next
<1>4. QED
  BY <1>2, <1>3

\* Disconnect closes the gate; a hub that is closed already has nothing to forget.
LEMMA GateDisconnect ==
  ASSUME SessionInv, NEW c \in Clients, Disconnect(c)
  PROVE  [Gate!Next]_(Gate!gateVars)
<1>1. ~writing.active /\ UNCHANGED writing
  BY DEF Disconnect, MuFree, ringVars
<1>2. CASE ~session
  <2>1. UNCHANGED <<runtime, awaiting, awaiting_id, publications>>
    BY <1>2 DEF Disconnect, awaitVars, pubVars
  <2>2. QED
    BY <1>1, <2>1, CurrentFrame, GateStutters
<1>3. CASE session
  <2>1. runtime' = "SessionNotEstablished" /\ awaiting' = FALSE /\ publications' = NoPublications
    BY <1>3 DEF Disconnect, TeardownSession
  <2>2. CurrentCapture' = 0 /\ DOMAIN publications' = {}
    BY <1>1, <2>1 DEF CurrentCapture, NoPublications
  <2>3. CASE runtime = "Ready"
    <3>1. Gate!Close
      BY <2>1, <2>2, <2>3 DEF Gate!Close, Gate!None
    <3>2. QED
      BY <3>1 DEF Gate!Next
  <2>4. CASE runtime # "Ready"
    <3>1. CurrentCapture = 0 /\ DOMAIN publications = {}
      BY <2>4 DEF SessionInv, ClosedIsIdle, CurrentCapture
    <3>2. QED
      BY <2>1, <2>2, <2>4, <3>1 DEF Gate!gateVars
  <2>5. QED
    BY <2>3, <2>4
<1>4. QED
  BY <1>2, <1>3

\* An accepted command starts a capture, every other Capture leaves the gate alone.
LEMMA GateCapture ==
  ASSUME TypeOK, SessionInv, NEW c \in Clients, NEW req \in CaptureIds,
         \/ CaptureInProgress(c, req)
         \/ \E rec \in RecModes : CaptureSerialFailed(c, req, rec)
         \/ \E async \in AsyncModes, rec \in RecModes : CaptureStarted(c, req, async, rec)
  PROVE  [Gate!Next]_(Gate!gateVars)
<1>1. UNCHANGED <<runtime, publications, writing>> /\ ~writing.active /\ runtime = "Ready"
  BY DEF CaptureInProgress, CaptureSerialFailed, CaptureStarted, Admitted, MuFree, pubVars,
         ringVars
<1>2. CASE CaptureInProgress(c, req)
  <2>1. CurrentCapture' = CurrentCapture
    BY <1>1, <1>2, CurrentFrame DEF CaptureInProgress, awaitVars
  <2>2. QED
    BY <1>1, <2>1, GateStutters
<1>3. CASE \E rec \in RecModes : CaptureSerialFailed(c, req, rec)
  <2>1. ~awaiting /\ ~awaiting'
    BY <1>3 DEF CaptureSerialFailed
  <2>2. CurrentCapture' = CurrentCapture
    BY <1>1, <2>1 DEF CurrentCapture
  <2>3. QED
    BY <1>1, <2>2, GateStutters
<1>4. CASE \E async \in AsyncModes, rec \in RecModes : CaptureStarted(c, req, async, rec)
  <2>1. ~awaiting /\ awaiting' = TRUE /\ awaiting_id' = CaptureId(req)
    BY <1>4 DEF CaptureStarted
  <2>2. CaptureId(req) \in Nat /\ CaptureId(req) # 0
    BY RequestType, IdNotZero DEF SessionInv, IdsNotZero
  <2>3. CurrentCapture = 0 /\ CurrentCapture' = CaptureId(req)
    BY <1>1, <2>1 DEF CurrentCapture
  <2>4. Gate!Start
    BY <1>1, <2>2, <2>3 DEF Gate!Start, Gate!None
  <2>5. QED
    BY <2>4 DEF Gate!Next
<1>5. QED
  BY <1>2, <1>3, <1>4

\* The deadline of a synchronous capture gives the capture being taken up.
LEMMA GateSyncReturn ==
  ASSUME SessionInv, NEW c \in Clients, SyncReturn(c)
  PROVE  [Gate!Next]_(Gate!gateVars)
<1>1. UNCHANGED <<runtime, publications, writing>> /\ ~writing.active
  BY DEF SyncReturn, SyncFinished, SyncTimedOut, MuFree, hubVars, pubVars, ringVars
<1>2. CASE SyncFinished(c)
  <2>1. CurrentCapture' = CurrentCapture
    BY <1>1, <1>2, CurrentFrame DEF SyncFinished, awaitVars
  <2>2. QED
    BY <1>1, <2>1, GateStutters
<1>3. CASE SyncTimedOut(c)
  <2>1. awaiting /\ awaiting' = FALSE
    BY <1>3 DEF SyncTimedOut
  <2>2. CurrentCapture # 0 /\ CurrentCapture' = 0
    BY <1>1, <2>1 DEF CurrentCapture, SessionInv, IdsNotZero
  <2>3. Gate!GiveUp
    BY <1>1, <2>2 DEF Gate!GiveUp, Gate!None
  <2>4. QED
    BY <2>3 DEF Gate!Next
<1>4. QED
  BY <1>2, <1>3 DEF SyncReturn

\* A burst that is taken passes from the armed capture to the writer under the same id.
LEMMA GateOnCameraFrame ==
  ASSUME SessionInv, NEW k \in Cameras, OnCameraFrame(k)
  PROVE  [Gate!Next]_(Gate!gateVars)
<1>1. UNCHANGED <<runtime, publications>>
  BY DEF OnCameraFrame, FrameDropped, FrameCollected, BurstTaken, hubVars, pubVars
<1>2. CASE FrameDropped(k) \/ FrameCollected(k)
  <2>1. CurrentCapture' = CurrentCapture
    BY <1>2, CurrentFrame DEF FrameDropped, FrameCollected, awaitVars, ringVars
  <2>2. QED
    BY <1>1, <2>1, GateStutters
<1>3. CASE BurstTaken(k)
  <2>1. awaiting /\ awaiting' = FALSE /\ writing'.active = TRUE /\ writing'.id = awaiting_id
    BY <1>3 DEF BurstTaken
  <2>2. CurrentCapture' = CurrentCapture
    BY <2>1 DEF CurrentCapture
  <2>3. QED
    BY <1>1, <2>2, GateStutters
<1>4. QED
  BY <1>2, <1>3 DEF OnCameraFrame

\* RememberPublication adds the one id and takes at most one away.
LEMMA RememberResults ==
  ASSUME TableTypeOK, NEW id, NEW pub, RememberPublication(id, pub)
  PROVE  /\ DOMAIN publications' \subseteq DOMAIN publications \union {id}
         /\ \E evicted \in DOMAIN publications \union {id} :
              DOMAIN publications \ {evicted} \subseteq DOMAIN publications'
<1> DEFINE stored == [i \in DOMAIN publications \union {id} |->
                        IF i = id THEN pub ELSE publications[i]]
           oldest == Head(Append(finish_lru, id))
<1>1. CASE publications' = stored
  BY <1>1
<1>2. CASE publications' = [i \in DOMAIN stored \ {oldest} |-> stored[i]]
  <2>1. DOMAIN publications' = (DOMAIN publications \union {id}) \ {oldest}
    BY <1>2
  <2>2. QED
    BY <2>1
<1>3. QED
  BY <1>1, <1>2 DEF RememberPublication

\* The end of the burst write publishes the capture being taken, or gives it up.
LEMMA GateFinishBurst ==
  ASSUME TypeOK, SessionInv, FinishBurst
  PROVE  [Gate!Next]_(Gate!gateVars)
<1>1. writing.active /\ runtime = "Ready" /\ ~awaiting
  BY DEF FinishBurst, WriteRaw, WriteFails, WriteFinal, PublishBurst, WritingRaw, WritingFinal,
         WritingDone, SessionInv, ClosedIsIdle, OneCapture
<1>2. UNCHANGED <<runtime, awaiting, awaiting_id>>
  BY DEF FinishBurst, WriteRaw, WriteFails, WriteFinal, PublishBurst, hubVars, awaitVars
<1>3. CurrentCapture = writing.id /\ writing.id # 0
  BY <1>1 DEF CurrentCapture, SessionInv, IdsNotZero
<1>4. CASE WriteRaw \/ WriteFinal
  <2>1. writing'.active = writing.active /\ writing'.id = writing.id
    BY <1>1, <1>4 DEF WriteRaw, WriteFinal, TypeOK, WritingTypeOK
  <2>2. UNCHANGED publications
    BY <1>4 DEF WriteRaw, WriteFinal, pubVars
  <2>3. QED
    BY <1>2, <2>1, <2>2, CurrentFrame, GateStutters
<1>5. CASE WriteFails
  <2>1. writing'.active = FALSE /\ UNCHANGED publications
    BY <1>5 DEF WriteFails, NotWriting, pubVars
  <2>2. CurrentCapture' = 0
    BY <1>1, <1>2, <2>1 DEF CurrentCapture
  <2>3. Gate!GiveUp
    BY <1>2, <1>3, <2>1, <2>2 DEF Gate!GiveUp, Gate!None
  <2>4. QED
    BY <2>3 DEF Gate!Next
<1>6. CASE PublishBurst
  <2>1. writing'.active = FALSE
    BY <1>6 DEF PublishBurst, NotWriting
  <2>2. CurrentCapture' = 0
    BY <1>1, <1>2, <2>1 DEF CurrentCapture
  <2>3. /\ DOMAIN publications' \subseteq DOMAIN publications \union {CurrentCapture}
        /\ \E evicted \in DOMAIN publications \union {CurrentCapture} :
             DOMAIN publications \ {evicted} \subseteq DOMAIN publications'
    BY <1>3, <1>6, RememberResults DEF PublishBurst, TypeOK
  <2>4. Gate!Publish
    BY <1>1, <1>2, <1>3, <2>2, <2>3 DEF Gate!Publish, Gate!None
  <2>5. QED
    BY <2>4 DEF Gate!Next
<1>7. QED
  BY <1>4, <1>5, <1>6 DEF FinishBurst

\* Every step of the hub is a step of the gate or leaves it alone.
LEMMA GateNext == TypeOK /\ SessionInv /\ [Next]_vars => [Gate!Next]_(Gate!gateVars)
<1> SUFFICES ASSUME TypeOK, SessionInv, [Next]_vars PROVE [Gate!Next]_(Gate!gateVars)
    OBVIOUS
<1>1. ASSUME NEW c \in Clients, Connect(c) PROVE [Gate!Next]_(Gate!gateVars)
  BY <1>1, GateConnect
<1>2. ASSUME NEW c \in Clients, Disconnect(c) PROVE [Gate!Next]_(Gate!gateVars)
  BY <1>2, GateDisconnect
<1>3. ASSUME NEW c \in Clients, NEW req \in CaptureIds,
             \/ CaptureInProgress(c, req)
             \/ \E rec \in RecModes : CaptureSerialFailed(c, req, rec)
             \/ \E async \in AsyncModes, rec \in RecModes : CaptureStarted(c, req, async, rec)
      PROVE  [Gate!Next]_(Gate!gateVars)
  BY <1>3, GateCapture
<1>4. ASSUME NEW c \in Clients, SyncReturn(c) PROVE [Gate!Next]_(Gate!gateVars)
  BY <1>4, GateSyncReturn
<1>5. ASSUME NEW k \in Cameras, OnCameraFrame(k) PROVE [Gate!Next]_(Gate!gateVars)
  BY <1>5, GateOnCameraFrame
<1>6. CASE FinishBurst
  BY <1>6, GateFinishBurst
<1>7. CASE \/ \E c \in Clients : CaptureRefused(c)
           \/ \E k \in Cameras : Deliver(k) \/ LoseFrame(k)
           \/ UNCHANGED vars
  <2>1. UNCHANGED <<runtime, awaiting, awaiting_id, writing, publications>>
    BY <1>7 DEF CaptureRefused, Deliver, LoseFrame, vars, hubVars, awaitVars, ringVars, pubVars
  <2>2. QED
    BY <2>1, CurrentFrame, GateStutters
<1>8. QED
  BY <1>1, <1>2, <1>3, <1>4, <1>5, <1>6, <1>7 DEF Next

\* The hub keeps the promise of CaptureGate: captures are taken one at a time, results appear
\* only under the id of the capture being taken, and closing forgets everything.
THEOREM HubImplementsGate == Spec => GateSpec
<1>1. Init => Gate!Init
  BY GateInit
<1>2. TypeOK /\ SessionInv /\ [Next]_vars => [Gate!Next]_(Gate!gateVars)
  BY GateNext
<1>3. QED
  BY <1>1, <1>2, TypeCorrect, SessionInvariant, PTL DEF Spec, GateSpec, Gate!Spec
=============================================================================
