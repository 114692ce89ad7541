----------------------------- MODULE HubCapture -----------------------------
(***************************************************************************)
(* Sessions and captures of hub_service (services/hub_service/             *)
(* hub_app_grpc.cpp, class CameraHubServiceImpl) after a successful        *)
(* startup: the gRPC handlers Connect, Disconnect and Capture, the camera  *)
(* callback OnCameraFrame and the publication table GetDepth answers from. *)
(*                                                                         *)
(* Every handler holds mu_ from start to end, except a synchronous Capture *)
(* that waits on frame_cv_: an action is what runs under one hold of mu_.  *)
(* The one hold that is split is that of OnCameraFrame: it copies a burst  *)
(* to the shared memory ring slot by slot while other processes read the   *)
(* ring, so each TryWriteNextSlot is a step; `writing` is the local state  *)
(* of that call and MuFree says that nobody holds mu_.                     *)
(*                                                                         *)
(* The projector, the cameras and their SDK are outside the code: a        *)
(* production command makes every camera produce FramesPerTrigger frames,  *)
(* each of which is delivered later, in order per camera, or lost.         *)
(***************************************************************************)
EXTENDS ShmRing, Sequences, FiniteSets

CONSTANTS
  Clients,          \* processes that hold an SDK object or a stub of CameraHub
  CameraCount,      \* length of `cameras` in hub_service.json
  FramesPerTrigger, \* frames_per_hardware_trigger_, at least 1 (clamped at startup)
  MaxPublications,  \* kMaxPublications, 128 in the code
  CaptureIds,       \* values of CaptureRequest.client_capture_id; 0 asks for an automatic one
  AsyncModes,       \* values of CaptureRequest.async the clients use
  RecModes,         \* values of CaptureRequest.with_reconstruction_pipeline they use
  OversizeCameras,  \* cameras whose frames may exceed the payload capacity of a slot
  SerialMayFail,    \* whether the projector may miss or refuse a production command
  MayDisconnect,    \* whether clients call Disconnect
  PromptCameras,    \* assumption: frames arrive before the next trigger and the deadline
  UniqueIds,        \* assumption: no capture id is used twice (proto/camera_hub.proto)
  MaxShots,         \* bound: production commands that trigger the projector
  MaxLost           \* bound: frames lost

ASSUME CameraCountAssumption == CameraCount \in Nat \ {0}
ASSUME FramesPerTriggerAssumption == FramesPerTrigger \in Nat \ {0}
ASSUME MaxPublicationsAssumption == MaxPublications \in Nat \ {0}
ASSUME CaptureIdsAssumption == CaptureIds \subseteq Nat
ASSUME ModesAssumption ==
  /\ AsyncModes \subseteq BOOLEAN
  /\ RecModes \subseteq BOOLEAN
  /\ OversizeCameras \subseteq 1 .. CameraCount
ASSUME BoundsAssumption == MaxShots \in Nat /\ MaxLost \in Nat

\* Camera i is the i-th of session_devices_ordered_, from left to right.
Cameras == 1 .. CameraCount

\* Numeric values of reply.status.code in the source.
CodeOk == 0
CodeInvalidSession == 3
CodeInProgress == 10
CodeSerialFailed == 13
CodeTimeout == 14
CodeNoPublication == 17
CodeOrchestratorInitFailed == 1006
CodeSessionNotEstablished == 1011

VARIABLES
  runtime,        \* hub_runtime_: "Ready" or "SessionNotEstablished"
  session,        \* session_id_ is not empty (its value is always the first camera's id)
  has_orchestrator, \* orchestrator_ or multi_orchestrator_ is set
  streaming,      \* cameras with a registered result callback and a running grab
  awaiting,       \* awaiting_frame_
  awaiting_id,    \* awaiting_client_capture_id_
  awaiting_rec,   \* awaiting_with_rec_
  pending,        \* pending_camera_bursts_, one sequence of frames per camera
  shm_error,      \* last_capture_shm_error_ is not empty
  publications,   \* publications_, a function on the published capture ids
  finish_lru,     \* finish_lru_
  latest_id,      \* latest_client_capture_id_
  auto_capture,   \* k_auto_capture
  ring,           \* the slots of shm_
  cursor,         \* s_next of the callback thread of each camera
  writing,        \* OnCameraFrame between the burst being complete and its return
  call,           \* per client: the synchronous Capture waiting on frame_cv_
  holds_session,  \* clients that were given the session id
  line,           \* per camera: frames produced and not yet delivered
  in_callback,    \* per camera: the frame whose callback waits for mu_
  reply,          \* the reply sent in the step just taken; its `shot` is set when a
                  \* synchronous capture that waited returns
  shot,           \* history: production commands that triggered the projector
  awaiting_shot,  \* history: the command sent for the capture in progress
  used_ids,       \* history: capture ids that were accepted
  lost            \* history: frames lost

hubVars == <<runtime, session, has_orchestrator, streaming, auto_capture>>
awaitVars == <<awaiting, awaiting_id, awaiting_rec, awaiting_shot>>
pubVars == <<publications, finish_lru, latest_id>>
ringVars == <<ring, cursor, writing>>
clientVars == <<call, holds_session>>
cameraVars == <<line, in_callback, lost>>
vars == <<hubVars, awaitVars, pending, shm_error, pubVars, ringVars,
          clientVars, cameraVars, reply, shot, used_ids>>

-----------------------------------------------------------------------------
\* Local values.

\* A frame remembers which command triggered it and its place in the burst.
Frame == [camera : Cameras, shot : Nat, index : Nat]
NoFrame == [camera |-> 0, shot |-> 0, index |-> 0]

NotWaiting == [id |-> 0, shot |-> 0]
NoReply == [client |-> "none", code |-> 0, id |-> 0, shot |-> 0]

\* A slot reference of CapturePublication: slot, seq and (history) what was written there.
NoRef == [slot |-> 0, seq |-> 0, data |-> NoFrame]
NoPublications == [id \in {} |-> NoRef]

\* OnCameraFrame between bursts_snapshot and RememberPublicationLocked: the snapshot, the
\* position of the next raw write in it, and the references collected so far.
NotWriting == [active |-> FALSE, thread |-> 0, id |-> 0, shot |-> 0, rec |-> FALSE,
               camera |-> 0, index |-> 0, burst |-> <<>>, refs |-> <<>>, final |-> NoRef]

MuFree == ~writing.active
NoPending == [k \in Cameras |-> <<>>]
InFlight == \E k \in Cameras : line[k] # <<>> \/ in_callback[k] # NoFrame
Quiet == PromptCameras => ~InFlight

Answer(c, code, id, n) == reply' = [client |-> c, code |-> code, id |-> id, shot |-> n]
Silent == reply' = NoReply

Init ==
  /\ runtime = "Ready"
  /\ session = TRUE
  /\ has_orchestrator = TRUE
  /\ streaming = Cameras
  /\ awaiting = FALSE /\ awaiting_id = 0 /\ awaiting_rec = FALSE /\ awaiting_shot = 0
  /\ pending = NoPending
  /\ shm_error = FALSE
  /\ publications = NoPublications
  /\ finish_lru = <<>>
  /\ latest_id = 0
  /\ auto_capture = 1
  /\ ring = CreatedRing
  /\ cursor = [k \in Cameras |-> 0]
  /\ writing = NotWriting
  /\ call = [c \in Clients |-> NotWaiting]
  /\ holds_session = {}
  /\ line = [k \in Cameras |-> <<>>]
  /\ in_callback = [k \in Cameras |-> NoFrame]
  /\ reply = NoReply
  /\ shot = 0
  /\ used_ids = {}
  /\ lost = 0

-----------------------------------------------------------------------------
\* Connect and Disconnect.

\* RestoreActiveSessionLocked sets session_id_ before PrepareHardwareTriggerLocked can fail.
\* Preparing stops at the first camera that refuses SetTriggerMode or StartStreamGrab:
\* the cameras before it stream, itself and those after it do not.
RestoreActiveSession(ok) ==
  /\ session' = TRUE
  /\ has_orchestrator' = ok
  /\ IF ok THEN streaming' = Cameras
           ELSE \E k \in Cameras : streaming' = (1 .. k - 1) \union (streaming \ (1 .. k))

NeedsRestore == runtime = "SessionNotEstablished" \/ ~session

\* Connect: restore the orchestration if the session was torn down, and hand out session_id_.
Connect(c) ==
  /\ MuFree
  /\ call[c] = NotWaiting
  /\ \/ /\ NeedsRestore
        /\ \/ /\ RestoreActiveSession(TRUE)
              /\ runtime' = "Ready"
              /\ holds_session' = holds_session \union {c}
              /\ Answer(c, CodeOk, 0, 0)
           \/ /\ RestoreActiveSession(FALSE)
              /\ UNCHANGED runtime
              /\ holds_session' = holds_session \ {c}
              /\ Answer(c, CodeOrchestratorInitFailed, 0, 0)
     \/ /\ ~NeedsRestore
        /\ holds_session' = holds_session \union {c}
        /\ Answer(c, CodeOk, 0, 0)
        /\ UNCHANGED <<runtime, session, has_orchestrator, streaming>>
  /\ UNCHANGED <<auto_capture, awaitVars, pending, shm_error, pubVars, ringVars, call,
                 cameraVars, shot, used_ids>>

\* Mutant of TeardownSession: the capture in progress is left armed.
TeardownKeepsAwaiting ==
  /\ runtime' = "SessionNotEstablished"
  /\ session' = FALSE
  /\ has_orchestrator' = FALSE
  /\ streaming' = {}
  /\ pending' = NoPending
  /\ publications' = NoPublications
  /\ finish_lru' = <<>>
  /\ latest_id' = 0
  /\ UNCHANGED awaitVars

\* TeardownSessionLocked: callbacks, orchestrators, publications and the capture in
\* progress are dropped; waiting handlers are not notified.
TeardownSession ==
  /\ runtime' = "SessionNotEstablished"
  /\ session' = FALSE
  /\ has_orchestrator' = FALSE
  /\ streaming' = {}
  /\ pending' = NoPending
  /\ publications' = NoPublications
  /\ finish_lru' = <<>>
  /\ latest_id' = 0
  /\ awaiting' = FALSE
  /\ awaiting_id' = 0
  /\ awaiting_shot' = 0
  /\ UNCHANGED awaiting_rec

\* Disconnect: tears the session down for everybody if the caller names the session id.
Disconnect(c) ==
  /\ MayDisconnect
  /\ MuFree
  /\ call[c] = NotWaiting
  /\ c \in holds_session
  /\ IF session THEN TeardownSession
                ELSE UNCHANGED <<runtime, session, has_orchestrator, streaming, pending,
                                 pubVars, awaitVars>>
  /\ holds_session' = holds_session \ {c}
  /\ Answer(c, CodeOk, 0, 0)
  /\ UNCHANGED <<auto_capture, shm_error, ringVars, call, cameraVars, shot, used_ids>>

-----------------------------------------------------------------------------
\* Capture.

\* client_capture_id 0 takes the next automatic id, before the capture is admitted.
CaptureId(req) == IF req = 0 THEN auto_capture ELSE req
NextAuto(req) == IF req = 0 THEN auto_capture + 1 ELSE auto_capture

\* The ids a client may send: any, unless uniqueness is assumed; automatic ids are bounded.
MayRequest(req) ==
  /\ UniqueIds => req \notin used_ids \union {0}
  /\ req = 0 => auto_capture <= MaxShots

\* The frames one more production command makes the cameras produce.
TriggeredLine ==
  [k \in Cameras |->
     line[k] \o [i \in 1 .. FramesPerTrigger |-> [camera |-> k, shot |-> shot + 1, index |-> i]]]

\* Refused by the runtime gate, or because the request does not carry session_id_.
CaptureRefused(c) ==
  /\ MuFree
  /\ call[c] = NotWaiting
  /\ \/ /\ runtime # "Ready"
        /\ Answer(c, CodeSessionNotEstablished, 0, 0)
     \/ /\ runtime = "Ready"
        /\ ~(session /\ c \in holds_session)
        /\ Answer(c, CodeInvalidSession, 0, 0)
  /\ UNCHANGED <<hubVars, awaitVars, pending, shm_error, pubVars, ringVars, clientVars,
                 cameraVars, shot, used_ids>>

Admitted(c) == MuFree /\ call[c] = NotWaiting /\ runtime = "Ready" /\ session /\ c \in holds_session

\* A capture is already waiting for its frames.
CaptureInProgress(c, req) ==
  /\ Admitted(c)
  /\ MayRequest(req)
  /\ awaiting
  /\ auto_capture' = NextAuto(req)
  /\ Answer(c, CodeInProgress, 0, 0)
  /\ UNCHANGED <<runtime, session, has_orchestrator, streaming, awaitVars, pending, shm_error,
                 pubVars, ringVars, clientVars, cameraVars, shot, used_ids>>

\* The serial handshake fails and the capture is rolled back; the projector may have
\* received the command all the same (only its answer is missing).
CaptureSerialFailed(c, req, rec) ==
  /\ Admitted(c)
  /\ SerialMayFail
  /\ MayRequest(req)
  /\ ~awaiting
  /\ pending' = NoPending
  /\ shm_error' = FALSE
  /\ awaiting_rec' = rec
  /\ awaiting_id' = 0
  /\ UNCHANGED <<awaiting, awaiting_shot>>
  /\ auto_capture' = NextAuto(req)
  /\ used_ids' = used_ids \union {CaptureId(req)}
  /\ \/ UNCHANGED <<line, shot>>
     \/ /\ shot < MaxShots
        /\ Quiet
        /\ line' = TriggeredLine
        /\ shot' = shot + 1
  /\ Answer(c, CodeSerialFailed, CaptureId(req), 0)
  /\ UNCHANGED <<runtime, session, has_orchestrator, streaming, pubVars, ringVars, clientVars,
                 in_callback, lost>>

\* Mutant of CaptureStarted: a capture in progress is overridden.
CaptureStartedAnyway(c, req, async, rec) ==
  /\ Admitted(c)
  /\ MayRequest(req)
  /\ shot < MaxShots
  /\ pending' = NoPending
  /\ shm_error' = FALSE
  /\ awaiting' = TRUE
  /\ awaiting_id' = CaptureId(req)
  /\ awaiting_rec' = rec
  /\ awaiting_shot' = shot + 1
  /\ auto_capture' = NextAuto(req)
  /\ used_ids' = used_ids \union {CaptureId(req)}
  /\ line' = TriggeredLine
  /\ shot' = shot + 1
  /\ Answer(c, CodeOk, CaptureId(req), 0)
  /\ UNCHANGED <<runtime, session, has_orchestrator, streaming, pubVars, ringVars, clientVars,
                 in_callback, lost>>

\* The command was acknowledged: an asynchronous call returns, a synchronous one waits.
CaptureStarted(c, req, async, rec) ==
  /\ Admitted(c)
  /\ MayRequest(req)
  /\ ~awaiting
  /\ shot < MaxShots
  /\ Quiet
  /\ pending' = NoPending
  /\ shm_error' = FALSE
  /\ awaiting' = TRUE
  /\ awaiting_id' = CaptureId(req)
  /\ awaiting_rec' = rec
  /\ awaiting_shot' = shot + 1
  /\ auto_capture' = NextAuto(req)
  /\ used_ids' = used_ids \union {CaptureId(req)}
  /\ line' = TriggeredLine
  /\ shot' = shot + 1
  /\ IF async
     THEN Answer(c, CodeOk, CaptureId(req), 0) /\ UNCHANGED call
     ELSE call' = [call EXCEPT ![c] = [id |-> CaptureId(req), shot |-> shot + 1]] /\ Silent
  /\ UNCHANGED <<runtime, session, has_orchestrator, streaming, pubVars, ringVars,
                 holds_session, in_callback, lost>>

\* Mutant of SyncFinished: success is reported without looking for the publication.
SyncFinishedUnchecked(c) ==
  /\ MuFree
  /\ call[c] # NotWaiting
  /\ ~awaiting
  /\ Answer(c, CodeOk, call[c].id, call[c].shot)
  /\ call' = [call EXCEPT ![c] = NotWaiting]
  /\ UNCHANGED <<hubVars, awaitVars, pending, shm_error, pubVars, ringVars, holds_session,
                 cameraVars, shot, used_ids>>

\* The waiting handler finds awaiting_frame_ false: its capture is over, or so it believes.
SyncFinished(c) ==
  /\ MuFree
  /\ call[c] # NotWaiting
  /\ ~awaiting
  /\ IF call[c].id \in DOMAIN publications
     THEN Answer(c, CodeOk, call[c].id, call[c].shot) /\ UNCHANGED shm_error
     ELSE Answer(c, CodeNoPublication, call[c].id, call[c].shot) /\ shm_error' = FALSE
  /\ call' = [call EXCEPT ![c] = NotWaiting]
  /\ UNCHANGED <<hubVars, awaitVars, pending, pubVars, ringVars, holds_session, cameraVars,
                 shot, used_ids>>

\* Mutant of SyncTimedOut: no deadline, the handler waits for the frames alone.
SyncNeverTimesOut(c) ==
  /\ FALSE
  /\ call[c] # NotWaiting
  /\ UNCHANGED vars

\* Mutant of SyncTimedOut: awaiting_frame_ is not looked at again after the deadline.
SyncTimedOutUnchecked(c) ==
  /\ MuFree
  /\ call[c] # NotWaiting
  /\ Quiet
  /\ awaiting' = FALSE
  /\ awaiting_id' = 0
  /\ awaiting_shot' = 0
  /\ pending' = NoPending
  /\ Answer(c, CodeTimeout, call[c].id, call[c].shot)
  /\ call' = [call EXCEPT ![c] = NotWaiting]
  /\ UNCHANGED <<hubVars, awaiting_rec, shm_error, pubVars, ringVars, holds_session,
                 cameraVars, shot, used_ids>>

\* The 15 s deadline passes with awaiting_frame_ still (or again) true.
SyncTimedOut(c) ==
  /\ MuFree
  /\ call[c] # NotWaiting
  /\ awaiting
  /\ Quiet
  /\ awaiting' = FALSE
  /\ awaiting_id' = 0
  /\ awaiting_shot' = 0
  /\ pending' = NoPending
  /\ Answer(c, CodeTimeout, call[c].id, call[c].shot)
  /\ call' = [call EXCEPT ![c] = NotWaiting]
  /\ UNCHANGED <<hubVars, awaiting_rec, shm_error, pubVars, ringVars, holds_session,
                 cameraVars, shot, used_ids>>

SyncReturn(c) == SyncFinished(c) \/ SyncTimedOut(c)

-----------------------------------------------------------------------------
\* Cameras: delivery of frames to OnCameraFrame.

\* OnGalaxyCaptured copies the callback and calls it: from here on the call reaches the hub
\* even if the callback is cleared meanwhile.  Without a callback the frame is discarded.
Deliver(k) ==
  /\ line[k] # <<>>
  /\ in_callback[k] = NoFrame
  /\ line' = [line EXCEPT ![k] = Tail(@)]
  /\ in_callback' = [in_callback EXCEPT ![k] = IF k \in streaming THEN Head(line[k]) ELSE @]
  /\ Silent
  /\ UNCHANGED <<hubVars, awaitVars, pending, shm_error, pubVars, ringVars, clientVars, lost,
                 shot, used_ids>>

\* The frame is not grabbed, or grabbed with an error status (`!r->success`).
LoseFrame(k) ==
  /\ line[k] # <<>>
  /\ lost < MaxLost
  /\ line' = [line EXCEPT ![k] = Tail(@)]
  /\ lost' = lost + 1
  /\ Silent
  /\ UNCHANGED <<hubVars, awaitVars, pending, shm_error, pubVars, ringVars, clientVars,
                 in_callback, shot, used_ids>>

CallbackReturns(k) == in_callback' = [in_callback EXCEPT ![k] = NoFrame]

\* Mutant of BurstComplete: one frame more than the trigger produces is waited for.
BurstCompleteOffByOne(bursts) == \A k \in Cameras : Len(bursts[k]) > FramesPerTrigger

\* Every camera of the session has a full burst.
BurstComplete(bursts) == \A k \in Cameras : Len(bursts[k]) >= FramesPerTrigger

Collected(k) == [pending EXCEPT ![k] = Append(@, in_callback[k])]

\* No capture in progress: the frame is dropped.
FrameDropped(k) ==
  /\ MuFree
  /\ in_callback[k] # NoFrame
  /\ ~awaiting
  /\ CallbackReturns(k)
  /\ Silent
  /\ UNCHANGED <<hubVars, awaitVars, pending, shm_error, pubVars, ringVars, clientVars, line,
                 lost, shot, used_ids>>

\* The frame is kept, some camera still lacks frames.
FrameCollected(k) ==
  /\ MuFree
  /\ in_callback[k] # NoFrame
  /\ awaiting
  /\ ~BurstComplete(Collected(k))
  /\ pending' = Collected(k)
  /\ CallbackReturns(k)
  /\ Silent
  /\ UNCHANGED <<hubVars, awaitVars, shm_error, pubVars, ringVars, clientVars, line, lost,
                 shot, used_ids>>

\* The frame completes the bursts: the capture is disarmed and the callback, still holding
\* mu_, starts to copy the first FramesPerTrigger frames of every camera to the ring.
BurstTaken(k) ==
  /\ MuFree
  /\ in_callback[k] # NoFrame
  /\ awaiting
  /\ BurstComplete(Collected(k))
  /\ writing' = [active |-> TRUE, thread |-> k, id |-> awaiting_id, shot |-> awaiting_shot,
                 rec |-> awaiting_rec, camera |-> 1, index |-> 1,
                 burst |-> [j \in Cameras |-> SubSeq(Collected(k)[j], 1, FramesPerTrigger)],
                 refs |-> <<>>, final |-> NoRef]
  /\ pending' = [j \in Cameras |->
                   SubSeq(Collected(k)[j], FramesPerTrigger + 1, Len(Collected(k)[j]))]
  /\ awaiting' = FALSE
  /\ awaiting_id' = 0
  /\ awaiting_shot' = 0
  /\ Silent
  /\ UNCHANGED <<hubVars, awaiting_rec, shm_error, pubVars, ring, cursor, clientVars, cameraVars,
                 shot, used_ids>>

-----------------------------------------------------------------------------
\* WriteMultiCaptureToShmLocked, one TryWriteNextSlot at a time, and RememberPublication.

WriterCursor == cursor[writing.thread]
AdvanceCursor == cursor' = [cursor EXCEPT ![writing.thread] = NextCursor(@)]

\* The reference kept for a payload written at the cursor.
RefOf(payload) ==
  [slot |-> WriterCursor, seq |-> ring[WriterCursor].seq + 1, data |-> payload]

WritingRaw == writing.active /\ writing.camera <= CameraCount
WritingFinal == writing.active /\ writing.camera > CameraCount /\ writing.rec /\ writing.final = NoRef
WritingDone == writing.active /\ writing.camera > CameraCount /\ (writing.rec => writing.final # NoRef)

\* Mutant of NextPayload: every write of a camera copies its first frame.
FirstPayload == writing.burst[writing.camera][1]

\* Camera by camera, frame by frame.
NextPayload == writing.burst[writing.camera][writing.index]

WriteRaw ==
  /\ WritingRaw
  /\ LET payload == NextPayload
     IN /\ ring' = TryWriteNextSlot(ring, WriterCursor, payload)
        /\ writing' = [writing EXCEPT
             !.refs = Append(@, RefOf(payload)),
             !.index = IF @ < FramesPerTrigger THEN @ + 1 ELSE 1,
             !.camera = IF writing.index < FramesPerTrigger THEN @ ELSE @ + 1]
  /\ AdvanceCursor
  /\ Silent
  /\ UNCHANGED <<hubVars, awaitVars, pending, shm_error, pubVars, clientVars, cameraVars, shot,
                 used_ids>>

\* Mutant of WriteFails: the reason is not kept for the waiting handler.
WriteFailsSilently ==
  /\ WritingRaw
  /\ writing.camera \in OversizeCameras
  /\ writing' = NotWriting
  /\ AdvanceCursor
  /\ CallbackReturns(writing.thread)
  /\ Silent
  /\ UNCHANGED <<hubVars, awaitVars, pending, shm_error, pubVars, ring, clientVars, line, lost,
                 shot, used_ids>>

\* The payload does not fit: the cursor has moved already, the capture ends unpublished.  (The
\* header read back after a write that succeeded is there: mu_ is held, and a frame has bytes.)
WriteFails ==
  /\ WritingRaw
  /\ writing.camera \in OversizeCameras
  /\ shm_error' = TRUE
  /\ writing' = NotWriting
  /\ AdvanceCursor
  /\ CallbackReturns(writing.thread)
  /\ Silent
  /\ UNCHANGED <<hubVars, awaitVars, pending, pubVars, ring, clientVars, line, lost, shot,
                 used_ids>>

\* with_reconstruction_pipeline: the first frame again, as a placeholder of the result.
WriteFinal ==
  /\ WritingFinal
  /\ LET payload == writing.burst[1][1]
     IN /\ ring' = TryWriteNextSlot(ring, WriterCursor, payload)
        /\ writing' = [writing EXCEPT !.final = RefOf(payload)]
  /\ AdvanceCursor
  /\ Silent
  /\ UNCHANGED <<hubVars, awaitVars, pending, shm_error, pubVars, clientVars, cameraVars, shot,
                 used_ids>>

\* Mutant of RememberPublication: nothing is ever evicted.
RememberWithoutEviction(id, pub) ==
  /\ latest_id' = id
  /\ finish_lru' = Append(finish_lru, id)
  /\ publications' = [i \in DOMAIN publications \union {id} |->
                       IF i = id THEN pub ELSE publications[i]]

\* Mutant of RememberPublication: the LRU list is trimmed, the publication stays.
RememberWithoutErase(id, pub) ==
  /\ latest_id' = id
  /\ finish_lru' = IF Len(finish_lru) < MaxPublications
                   THEN Append(finish_lru, id) ELSE Append(Tail(finish_lru), id)
  /\ publications' = [i \in DOMAIN publications \union {id} |->
                       IF i = id THEN pub ELSE publications[i]]

\* RememberPublicationLocked: store, append to the LRU list, evict the oldest entry.
RememberPublication(id, pub) ==
  LET stored == [i \in DOMAIN publications \union {id} |->
                   IF i = id THEN pub ELSE publications[i]]
      lru == Append(finish_lru, id)
  IN /\ latest_id' = id
     /\ IF Len(lru) > MaxPublications
        THEN /\ finish_lru' = Tail(lru)
             /\ publications' = [i \in DOMAIN stored \ {Head(lru)} |-> stored[i]]
        ELSE finish_lru' = lru /\ publications' = stored

PublishBurst ==
  /\ WritingDone
  /\ RememberPublication(writing.id,
                         [shot |-> writing.shot, refs |-> writing.refs, final |-> writing.final])
  /\ shm_error' = FALSE
  /\ writing' = NotWriting
  /\ CallbackReturns(writing.thread)
  /\ Silent
  /\ UNCHANGED <<hubVars, awaitVars, pending, ring, cursor, clientVars, line, lost, shot, used_ids>>

OnCameraFrame(k) == FrameDropped(k) \/ FrameCollected(k) \/ BurstTaken(k)
FinishBurst == WriteRaw \/ WriteFails \/ WriteFinal \/ PublishBurst

-----------------------------------------------------------------------------
\* GetDepth changes nothing; it answers with what was recorded at the publication.

\* FillShmRef and FillShmRefFromRawSlot report the recorded seq beside the current header of
\* the slot: the reference is sound only while the slot still holds what was written.
Sound(ref) == ring[ref.slot].seq = ref.seq

Next ==
  \/ \E c \in Clients :
       \/ Connect(c)
       \/ Disconnect(c)
       \/ CaptureRefused(c)
       \/ \E req \in CaptureIds : CaptureInProgress(c, req)
       \/ \E req \in CaptureIds, rec \in RecModes : CaptureSerialFailed(c, req, rec)
       \/ \E req \in CaptureIds, async \in AsyncModes, rec \in RecModes :
            CaptureStarted(c, req, async, rec)
       \/ SyncReturn(c)
  \/ \E k \in Cameras : Deliver(k) \/ LoseFrame(k) \/ OnCameraFrame(k)
  \/ FinishBurst

Spec == Init /\ [][Next]_vars

\* What the scheduling justifies: the deadline of a waiting handler passes and the handler
\* wakes every 200 ms; the camera SDK delivers what it has grabbed; a callback gets mu_.
Fairness ==
  /\ \A c \in Clients : WF_vars(SyncReturn(c))
  /\ \A k \in Cameras : WF_vars(Deliver(k)) /\ WF_vars(OnCameraFrame(k))
  /\ WF_vars(FinishBurst)

FairSpec == Spec /\ Fairness

-----------------------------------------------------------------------------
\* Properties.

Ref == [slot : Slots, seq : Nat, data : Frame \union {NoFrame}]
Publication == [shot : Nat, refs : Seq(Ref), final : Ref]
Reply == [client : Clients \union {"none"}, code : Nat, id : Nat, shot : Nat]

HubTypeOK ==
  /\ runtime \in {"Ready", "SessionNotEstablished"}
  /\ session \in BOOLEAN
  /\ has_orchestrator \in BOOLEAN
  /\ streaming \subseteq Cameras
  /\ auto_capture \in Nat

CaptureTypeOK ==
  /\ awaiting \in BOOLEAN
  /\ awaiting_id \in Nat
  /\ awaiting_rec \in BOOLEAN
  /\ awaiting_shot \in Nat
  /\ pending \in [Cameras -> Seq(Frame)]
  /\ shm_error \in BOOLEAN

TableTypeOK ==
  /\ DOMAIN publications \subseteq Nat
  /\ publications \in [DOMAIN publications -> Publication]
  /\ finish_lru \in Seq(Nat)
  /\ Len(finish_lru) <= MaxPublications
  /\ latest_id \in Nat

RingTypeOK ==
  /\ ring \in [Slots -> [seq : Nat, data : Frame \union {NoPayload}]]
  /\ cursor \in [Cameras -> Slots]

WritingTypeOK ==
  /\ writing.active \in BOOLEAN
  /\ writing.active =>
       /\ writing \in [active : {TRUE}, thread : Cameras, id : Nat, shot : Nat, rec : BOOLEAN,
                      camera : 1 .. CameraCount + 1, index : 1 .. FramesPerTrigger,
                      burst : [Cameras -> Seq(Frame)], refs : Seq(Ref), final : Ref]
       /\ \A k \in Cameras : Len(writing.burst[k]) = FramesPerTrigger

ClientTypeOK ==
  /\ call \in [Clients -> [id : Nat, shot : Nat]]
  /\ holds_session \subseteq Clients
  /\ reply \in Reply
  /\ used_ids \subseteq Nat

CameraTypeOK ==
  /\ line \in [Cameras -> Seq(Frame)]
  /\ in_callback \in [Cameras -> Frame \union {NoFrame}]
  /\ shot \in Nat
  /\ lost \in Nat

\* Every variable has its type; the LRU list stays within kMaxPublications.
TypeOK ==
  /\ HubTypeOK
  /\ CaptureTypeOK
  /\ TableTypeOK
  /\ RingTypeOK
  /\ WritingTypeOK
  /\ ClientTypeOK
  /\ CameraTypeOK

\* A capture in progress can be completed and answered: it belongs to the open session, the
\* orchestrator exists and every camera streams.  Sessions are shared by all clients, and a
\* failed Connect leaves session_id_ set without an orchestrator.
ArmedIsServiceable ==
  awaiting => session /\ runtime = "Ready" /\ has_orchestrator /\ streaming = Cameras

\* A full set of bursts never waits in pending_camera_bursts_ for a frame that is not needed.
NoCompleteBurstWaits ==
  awaiting => \E k \in Cameras : Len(pending[k]) < FramesPerTrigger

\* The parts of the hub's state that change together, on which the proofs rest: the session
\* is complete whenever the hub says Ready; a closed hub is idle and has nothing published; a
\* capture that waits for frames and a burst being written exclude each other; ids are never 0.
ReadyIsComplete == runtime = "Ready" => session /\ has_orchestrator /\ streaming = Cameras
ClosedIsIdle == runtime # "Ready" => ~awaiting /\ ~writing.active /\ DOMAIN publications = {}
OneCapture == ~(awaiting /\ writing.active)
IdsNotZero ==
  /\ auto_capture # 0
  /\ awaiting => awaiting_id # 0
  /\ writing.active => writing.id # 0

SessionInv ==
  /\ ReadyIsComplete
  /\ ClosedIsIdle
  /\ OneCapture
  /\ IdsNotZero
  /\ NoCompleteBurstWaits

\* seq tells whether a slot was overwritten since a publication (README_hub_recon_grpc_shm.md
\* 4.2): equal seq means equal content, with one write cursor per callback thread.
SeqIdentifiesPayload ==
  \A id \in DOMAIN publications :
    \A i \in DOMAIN publications[id].refs :
      LET ref == publications[id].refs[i]
      IN Sound(ref) => ring[ref.slot].data = ref.data

\* The invariant behind it: no slot is behind a reference taken from it, and it holds what was written as long as
\* it has not moved on.  That is true from the moment the reference is taken.
Matches(slots, ref) ==
  /\ ref.seq <= slots[ref.slot].seq
  /\ ref.seq = slots[ref.slot].seq => slots[ref.slot].data = ref.data

AllMatch(slots, refs) == \A i \in DOMAIN refs : Matches(slots, refs[i])

RefsInv ==
  /\ \A id \in DOMAIN publications : AllMatch(ring, publications[id].refs)
  /\ writing.active => AllMatch(ring, writing.refs)

\* While nobody writes, the slots of the latest publication still hold its frames, whichever
\* callback threads wrote the bursts before it.
LatestIntact ==
  MuFree /\ latest_id \in DOMAIN publications =>
    \A i \in DOMAIN publications[latest_id].refs :
      Sound(publications[latest_id].refs[i])

\* A publication is the burst of its own capture: all frames of every camera, each once, in
\* order, all triggered by the command sent for it.
BurstIsOwn ==
  \A id \in DOMAIN publications :
    /\ Len(publications[id].refs) = CameraCount * FramesPerTrigger
    /\ \A k \in Cameras, i \in 1 .. FramesPerTrigger :
         publications[id].refs[(k - 1) * FramesPerTrigger + i].data =
           [camera |-> k, shot |-> publications[id].shot, index |-> i]

\* With unique ids the LRU list names exactly the publications, each once: eviction removes
\* the oldest and nothing else, and the latest one can be asked for with id 0.
LruExact ==
  /\ DOMAIN publications = {finish_lru[i] : i \in DOMAIN finish_lru}
  /\ Cardinality(DOMAIN publications) = Len(finish_lru)
  /\ latest_id # 0 => latest_id \in DOMAIN publications

\* A synchronous capture that returns 0 left the burst it triggered under the id it returns.
SyncOkIsOwnBurst ==
  reply.code = CodeOk /\ reply.shot # 0 =>
    reply.id \in DOMAIN publications /\ publications[reply.id].shot = reply.shot

\* "capture timeout waiting for hardware frame" is not said of a burst that was published.
TimeoutMeansNoFrames ==
  reply.code = CodeTimeout =>
    \A id \in DOMAIN publications : publications[id].shot # reply.shot

\* The hub as CaptureGate sees it: open while captures are admitted, busy from the accepted
\* command to the end of the callback that writes the burst.
CurrentCapture == IF awaiting THEN awaiting_id ELSE IF writing.active THEN writing.id ELSE 0

Gate == INSTANCE CaptureGate WITH
  open <- runtime = "Ready",
  current <- CurrentCapture,
  results <- DOMAIN publications

\* The hub implements CaptureGate: one capture at a time, results only under the id of the
\* capture taken (Capture, OnCameraFrame), all of them forgotten by TeardownSessionLocked.
GateSpec == Gate!Spec

\* A synchronous Capture returns: it waits at most 15 s, however the session changes and
\* whoever else captures meanwhile.
SyncCaptureReturns ==
  \A c \in Clients : call[c] # NotWaiting ~> call[c] = NotWaiting

\* With nobody disconnecting, every accepted capture is published, synchronous or not,
\* unless a frame was lost or did not fit the ring.
AcceptedCaptureIsPublished ==
  \A id \in CaptureIds :
    awaiting /\ awaiting_id = id ~> id \in DOMAIN publications \/ shm_error \/ lost > 0

\* Code 17 without an error of the ring says "frames received but no SHM publication (internal
\* inconsistency)": the handler believes that this cannot happen.
NoInternalInconsistency ==
  [][reply'.code = CodeNoPublication => shm_error]_vars
=============================================================================
