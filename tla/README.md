# Verification of the 3D camera hub

TLA+ models of the camera hub, of the programs and libraries around it, the TLC
configurations that check them, and TLAPS proofs of what holds for every number of clients,
cameras, frames, slots and commands. Paths are relative to the repository's root; `hub`
stands for `services/hub_service/hub_app_grpc.cpp`, `viewer/` for
`tools/camera_viewer/scanner_viewer_src/`.

## 1. The system

A client (SDK, viewer, recon service, command line tools) talks gRPC to `hub_service`. A
`Capture` makes the hub send a production command over the serial line to the projector;
the projector flashes a pattern sequence and triggers the cameras in hardware; every
camera's vendor thread calls the hub back once per frame. When every camera has delivered its
burst, the callback thread that brought the last frame copies the burst to a shared memory
ring, slot by slot, and remembers the slots under the capture id. Clients ask `GetDepth` for
the slot references and read the pixels from the ring themselves.

| Component | State | Operations | Interacts with | Hard behaviour | What makes it correct |
|---|---|---|---|---|---|
| Hub sessions and captures (`hub` 144-1190) | runtime state, the one shared session, the awaited capture, bursts collected, publication table with LRU list | Connect, Disconnect, Capture (sync and async, test images), GetDepth, SetParameters, SetExposure, SetGain, GetParameters, OnCameraFrame | clients (gRPC threads), cameras (callback threads), ring, serial line; all under `mu_`, the sync wait on `frame_cv_` | several clients on one session, the wait that releases `mu_`, late or lost frames, deadline against late frames, failure in the middle of a restore, of a burst, of a parameter set | one capture at a time; a publication is the burst its command triggered; a reply tells what happened; every call returns |
| Shared memory ring (`libs/ipc_shmem`) | slots with header (seq_publish, offset, size), a `thread_local` write cursor | CreateOrOpen, TryWriteNextSlot, TryReadSlot, TryReadLatestSlot, MaxPublishedSeq | one writer process with several threads, reader processes, no lock across processes | cursors per thread, wrap-around, readers during a write, region replaced by a restart | seq tells whether a slot still holds what was referenced; a burst does not overwrite itself |
| Hub startup and serial monitor (`hub` 1223-1491, `hub_service_state.cpp`, `services/hub_service/main.cpp`) | startup stage, what was acquired, `hub_runtime_` | UnifiedStartupFromConfig, rollback, ReportStartupFailure, monitor tick, TryRecoverSerialQuick | configuration, cameras, serial port, region, TCP port | a failure at any stage, serial line lost later | nothing is left after a rollback; the state code tells the truth |
| Hub configuration (`hub_file_config.cpp`) | a value | load | startup | a line-oriented reader of JSON | defaults where a value is not seen |
| Serial line and projector protocol (`libs/serial_port`) | port handle, bytes in the input buffer | Open, Close, SendProductionCommand, SendSetCommand, ReadBytes | projector | late answers, timeouts, commands out of range, failing reads | an answer is read as the answer of its own command; every exchange ends |
| Camera manager and adapters (`libs/camera_driver`) | open devices, trigger mode, streaming, registered callback, settings | open, close, trigger mode, stream and async grabs, callbacks, settings | vendor SDK, hub and orchestrator callbacks | swallowed registration failures, order of registering and starting | a session that is ready receives frames; a stopped one does not |
| Capture orchestrators (`libs/capture_orchestrator`) | none between calls; a capture's locals | send only, callback captures | cameras, serial line | a callback over a stack frame, deadline against the last frame | no call after return; every capture returns |
| Recon burst watcher (`services/recon_service/recon_hub_burst_receiver.cpp`) | session, last saved capture id | poll loop | hub, ring | hub restart, session torn down, slots overwritten, a save that fails | saves what it asked for, once, and keeps doing so |
| Recon poller (`services/recon_service/main.cpp`) | last seen seq | poll loop | ring | seq per slot, laps | reaches the newest |
| Loopback test (`recon_shm_loopback_grpc.cpp`, `hub_shm_loopback_test.cpp`) | an echo ring | ProcessHubRaw, TestSaveReconEcho | hub, ring | check of seq, then use; reference used without `mu_` | saves and echoes the burst it was given |
| Camera SDK (`sdk/camera_sdk`) | channel, session id, last capture id, generator of ids | Connect, Disconnect, Capture, GetDepthFrame, ListDepthCameraRawFrames | hub | ids start from 1 in every process, stale session, broken calls | asks for its own captures |
| Viewer (`viewer/`) | adapter, its mapping of the region, capture tasks, stream thread, last frame, buttons and event queue | connect, disconnect, capture once, start, stop, choose the pattern, show | SDK, ring, Qt's threads | the adapter is replaced under running tasks; join against mutex | no use after replacement, a frame is the capture's own, the main thread responds |
| Discovery beacon, diagnostics, TIFF dump, user interface drawing, tools | little or none | - | - | input and output | - |

`PROJECT.json` has this list with the status of every component, under `hazards` the places
in the code that are hard to test with the properties about each, and under `map` the lines
every definition stands for.

## 2. Modules

| Module | What it is | Uses |
|---|---|---|
| `ShmRing` | the ring as a value: creation, one write, the cursor, the readers' lookups | |
| `HubCapture` | sessions and captures of the hub after startup | `ShmRing` |
| `CaptureGate` | abstract: what the hub promises about captures, without cameras, memory or threads | refined by `HubCapture` |
| `CameraDriver` | camera adapters as values, every adapter call as an operator on them | |
| `HubHost` | the hub process: configuration, startup, rollback, serial monitor, the RPCs that are no captures | `CameraDriver` |
| `HubStatus` | abstract: what a hub promises to those who connect to it | refined by `HubHost` |
| `SerialLine` | serial port, port manager and projector protocol, byte by byte with deadlines | |
| `CallbackCapture` | the orchestrators: sending only, and captures with a callback | `SerialLine`, `CameraDriver` |
| `ReconHub` | the hub as the reconstruction process sees it: restarts, and slots written in two steps | `ShmRing` |
| `ReconBurstWatcher` | the two readers of recon_service | `ReconHub` |
| `ReconLoopback` | the loopback test between hub and recon_service | `ReconHub` |
| `ReconService` | recon_service beside the hub, with and without the loopback test | the two above |
| `SdkClient` | the SDK of one process, and the hub and the ring as it sees them | `ShmRing` |
| `Viewer` | the viewer's threads, adapter, buttons and events | `SdkClient` |
| `MCHubCapture`, `MCHubHost`, `MCCallbackCapture`, `MCReconService`, `MCViewer` | instances for TLC: symmetry, configuration files, requests, commands, builds, tasks | |
| `HubCaptureProofs`, `HubBurstProofs`, `HubHostProofs`, `CallbackCaptureProofs`, `ReconServiceProofs`, `ViewerProofs`, with lemmas in `CameraDriverProofs` and `SerialLineProofs` | theorems (section 6) | |

### HubCapture

State: the variables carry the members' names without the trailing underscore (`awaiting`
is `awaiting_frame_`, `pending` is `pending_camera_bursts_`; `publications`, `finish_lru`,
`latest_id`, `auto_capture`). `session` is whether `session_id_` is set: it is always the first
camera's id, so a client that was given it once holds it until it disconnects, also across a
session torn down and restored by others. `streaming` is the set of cameras with a registered
callback and a running grab. `call[c]` is the local state of a synchronous Capture in its wait
loop. `line[k]` are camera k's frames on their way, `in_callback[k]` the frame whose callback
waits for `mu_`. `shot`, `awaiting_shot`, `used_ids`, `lost` and the `shot` and `data` fields of
values are history: nothing the code decides depends on them.

Steps: a handler holds `mu_` from entry to return, so it is one action; a handler with several
outcomes is one action per outcome (`CaptureRefused`, `CaptureInProgress`,
`CaptureSerialFailed`, `CaptureStarted`). A synchronous Capture releases `mu_` in
`frame_cv_.wait_for`: `CaptureStarted` is the part before the wait, `SyncFinished` and
`SyncTimedOut` the part after. The wait wakes every 200 ms without being notified, so a
notification only shortens it and is not modelled. `OnCameraFrame` drops the frame, collects
it, or takes the burst; then the copy goes slot by slot (`WriteRaw`, `WriteFinal`, `WriteFails`,
`PublishBurst`), because other processes see the ring between two slots, while `MuFree` keeps
every other handler out.

Around the code: a production command makes every camera produce `FramesPerTrigger` frames,
which arrive in order per camera, in any order across cameras, at any later time, or are lost.
A failed serial exchange may or may not have triggered the projector. A restore may fail at
any camera. Frames of a camera may exceed a slot (`OversizeCameras`). A client that stops calling
is a client that died; a new process is another element of `Clients`.

### HubHost and CameraDriver

`pc` is where `RunHubApp` is: configuration, cameras, ring, trigger, listening, serving, exited.
Each startup stage is an action, a failing stage rolls back in the same action, as the code
does. Each RPC is one action under `mu_`. `fault` names the camera and the call into the vendor's
SDK that fails in an action (or `NoFault`); the operators of `CameraDriver` take it and return
[ok, adapter]. What the vendor's SDK knows is kept beside what the adapter believes (`attached`
beside `registered`, `source` beside `mode`), because failures make them differ. `cameras` is the
manager's table, `ordered` the session's list, `accepted` and `torn` are history: the last
acknowledged value of each feature and the features a camera has refused since. The serial adapter
may be unplugged and plugged in (`handle` "stale"); region and TCP port may be refused.

### SerialLine and CallbackCapture

The input buffer is a sequence of bytes; of a byte the model keeps its place in the frame and,
for the last one, the frame's kind and payload, which is what `MatchAckSend` and
`MatchAckFinish` look at; `n`, the command it answers, is history. An exchange writes its command and
reads chunks of any size until it has matched what it waits for or its deadline passes; the
deadline may pass at any read. `CallbackCapture` puts the adapter of one camera beside it. The
capture's `fire` is where `RunCallbackCapture` is; `lambda` and `calling` say whether the adapter
holds, and the vendor's thread is calling, the lambda of the capture in progress ("own") or of one
that returned ("old"); `stray` says that an "old" one was called.

### ReconHub, ReconBurstWatcher, ReconLoopback, ReconService

`ReconHub` splits the copy of a slot into payload and header (`Torn` is a payload that is being
copied) and has a ring per start of the hub: a reader keeps the memory it has mapped when a
restarted hub creates the name anew. Every thread that writes has a cursor of its own: a burst is
written by the callback thread of the camera that completed it (`CameraThreads`), a test image by the
gRPC thread that serves the call (`GrpcThreads`); either writes one more slot for a capture
`with_reconstruction_pipeline`. `w` is the watcher's state including the reply it works on,
`caller[t]` a hub thread in the loopback branch, `handler[h]` a `ProcessHubRaw` between check and
use of seq, `echoed` what the hub saved as echo. `writes` and the `mark` of a publication (its
thread, its slots, what everybody had written by then), `w.local.good`, `.replaced`,
`handler[h].sure` and `echoed.alone` are history, from which the properties state the conditions
under which a reader is right.

Every build of recon_service with gRPC runs the burst watcher and the poller
(`services/recon_service/CMakeLists.txt`), and every hub publishes test images that a client asks for, if its
own macro for them is on; `CAMERA3D_ENABLE_RECON_SHM_LOOPBACK_TEST` adds `ProcessHubRaw` and the
hub's calls of it. `setup.loopback` is that macro; the other fields of `setup` are bounds of the
exploration, with the readers whose threads get to run. The theorems hold for any set of setups, those
with everything running included.

### SdkClient and Viewer

`SdkClient` has one process's SDK object: an RPC is answered, refused, or broken, and a broken one
may have taken effect at the hub. A capture writes as many slots as it has frames, and the result, by
any of the hub's threads, each with its own cursor (`Lengths`, `Threads`); a publication keeps
all its slots, and the viewer reads any of them. `Viewer` puts the viewer's threads around it: `ui` is the handler
the main thread is in, `worker[w]` the state of a capture task or of the stream thread, `Holds`
and `Free` the adapter's `mutex_`. `adapter` is the one `DeviceController` owns, `held` whether
`AcquisitionController` points to it or to a destroyed one; a call on a destroyed adapter ends
the process or does nothing. `pending` counts posted frame events, `album` is what the raw image
page shows.

### Abstract specifications

`CaptureGate`: open or closed; at most one capture being taken; it ends published or given up; a
result appears only under the id of the capture being taken, and at most one older result makes
room for it; closing forgets everything. `HubCapture` maps `open` to "says Ready", `current` to the
awaited id or the id of the burst being written, `results` to the ids in the table.

`HubStatus`: starting, then ready, failed for good, or gone; a ready hub may be closed and
reopened; it always decides. `HubHost` maps `status` to what the replies say of `hub_runtime_`.

## 3. Runs

Distinct states in parentheses; every run ends by itself.

| Run | Question | Bounds and why they are enough |
|---|---|---|
| `hub_sessions` (946,774) | Can what is armed be completed, does seq identify slot contents, does the latest publication stay in the ring, does the hub implement CaptureGate, with everything going wrong at once? | 2 clients share the session; 2 cameras, hence 2 callback threads with cursors of their own; 3 commands and 3 slots, so that bursts of 2 slots wrap around over each other; a table of 2, so that eviction happens; automatic and reused ids; late frames, serial failures, failed restores |
| `hub_bursts` (1,410,350) | Is a publication the burst its own command triggered, and is the table exact? | bursts of 2 frames from 2 cameras and the result slot in 9 slots; 3 ids into a table of 2; one lost frame, timeouts, disconnects. Unique ids and prompt cameras: section 5 says what happens otherwise |
| `hub_one_client` (65,573) | With a single client, do codes 14 and 17 mean what they say, and is every accepted capture published unless a frame was lost or did not fit? | 3 ids, one lost frame, one camera with frames that may not fit, serial failures; fairness |
| `hub_liveness` (40,282) | Does every synchronous Capture return? | 2 clients, disconnects, a lost frame, frames arbitrarily late; fairness |
| `host` (7,972) | What does a failed startup leave, what can a ready hub do, what does an acknowledged setting mean, does the hub keep HubStatus? | ten configuration files (one and two cameras, one without hardware, a device twice, an unknown backend, cameras without serial number, values the loader does not see, missing, unreadable and empty files) in three builds; two failing vendor calls anywhere, the second of which may meet the cleanup after the first; three requests |
| `callback_capture` (116,486) | What is an acknowledgement worth, what does a timeout leave behind, can a frame reach a capture that returned, do exchanges and captures end? | frames of 2 bytes, so that a chunk may end inside one; five commands (section 2), two of them in a row, the second of which meets what the first left; one failing read, one failing vendor call, one frame per flash |
| `recon_service` (889,704) | What does the watcher save, when is it right, does it catch up, what is the loopback's check of seq worth, does the poller reach the largest seq? | 3 slots, bursts of 2 and a result slot, 2 camera threads and a gRPC thread, so that a second publication wraps around (same thread) or starts at slot 0 (another); 2 starts of the hub and 2 bursts; ids 1 and 2, so that ids rise, repeat and go back; sessions 1 and 2; one failing save; 2 handlers at once. `MCSetups`: the readers and the loopback do not wait for each other and write nothing the other reads, so each is explored beside the hub with the bounds above (the loopback with results for one start), and all together with one burst. The bounds on bursts and starts end the behaviours, hence no deadlock check |
| `viewer` (4,591,280) | Whose pixels does a frame hold, is the raw image page in step, is a stopped stream silent? | 2 slots and 2 captures of 1 or 2 slots by 2 threads: a second capture by the same thread comes round to the first one's slots when either takes 2, one by the other thread starts on top of them; ids of another process's client; 2 starts of the hub, where captures are of 1 slot by one thread (`PlainWhereRestarted`), since a start resets the ring anyway; a task and the stream thread |
| `viewer_liveness` (61,346) | Does the main thread always come back, is a single capture over at some time, is it asked for with the shown pattern? | 1 capture, 1 start, 2 patterns; fairness |
| `hub_timeout_of_another`, `host_serial_loss`, `viewer_stale_adapter` | section 5 | the instances above, reduced to what the counterexample needs |

Every property of a passing run has a mutant of the code that breaks it (a guard dropped, a
cursor stuck, an eviction forgotten, a step missing ...), listed in `PROJECT.json`.

## 4. Fairness

* `HubCapture`: a waiting handler eventually acts (its wait has a deadline and wakes every
  200 ms); the vendor's SDK delivers what it has grabbed; a callback that waits for `mu_` gets it
  (every hold is finite); a burst write goes on. Nothing about clients, the projector or lost frames.
* `HubHost`: the main thread runs until it waits for the server, the monitor thread ticks. Nothing
  about clients, faults or the serial adapter.
* `CallbackCapture`: the exchange's next read or deadline, the capture's next step, and the vendor's
  return from a callback. Nothing about the projector.
* `ReconService`: the watcher, the poller and a burst write, which holds `mu_`, go on. Nothing about
  restarts, clients and the loopback's deadline.
* `Viewer`: strong fairness of handlers, workers and queued events, because they compete for
  `mutex_`: the stream sleeps 150 ms without it between two captures, so a thread that waits for it
  gets it. Weak fairness of the end of the stream thread and of a task on a destroyed adapter.

## 5. Where code and documents disagree

Runs that are expected to find a violation:

* `hub_timeout_of_another`: the wait loop does not compare capture ids. A capture whose burst was
  published waits on for the next client's capture, answers "capture timeout waiting for hardware
  frame", and disarms the other client's capture, which then answers 17 or waits in turn.
* `host_serial_loss`: `hub_service_state_codes.h:22` promises code 1010 when the serial port is
  lost after startup; the monitor returns as soon as `IsOpen`, which only tests a handle that nothing
  closes. The state is unreachable: `HubHost` implements `HubStatus`, which does not have it.
* `viewer_stale_adapter`: a connect that fails leaves `AcquisitionController` with a pointer to the
  destroyed adapter and the buttons enabled; the next click calls it.

Met while modelling, stated here with their places, and kept out of the passing runs by named
bounds or conditions:

* The startup does not compare cameras x frames with the slot count (`hub` 1294): 3 cameras with 24
  frames and a result overwrite themselves in 64 slots, which `shm_constants.h:12` requires not to
  happen. `LatestIntact` is checked where a burst fits.
* seq counts the writes of one slot and every thread has its own cursor
  (`shm_ring_buffer.cpp:167`): a later publication can carry smaller seq values, though
  `camera_hub.proto:22` calls seq monotonic. `SeqIdentifiesPayload` is what holds.
* An asynchronous capture has no deadline (`hub` 346): one lost frame keeps it in progress, and every
  later Capture is refused with code 10 until somebody disconnects. `AcceptedCaptureIsPublished`
  excepts lost frames.
* Late frames, of a command whose serial answer was missed or that came after the deadline, are
  taken for the next capture's and published under its id (`hub` 834). `BurstIsOwn` is checked with
  `PromptCameras`.
* The watcher never compares seq (`recon_hub_burst_receiver.cpp:201`), although
  `README_hub_recon_grpc_shm.md:208` tells readers to. `ReadWithinGraceIsRight` states how long that
  is harmless: while no thread but the one that wrote the publication has begun a slot, and that
  one at most slots of the ring less slots of the publication. With several cameras, or with
  captures of test images, there is no number of slots to rely on: another thread's first write may go
  to the first slot of the publication. The same holds for the viewer (`Kept`).
* The watcher takes a publication that repeats the id it saved last for saved
  (`recon_hub_burst_receiver.cpp:162`) and skips it for ever; the SDK's ids count from 1 in every
  process. `WatcherCatchesUp` excepts it by name (`RepeatedId`).
* The echo ring's 32 MB make 64 slots of half a megabyte (`shm_constants.h:20`), the hub's 512 MB slots of
  8: a frame larger than half a megabyte passes every check of `ProcessHubRaw` and then does
  not fit the echo (code 7, `EchoTooSmall`).
* The loopback uses a reference into the publications after releasing `mu_` (`hub` 895): a Disconnect or
  an eviction meanwhile frees what it refers to. The model lets the hub stop, or the request name
  any slot; `EchoIsOwn` excuses requests whose publication was dropped. The handler in turn reads the
  slot after its check of seq (`recon_shm_loopback_grpc.cpp:108`); `CheckedFrameIsRight` says what can
  come between.
* Ids used again, as by every new process of the SDK, put an id twice into `finish_lru_`
  (`hub` 1043) and let the wait loop take an older publication for its own (`hub` 371). `LruExact` and
  `SyncOkIsOwnBurst` are checked with `UniqueIds`.
* The late answer of an earlier command is read as the acknowledgement of the next
  (`serial_projector.cpp:126`). `CleanSuccessIsOwn` asks for a quiet line, and `BacklogNeverShrinks`
  says that a line that is behind stays behind until it is reopened.

## 6. Proofs

For all values of the constants that satisfy the named assumptions of the modules (positive sizes,
ids and bounds that are numbers, modes that are Booleans):

`HubCaptureProofs`

* `TypeCorrect`: `TypeOK`, inductive as it stands; one lemma per action, and `TypeFrame` says once
  that a part of the state a step leaves alone keeps its type.
* `CapturesAreServiceable`, `BurstsAreTaken`: `ArmedIsServiceable` and `NoCompleteBurstWaits` follow
  from `SessionInv`, inductive given `TypeOK`. Serviceability alone is not: arming presupposes
  that Ready means a complete session (`ReadyIsComplete`), and a Connect that fails after setting
  `session_id_` is harmless only because a hub without session never says Ready and is idle
  (`ClosedIsIdle`).
* `SeqIsSound`: `SeqIdentifiesPayload` follows from `RefsInv`: no slot is behind a reference taken
  from it, and while it has not moved on it holds what was referenced. References of the burst
  being written have to be included. Cursors play no part: the argument holds for any number of
  writers.
* `HubImplementsGate`: `Spec => GateSpec`, step by step from `TypeOK` and `SessionInv` (an armed
  capture and a burst being written exclude each other; 0 is no id).

`HubBurstProofs` (on top of `HubCaptureProofs`; each theorem names what it needs of the hub's use)

* `TableIsExact` (unique ids): `LruExact` from `TableInv`, the list names the table's entries, each
  once. It needs `FreshInv`: the id of the capture in progress, or of the burst being written, has
  been used up and is not in the table yet, so that remembering it never finds it there.
* `SyncReplyIsOwnBurst` (unique ids): `SyncOkIsOwnBurst` from `OwnShots`, which follows the id a
  handler waits for to wherever it turns up: the capture in progress, the burst being written, the table.
* `TimeoutIsTrue` (one client): `TimeoutMeansNoFrames` from `ShotOrder`: what is armed is the last
  shot, what is in the table is older.
* `InconsistencyIsExplained` (one client, unique ids): `NoInternalInconsistency` from `CallTraced`: the
  awaited capture is armed, being written, in the table, or lost to an error still remembered.
* `LatestIsIntact` (a burst with its placeholder fits the ring, no oversize frames): `LatestIntact`
  from `IntactInv`: the cursor is ahead of the i-th reference by the writes since, which stay below
  one turn. `PlaceInv` counts the references of the burst being written. Only the cursor of the thread
  that writes counts: whichever thread wrote before, a burst is written by one.
* `PublicationIsOwnBurst` (`PromptCameras`): `BurstIsOwn` from `ArrivalInv` and `CopiedInv`. While a
  capture is awaited, what is in a camera's line is the end of its burst; as long as collected,
  called back and coming frames add up to a whole burst, they are that burst in order; after a loss
  they never do again.

The hypotheses are those of the runs: `UniqueIds` and `PromptCameras` are constants that switch the
behaviours on and off, and section 5 says what the hub does without them.

`HubHostProofs`

* `ReadyHubDelivers`, `FailedStartRollsBack`: two conjuncts of `HostInv`. They are not inductive
  alone: whether a ready hub delivers depends on what the startup has reached (`Phases`), and a
  reconnect registers exactly the cameras of the session (`SessionCallbacks`).
* `DisconnectSilences`: from `HostInv`'s `SessionCallbacks` and `NothingToFire`.
* `AcknowledgedHolds`: from `AckInv`, which adds that nothing is acknowledged before the hub serves.
  A set goes through the cameras until the first refusal; the lemmas about the first and the last of a
  set of numbers rest on well-founded induction from the library.
* `KeepsPromise`: `Spec => Promise!Init /\ [][Promise!Next]_Status`, the safety part of
  `ServiceSpec`; every startup stage decides or stays undecided, a failed state admits no step that
  leaves it, and 1010 is never reached.
* `TypeCorrect`: `TypeOK`, from `HostInv`, the types of what the configuration hands on
  (`PlainTypes`) and `NamedCameras`: an open camera is one the configuration names. What the loader
  filters out of the file plays no part.

`CallbackCaptureProofs` (over `SerialLine` and `CameraDriver`)

* `TypeCorrect`: `TypeOK`.
* `NoFrameAfterReturn`: `NoCallAfterReturn` from `LambdaInv`: as long as no vendor call failed, the
  only lambda called is that of the capture in progress, and between captures the adapter holds none
  or has no stream.
* `SuccessIsOwn`, `BacklogStays`: `CleanSuccessIsOwn` and the action property
  `BacklogNeverShrinks`, from `LineInv`, which is about the line alone (`LineFollows`: every step of
  the captures is a step of the line or leaves it). `OnlyOwnAnswers` says that a clean exchange
  finds nothing but answers to its own command, also among the bytes it has read and not matched
  yet; `NothingLost` counts: what is unread or was read is what was there at the start and what
  the command is still due. Both need that an exchange has the port to itself (`Conduct`).

`ReconServiceProofs` (over `ReconHub`, `ReconBurstWatcher` and `ReconLoopback`, with and without the
loopback)

* `TypeCorrect`: `TypeOK` from `ReconInv`, with the control of the hub (`HubInv`: a write has an open
  session and a region), of the readers (`WatcherInv`) and of the loopback (`LoopbackInv`).
* `BatchesAreOnce`: `SavedOnce` from `SavedInv`. The code compares ids, which go back; the proof
  orders publications by their number: what is read is newer than what was saved, and what is
  published is as new as either, and the same only if it has the remembered id.
* `SeqCheckIsSound`: `CheckedFrameIsRight` from `SeqInv` and `SureInv`. As long as a slot's seq is the
  recorded one, it holds the recorded frame or was torn since, and torn slots are the one under the copy
  in progress (`TornInv`) or those of a hub that stopped in a copy.
* `EchoReturnsOwnFrame`: `EchoIsOwn` from `AloneInv`, which follows the first frame of a request that
  is alone through the checks, the echo ring and the call back.
* `ReadersHaveGrace`: `ReadWithinGraceIsRight`, an action property, from `GraceInv`: the distance from
  the cursor of the thread that wrote a publication to one of its slots, and the slots that thread has
  begun since, add up to at least the rest of a turn, for the burst being written, the latest
  publication and the one being read, as long as the other threads have begun none. The cursors
  of the others play no part.

`ViewerProofs` (over `SdkClient` and `Viewer`): one invariant, `ViewerInv`

* `TypeCorrect`: `TypeOK`.
* `FramesAreOwn`: `FrameIsOwn` from `PublicationsInv` and `WorkerInv`. A publication is the last
  capture under its id, and while nobody wrote over it (`Kept`) each of its slots is in the ring
  (`InRing`): the steps its thread's cursor is away from the slot (`Ahead`) and the slots written
  since add up to at least the rest of a turn. `WorkerInv` carries that to the thread that is between the
  answer of the hub and the read of the slot.
* `StopIsQuiet`, an action property, from `StreamInv`: the stream's thread works for the adapter that
  is held, and is told to end only by a handler that then joins it.
* `CapturesUseShownOp`, an action property, from `OpInv`: an adapter that is connected has the
  pattern shown, or the main thread is in the handler about to tell it.
* `AlbumFollowsDataCenter`: `AlbumInSync`, inductive given the rest.

With these, every safety invariant and every action property of a passing run is a theorem, for
all values of the constants. Only model-checked, since they are out of the prover's reach: the
liveness properties (`AcceptedCaptureIsPublished`, the returns of captures and exchanges, the decision
of the startup in `ServiceSpec`, `WatcherCatchesUp`, `PollerReachesLargestSeq`, `UiResponds`,
`CaptureFinishes`), and what depends on ENABLED. No theorem needs induction over data: of the
sequences that the code filters, the proofs only use the elements.

## 7. Not modelled

* Discovery beacon: a periodic datagram without state at the hub and without an answer; the listener
  keeps a table of what it heard last. `HubHost` has whether the thread runs.
* The captures that poll `GrabOne`, in the orchestrators and adapters: one thread that sends and then
  reads; the hub does not use them.
* `device_info_io`: the address strings of cameras, which appear in log and error messages only.
* The user SDK's thin wrappers and parameter calls, which keep no state, and the build without gRPC.
* The adapters of other vendors in the viewer: `DeviceController` never constructs them.
* Drawing (`PointCloudView3D`, `ImageView2D`, `RangeSlider`), diagnostics and the TIFF dump: output.
* The smoke and connectivity tools: sequences of calls that are among those of HubCapture's clients.
* Whether the vendor's `UnregisterCaptureCallback` waits for callbacks in progress is not determined
  here. `CallbackCapture` assumes it does. If it does, `hub`'s teardown, which unregisters under `mu_`
  while a callback may wait for `mu_`, deadlocks; `HubCapture` lets it return.
* Answers of `Capture` that no state can cause: code 11, no serial port, is tested after the runtime state,
  and a port that was opened stays open for `IsOpen` (`HubHost`). The failures
  of a startup (codes 1002 to 1007) are in `HubHost`; `HubCapture` begins after one that succeeded.
* Failures of a slot write other than an oversize payload: the ring of a ready hub exists, and the
  header read back is there because `mu_` is held and, this is assumed, an image of the vendor
  has bytes.
* The codes of `ProcessHubRaw`: its errors are one action (`HandlerFails`) and `EchoTooSmall`; no
  caller tells them apart.
* Test macros of the hub other than the loopback and the test images.

## 8. What is left

An instance of `recon_service` with more bursts per start; conditions weaker than `PromptCameras`
under which a late frame cannot reach the next burst; the steps of the liveness arguments that need
no fairness (what a fair action leads to once it is taken), as lemmas.
