------------------------------- MODULE Viewer -------------------------------
(***************************************************************************)
(* The camera viewer: the main thread with its buttons and its event       *)
(* queue, the tasks of "single capture" in the thread pool, the thread of  *)
(* "continuous capture", and the one BestCamera3DAdapter they share.  The  *)
(* adapter's mutex_ is held from a capture's RPC until its frame has been  *)
(* read out of the shared memory, and everything the main thread asks of   *)
(* the adapter waits for it.                                               *)
(*                                                                         *)
(* DeviceController owns the adapter and replaces it on every connect;     *)
(* AcquisitionController and the tasks hold plain pointers to it.  Calling *)
(* a destroyed adapter is undefined: here it ends the process or does      *)
(* nothing and reports failure.                                            *)
(***************************************************************************)
EXTENDS SdkClient

CONSTANTS
  Tasks,  \* bound: single captures not yet finished at a time
  Ops     \* entries of the projector_op combo box, 0 is the first

Stream == "stream"  \* async_thread_

ASSUME ViewerAssumption == 0 \in Ops /\ Tasks \subseteq STRING \ {Stream}

Workers == {Stream} \cup Tasks

VARIABLES
  ui,       \* what the main thread is in; "idle" is its event loop
  dialled,  \* the host ConnectDevice was called with
  adapter,  \* DeviceController::adapter_
  held,     \* AcquisitionController::adapter_ is the current adapter or a destroyed one
  running,  \* continuous_running_
  worker,   \* the threads that capture
  latest,   \* DataCenter's queue: the last frame, or NoFrame
  pending,  \* FrameReady events in the main thread's queue
  album,    \* the capture the raw image page shows, 0 for none
  enabled,  \* buttons that can be pressed
  combo,    \* the projector_op shown
  panel     \* CameraParamPanel shows controls

windows == <<album, enabled, combo, panel>>
vars == <<hubVars, nextId, ui, dialled, adapter, held, running, worker, latest, pending, windows>>

Buttons == {"disconnect", "capture", "start", "stop"}
NoFrame == [number |-> 0, raw |-> FALSE]
Resting == [pc |-> "none", id |-> 0, own |-> 0, slot |-> 0, frame |-> NoFrame, certain |-> FALSE,
            stray |-> FALSE]
NewAdapter == [sdk |-> NoSdk, op |-> 0, ring |-> 0, since |-> 0, stop |-> TRUE]

Frame == [number : 0 .. MaxCaptures, raw : BOOLEAN]

ViewerInit ==
  /\ ui = "idle"
  /\ dialled = "none"
  /\ adapter = NewAdapter
  /\ held = "current"
  /\ running = FALSE
  /\ worker = [w \in Workers |-> Resting]
  /\ latest = NoFrame
  /\ pending = 0
  /\ album = 0
  /\ enabled = {"capture", "start"}
  /\ combo = 0
  /\ panel = FALSE

Init == SdkInit /\ ViewerInit

-----------------------------------------------------------------------------
\* The adapter's mutex_.

Holds(w) == worker[w].pc \in {"capturing", "listing", "querying", "reading"}
Free == \A w \in Workers : ~Holds(w)

\* Mutant: the main thread joins the capture thread while it holds mutex_.
FreeUnlessJoined == Free /\ ui \notin {"stopping", "disconnecting", "replacing"}

\* A thread that captures can take mutex_.
CanLock == Free

-----------------------------------------------------------------------------
\* The threads that capture: CaptureSync in a task, AsyncThreadMain in the stream.

Moves(w, pc) == worker' = [worker EXCEPT ![w].pc = pc]

\* Mutant: the task tries again, as the stream does.
FailedRetries(w) ==
  worker' = [worker EXCEPT ![w] = IF w = Stream THEN [Resting EXCEPT !.pc = "looping"]
                                                ELSE [Resting EXCEPT !.pc = "queued"]]

\* A capture that fails: the task reports it, the stream sleeps and tries again.
Failed(w) ==
  worker' = [worker EXCEPT ![w] = IF w = Stream THEN [Resting EXCEPT !.pc = "looping"]
                                                ELSE [Resting EXCEPT !.pc = "done"]]

Begins(w) ==
  \/ w = Stream /\ worker[w].pc = "looping" /\ ~adapter.stop
  \/ w # Stream /\ worker[w].pc = "queued" /\ ~worker[w].stray

\* Takes mutex_ and sends Capture with the next id; without a session, or past the bound on
\* ids, the capture fails.
BeginCapture(w) ==
  /\ Begins(w)
  /\ CanLock
  /\ \/ /\ adapter.sdk.connected
        /\ nextId <= MaxCaptures
        /\ nextId' = nextId + 1
        /\ worker' = [worker EXCEPT ![w].pc = "capturing", ![w].id = nextId]
     \/ /\ ~adapter.sdk.connected \/ nextId > MaxCaptures
        /\ Failed(w)
        /\ UNCHANGED nextId
  /\ UNCHANGED <<hubVars, ui, dialled, adapter, held, running, latest, pending, windows>>

CaptureReturns(w) ==
  /\ worker[w].pc = "capturing"
  /\ \/ /\ CaptureAnswered(worker[w].id)
        /\ worker' = [worker EXCEPT ![w].pc = "listing", ![w].own = Captures + 1]
        /\ adapter' = [adapter EXCEPT !.sdk.last = worker[w].id]
     \/ /\ CaptureFailed(worker[w].id)
        /\ Failed(w)
        /\ UNCHANGED adapter
  /\ UNCHANGED <<nextId, ui, dialled, held, running, latest, pending, windows>>

\* PopulateUnifiedFrameAfterCaptureLocked asks for the list of raw frames, and if there is none
\* for the single frame, the first or the result.  `slot` is any one of those it reads.
Lists(w) ==
  /\ worker[w].pc = "listing"
  /\ \/ \E p \in Depth(adapter.sdk, worker[w].id) : \E slot \in p.slots :
          worker' = [worker EXCEPT ![w].pc = "reading", ![w].slot = slot, ![w].frame.raw = TRUE]
     \/ Moves(w, "querying")
  /\ UNCHANGED <<hubVars, nextId, ui, dialled, adapter, held, running, latest, pending, windows>>

Queries(w) ==
  /\ worker[w].pc = "querying"
  /\ \/ \E p \in Depth(adapter.sdk, worker[w].id) : \E slot \in p.slots :
          worker' = [worker EXCEPT ![w].pc = "reading", ![w].slot = slot]
     \/ Failed(w)
  /\ UNCHANGED <<hubVars, nextId, ui, dialled, adapter, held, running, latest, pending, windows>>

\* Nobody wrote over a capture: since then only its own thread has written, and that one has not
\* come round to the first of its slots.
Kept(number) ==
  /\ \A n \in number + 1 .. Captures : made[n].thread = made[number].thread
  /\ Written - made[number].after <= SlotCount - made[number].length

\* What can put another capture's pixels under the answer: the hub was restarted since the adapter
\* connected, another client used the id, or another thread of the hub wrote, or the ring came
\* round.
Certain(w) ==
  /\ adapter.since = Starts
  /\ \A n \in worker[w].own + 1 .. Captures : made[n].id # worker[w].id
  /\ Kept(worker[w].own)

\* ReadShmToUnifiedImage, in the region mapped before unless there is none.
ReadsFrame(w) ==
  LET region == IF adapter.ring = 0 THEN Starts ELSE adapter.ring
      slot == worker[w].slot
  IN /\ worker[w].pc = "reading"
     /\ worker' = [worker EXCEPT
          ![w].pc = "pushing", ![w].certain = Certain(w),
          ![w].frame.number = IF Readable(memory[region], slot) THEN memory[region][slot].data ELSE 0]
     /\ adapter' = [adapter EXCEPT !.ring = region]
     /\ UNCHANGED <<hubVars, nextId, ui, dialled, held, running, latest, pending, windows>>

\* DataCenter::PushFrame, by the task or, with the callback copied under mutex_, by the stream.
Pushes(w) ==
  /\ worker[w].pc = "pushing"
  /\ w = Stream => CanLock
  /\ latest' = worker[w].frame
  /\ pending' = IF pending < 2 THEN pending + 1 ELSE pending
  /\ worker' = [worker EXCEPT ![w] = IF w = Stream THEN [Resting EXCEPT !.pc = "looping"]
                                     ELSE [Resting EXCEPT !.pc = "done"]]
  /\ UNCHANGED <<hubVars, nextId, ui, dialled, adapter, held, running, windows>>

\* async_stop_ ends the loop; the thread stays joinable.
StreamEnds ==
  /\ worker[Stream].pc = "looping"
  /\ adapter.stop
  /\ Moves(Stream, "ended")
  /\ UNCHANGED <<hubVars, nextId, ui, dialled, adapter, held, running, latest, pending, windows>>

Working(w) ==
  BeginCapture(w) \/ CaptureReturns(w) \/ Lists(w) \/ Queries(w) \/ ReadsFrame(w) \/ Pushes(w)

-----------------------------------------------------------------------------
\* Calls of a destroyed adapter.

\* The process ends.
Crash ==
  /\ ui' = "crashed"
  /\ worker' = [w \in Workers |-> Resting]
  /\ UNCHANGED <<hubVars, nextId, dialled, adapter, held, running, latest, pending, windows>>

\* The user starts the viewer again: a new process, with a new generator of ids.
Relaunch ==
  /\ ui = "crashed"
  /\ nextId' = FirstId
  /\ ui' = "idle"
  /\ dialled' = "none"
  /\ adapter' = NewAdapter
  /\ held' = "current"
  /\ running' = FALSE
  /\ worker' = [w \in Workers |-> Resting]
  /\ latest' = NoFrame
  /\ pending' = 0
  /\ album' = 0
  /\ enabled' = {"capture", "start"}
  /\ combo' = 0
  /\ panel' = FALSE
  /\ UNCHANGED hubVars

\* A task that is still queued when its adapter goes.
StrayTask(t) ==
  /\ worker[t].pc = "queued"
  /\ worker[t].stray
  /\ \/ Crash
     \/ /\ Failed(t)
        /\ UNCHANGED <<hubVars, nextId, ui, dialled, adapter, held, running, latest, pending, windows>>

-----------------------------------------------------------------------------
\* The main thread: single captures.

\* OnCaptureOnce.
ClickCapture ==
  /\ ui = "idle"
  /\ "capture" \in enabled
  /\ \E t \in Tasks : worker[t].pc = "none"
  /\ ui' = "capture"
  /\ enabled' = enabled \ {"capture"}
  /\ UNCHANGED <<hubVars, nextId, dialled, adapter, held, running, worker, latest, pending, album,
                 combo, panel>>

\* CaptureOnce: without a connection it finishes at once, otherwise a task is queued.
CaptureOnce ==
  /\ ui = "capture"
  /\ \/ /\ held = "current" /\ Free /\ adapter.sdk.connected
        /\ LET t == CHOOSE t \in Tasks : worker[t].pc = "none"
           IN worker' = [worker EXCEPT ![t] = [Resting EXCEPT !.pc = "queued"]]
        /\ ui' = "idle"
        /\ UNCHANGED <<hubVars, nextId, dialled, adapter, held, running, latest, pending, windows>>
     \/ /\ held = "current" => Free /\ ~adapter.sdk.connected
        /\ ui' = "idle"
        /\ enabled' = enabled \cup {"capture"}
        /\ UNCHANGED <<hubVars, nextId, dialled, adapter, held, running, worker, latest, pending,
                       album, combo, panel>>
     \/ held = "destroyed" /\ Crash

\* OnCaptureOnceFinished, queued when the task is over.
CaptureFinished(t) ==
  /\ ui = "idle"
  /\ worker[t].pc = "done"
  /\ worker' = [worker EXCEPT ![t] = Resting]
  /\ enabled' = enabled \cup {"capture"}
  /\ UNCHANGED <<hubVars, nextId, ui, dialled, adapter, held, running, latest, pending, album, combo, panel>>

-----------------------------------------------------------------------------
\* The main thread: continuous capture.

ClickStart ==
  /\ ui = "idle"
  /\ "start" \in enabled
  /\ ui' = "starting"
  /\ UNCHANGED <<hubVars, nextId, dialled, adapter, held, running, worker, latest, pending, windows>>

\* StartContinuous; the buttons change whether or not it started.
StartContinuous ==
  LET starts == held = "current" /\ adapter.sdk.connected /\ ~running /\ worker[Stream].pc = "none"
  IN /\ ui = "starting"
     /\ \/ /\ held = "current" => Free
           /\ worker' = IF starts THEN [worker EXCEPT ![Stream].pc = "looping"] ELSE worker
           /\ adapter' = IF starts THEN [adapter EXCEPT !.stop = FALSE] ELSE adapter
           /\ running' = (running \/ starts)
           /\ ui' = "idle"
           /\ enabled' = (enabled \ {"start"}) \cup {"stop"}
           /\ UNCHANGED <<hubVars, nextId, dialled, held, latest, pending, album, combo, panel>>
        \/ held = "destroyed" /\ Crash

\* Mutant: the thread is told to end and left alone.
NotJoined == TRUE

\* async_thread_.join().
Joined == worker[Stream].pc \in {"none", "ended"}

AfterJoin == [worker EXCEPT ![Stream] = IF @.pc = "ended" THEN Resting ELSE @]

\* OnStopContinuous, up to the join in StopAsyncCapture.
ClickStop ==
  /\ ui = "idle"
  /\ "stop" \in enabled
  /\ \/ /\ held = "current"
        /\ adapter' = [adapter EXCEPT !.stop = TRUE]
        /\ ui' = "stopping"
        /\ UNCHANGED <<running, enabled>>
     \/ /\ held = "destroyed"
        /\ running' = FALSE
        /\ enabled' = (enabled \ {"stop"}) \cup {"start"}
        /\ UNCHANGED <<adapter, ui>>
  /\ UNCHANGED <<hubVars, nextId, dialled, held, worker, latest, pending, album, combo, panel>>

ClickStopCrashes == ui = "idle" /\ "stop" \in enabled /\ held = "destroyed" /\ Crash

StopContinuous ==
  /\ ui = "stopping"
  /\ Joined
  /\ Free
  /\ worker' = AfterJoin
  /\ running' = FALSE
  /\ ui' = "idle"
  /\ enabled' = (enabled \ {"stop"}) \cup {"start"}
  /\ UNCHANGED <<hubVars, nextId, dialled, adapter, held, latest, pending, album, combo, panel>>

-----------------------------------------------------------------------------
\* The main thread: connecting and disconnecting.

\* RefreshParameterList: controls for an adapter that is connected, a hint otherwise.
RefreshParameterList(a) == a.sdk.connected

ClickDisconnect ==
  /\ ui = "idle"
  /\ "disconnect" \in enabled
  /\ adapter' = [adapter EXCEPT !.stop = TRUE]
  /\ ui' = "disconnecting"
  /\ UNCHANGED <<hubVars, nextId, dialled, held, running, worker, latest, pending, windows>>

\* DisconnectDevice and OnDisconnected.  The thread is joined by now, so IsContinuousRunning is
\* false and continuous_running_ stays as it is.
Disconnect ==
  /\ ui = "disconnecting"
  /\ Joined
  /\ Free
  /\ SdkDisconnect(adapter.sdk)
  /\ worker' = AfterJoin
  /\ adapter' = [adapter EXCEPT !.sdk = NoSdk, !.ring = 0, !.since = 0]
  /\ ui' = "idle"
  /\ enabled' = {}
  /\ album' = 0
  /\ panel' = RefreshParameterList(adapter')
  /\ UNCHANGED <<nextId, dialled, held, running, latest, pending, combo>>

\* OnConnect, by the button or by a double click in the list, which asks for no disconnect first.
\* ConnectDevice begins with IsConnected, which takes mutex_, and a disconnect or the destructor
\* that stops the thread.
ClickConnect(host) ==
  /\ ui = "idle"
  /\ ui' = "connecting"
  /\ dialled' = host
  /\ UNCHANGED <<hubVars, nextId, adapter, held, running, worker, latest, pending, windows>>

ConnectDevice ==
  /\ ui = "connecting"
  /\ Free
  /\ adapter' = [adapter EXCEPT !.stop = TRUE]
  /\ ui' = "replacing"
  /\ UNCHANGED <<hubVars, nextId, dialled, held, running, worker, latest, pending, windows>>

\* The old adapter disconnects and is destroyed once the new one exists: pointers to it dangle.
ReplaceAdapter ==
  /\ ui = "replacing"
  /\ Joined
  /\ Free
  /\ SdkDisconnect(adapter.sdk)
  /\ adapter' = NewAdapter
  /\ held' = "destroyed"
  /\ worker' = [w \in Workers |-> IF AfterJoin[w].pc = "queued"
                                  THEN [AfterJoin[w] EXCEPT !.stray = TRUE] ELSE AfterJoin[w]]
  /\ ui' = "dialling"
  /\ UNCHANGED <<nextId, dialled, running, latest, pending, windows>>

\* Mutant: the new adapter keeps its default.
OpNotSent == adapter.op

\* SyncCaptureProjectorOpToAdapter.
OpShown == combo

\* The answer and OnConnected: SetAdapter stops what it believes to be running, on the pointer it
\* has, before it takes the new one.
Connected ==
  /\ ui = "dialling"
  /\ \/ /\ ConnectAnswered(dialled = "hub")
        /\ adapter' = [adapter EXCEPT !.sdk.connected = TRUE, !.since = Starts, !.op = OpShown]
        /\ held' = "current"
        /\ running' = FALSE
        /\ dialled' = "none"
        /\ ui' = "idle"
        /\ enabled' = enabled \cup {"disconnect", "capture", "start"}
        /\ panel' = RefreshParameterList(adapter')
        /\ UNCHANGED <<nextId, worker, latest, pending, album, combo>>
     \/ running /\ dialled = "hub" /\ hub.up /\ Crash

\* OnConnectionFailed: nothing tells AcquisitionController that its adapter is gone, nor the panel
\* that there is no connection any more.
ConnectionFailed ==
  /\ ui = "dialling"
  /\ ConnectFailed(dialled = "hub")
  /\ dialled' = "none"
  /\ ui' = "idle"
  /\ enabled' = enabled \ {"disconnect"}
  /\ UNCHANGED <<nextId, adapter, held, running, worker, latest, pending, album, combo, panel>>

-----------------------------------------------------------------------------
\* The main thread: settings and frames.

ChooseOp(op) ==
  /\ ui = "idle"
  /\ op # combo
  /\ combo' = op
  /\ ui' = "setting_op"
  /\ UNCHANGED <<hubVars, nextId, dialled, adapter, held, running, worker, latest, pending, album,
                 enabled, panel>>

SetCaptureProjectorOp ==
  /\ ui = "setting_op"
  /\ Free
  /\ adapter' = [adapter EXCEPT !.op = combo]
  /\ ui' = "idle"
  /\ UNCHANGED <<hubVars, nextId, dialled, held, running, worker, latest, pending, windows>>

\* A control of CameraParamPanel: one RPC per change, to the adapter there is now; its outcome is
\* not looked at.
ChangeParameter ==
  /\ ui = "idle"
  /\ panel
  /\ ui' = "setting_parameter"
  /\ UNCHANGED <<hubVars, nextId, dialled, adapter, held, running, worker, latest, pending, windows>>

SetParameter ==
  /\ ui = "setting_parameter"
  /\ Free
  /\ ui' = "idle"
  /\ UNCHANGED <<hubVars, nextId, dialled, adapter, held, running, worker, latest, pending, windows>>

\* Mutant: the raw image page is filled only while it can be seen.
AlbumIfVisible(visible) ==
  IF visible THEN IF latest.raw THEN latest.number ELSE 0 ELSE album

\* RawImageAlbumPage::SetFrame: a frame without raw images clears the page.
AlbumOf(visible) == IF latest.raw THEN latest.number ELSE 0

\* OnFrameReady takes the latest frame, whichever one it was posted for.
FrameReady ==
  /\ ui = "idle"
  /\ pending > 0
  /\ pending' = pending - 1
  /\ \E visible \in BOOLEAN : album' = AlbumOf(visible)
  /\ UNCHANGED <<hubVars, nextId, ui, dialled, adapter, held, running, worker, latest, enabled,
                 combo, panel>>

-----------------------------------------------------------------------------
User ==
  \/ ClickCapture \/ ClickStart \/ ClickStop \/ ClickStopCrashes \/ ClickDisconnect
  \/ \E host \in {"hub", "dead"} : ClickConnect(host)
  \/ \E op \in Ops : ChooseOp(op)
  \/ ChangeParameter
  \/ Relaunch

\* The rest of a handler, once it can go on.
Handler ==
  \/ CaptureOnce \/ StartContinuous \/ StopContinuous \/ Disconnect \/ ConnectDevice
  \/ ReplaceAdapter \/ Connected \/ ConnectionFailed \/ SetCaptureProjectorOp \/ SetParameter

World ==
  /\ Environment
  /\ UNCHANGED <<nextId, ui, dialled, adapter, held, running, worker, latest, pending, windows>>

Next ==
  \/ User
  \/ Handler
  \/ FrameReady
  \/ \E w \in Workers : Working(w)
  \/ \E t \in Tasks : StrayTask(t) \/ CaptureFinished(t)
  \/ StreamEnds
  \/ World

\* Threads run, RPCs end, and events are taken from the queue in turn.  mutex_ is free for the
\* 150 ms the stream sleeps, so a thread that waits for it gets it.
Fairness ==
  /\ SF_vars(Handler)
  /\ SF_vars(FrameReady)
  /\ WF_vars(StreamEnds)
  /\ \A w \in Workers : SF_vars(Working(w))
  /\ \A t \in Tasks : WF_vars(StrayTask(t)) /\ SF_vars(CaptureFinished(t))

Spec == Init /\ [][Next]_vars
FairSpec == Spec /\ Fairness

-----------------------------------------------------------------------------
\* Properties.

TypeOK ==
  /\ nextId \in 1 .. MaxCaptures + 1
  /\ DOMAIN publications \subseteq 1 .. MaxCaptures
  /\ adapter.ring \in 0 .. Starts /\ adapter.since \in 0 .. Starts
  /\ adapter.op \in Ops /\ combo \in Ops
  /\ held \in {"current", "destroyed"}
  /\ running \in BOOLEAN /\ panel \in BOOLEAN
  /\ latest \in Frame
  /\ pending \in 0 .. 2
  /\ album \in 0 .. MaxCaptures
  /\ enabled \subseteq Buttons
  /\ \A w \in Workers : worker[w].frame \in Frame

\* A frame handed on holds the pixels of the capture it was asked of, unless another capture took
\* its id, another thread of the hub has written a capture since, the thread that wrote it has come
\* round the ring, or the hub was restarted since the viewer connected
\* (PopulateUnifiedFrameAfterCaptureLocked, DepthRequest.client_capture_id).
FrameIsOwn ==
  \A w \in Workers : worker[w].certain => worker[w].frame.number = worker[w].own

\* With no event left to handle, the raw image page shows the data centre's frame, or was cleared
\* by a disconnect or by a frame without raw images, whatever tab was in front
\* (MainWindow::OnFrameReady).
AlbumInSync == pending = 0 => album \in {0, latest.number}

\* Once "stop" or "disconnect" has returned, no frame of the stream comes in and its thread is
\* gone, until the next start (StopAsyncCapture, Disconnect).
QuietAfterStop ==
  [][/\ worker[Stream].pc = "pushing" /\ latest' # latest /\ worker'[Stream].pc = "looping"
     => running /\ held = "current"
        /\ (adapter.stop => ui \in {"stopping", "disconnecting", "replacing"})]_vars

\* A capture is asked for with the projector_op the combo box shows, on whatever adapter, unless
\* the choice is waiting for that very capture to end (SyncCaptureProjectorOpToAdapter).
CaptureUsesShownOp ==
  [][\A w \in Workers :
       worker[w].pc # "capturing" /\ worker'[w].pc = "capturing"
         => adapter.op = combo \/ ui = "setting_op"]_vars

\* The main thread always comes back to its event loop, though it joins a thread that needs the
\* mutex the main thread takes next (BestCamera3DAdapter::Disconnect).
UiResponds == ui \notin {"idle", "crashed"} ~> ui \in {"idle", "crashed"}

\* A single capture is always over at some time, and the button can be pressed again.
CaptureFinishes ==
  \A t \in Tasks : worker[t].pc # "none" ~> worker[t].pc = "none"

\* DeviceController.h:37 hands out "the current adapter, for AcquisitionController to set for
\* capturing", AcquisitionController.h:32 sets "the adapter now used for capturing".
UsesCurrentAdapter ==
  /\ ui \in {"capture", "starting", "stopping"} => held = "current"
  /\ \A w \in Workers : ~worker[w].stray
=============================================================================
