---------------------------- MODULE ReconService ----------------------------
(***************************************************************************)
(* recon_service beside a hub that writes, stops, starts, closes and       *)
(* reopens.  Every build of recon_service that has gRPC runs the burst     *)
(* watcher and the poller; the macro                                       *)
(* CAMERA3D_ENABLE_RECON_SHM_LOOPBACK_TEST adds ProcessHubRaw here and the *)
(* calls of it in the hub.  Captures of test images have a macro of their  *)
(* own: in every build the hub publishes them like bursts.                 *)
(***************************************************************************)
EXTENDS ReconBurstWatcher, ReconLoopback, FiniteSets

CONSTANT Setups   \* the builds, each with the bounds it is explored in

ASSUME SetupsAssumption ==
  Setups \subseteq [loopback : BOOLEAN, readers : SUBSET {"watcher", "poller"},
                    bursts : Nat, starts : Nat, recs : SUBSET RecModes]

\* `loopback` says whether hub and recon_service have the loopback test.  The rest are bounds: the
\* readers whose threads get to run, which none of the others waits for, and what the hub does.
VARIABLE setup

vars == <<setup, reconHubVars, watcherVars, loopbackVars>>

Runs(reader) == reader \in setup.readers

Init ==
  /\ setup \in Setups
  /\ HubInit
  /\ Runs("watcher") \/ sid = CHOOSE id \in SessionIds : TRUE
  /\ WatcherInit
  /\ LoopbackInit

\* A hub that stops takes its threads with it.
HubProcessStops ==
  /\ HubStops
  /\ caller' = NoCalls
  /\ Disturbed
  /\ UNCHANGED <<echo_regions, echo_cursor, echoed>>

\* Of the threads that have written nothing yet any one stands for the others.
Used(threads) ==
  LET Unused == {t \in threads : writes[t] = 0}
  IN (threads \ Unused) \cup {CHOOSE t \in Unused : TRUE : u \in Unused}

\* Without a watcher nobody asks for sid, and ids are only compared with each other.
SidStays == Runs("watcher") \/ sid' = sid
Ids == {id \in CaptureIds :
          Runs("watcher") \/ bursts # 0 \/ id = CHOOSE first \in CaptureIds : TRUE}

\* A camera whose thread is in the loopback branch delivers no frame of the next burst.
Captures ==
  /\ bursts < setup.bursts
  /\ \E id \in Ids, rec \in setup.recs :
       \/ \E t \in Used(CameraThreads) :
            (\A c \in CameraThreads : caller[c] = NoCall) /\ BurstBegins(t, id, rec)
       \/ \E t \in Used(GrpcThreads) : caller[t] = NoCall /\ InlineBegins(t, id, rec)

\* A test image is captured for the loopback; with the macro off, it is published and no more.
MayOnlyPublish == ~setup.loopback \/ writer.thread \in CameraThreads

\* A burst write goes on: mu_ is held from its first slot to the publication.
BurstWrite ==
  \/ SlotCopyEnds /\ UNCHANGED loopbackVars
  \/ CopyBeginsBeside
  \/ MayOnlyPublish /\ PublishesOnly
  \/ setup.loopback /\ LoopbackBegins

HubStep ==
  /\ \/ /\ \/ HubStarts /\ Gen < setup.starts /\ SidStays
           \/ SessionReopens \/ Captures
        /\ UNCHANGED loopbackVars
     \/ HubProcessStops \/ SessionClosesUnder \/ BurstWrite
  /\ UNCHANGED watcherVars

LoopbackStep ==
  /\ setup.loopback
  /\ \/ \E t \in Threads : BuildsSlots(t) \/ CallGivesUp(t)
     \/ \E h \in Handlers : HandlerStep(h)
  /\ UNCHANGED watcherVars

Next ==
  /\ UNCHANGED setup
  /\ \/ HubStep
     \/ /\ \/ Runs("watcher") /\ (WatcherStep \/ WatcherFailure)
           \/ Runs("poller") /\ PollerStep
        /\ UNCHANGED loopbackVars
     \/ LoopbackStep

Spec == Init /\ [][Next]_vars

\* The threads of both services run: polls follow each other, and a burst write, which holds
\* mu_, is carried on.  Nothing is assumed of restarts, clients and deadlines.
Fairness ==
  /\ WF_vars(Runs("watcher") /\ WatcherStep /\ UNCHANGED <<setup, loopbackVars>>)
  /\ WF_vars(Runs("poller") /\ PollerStep /\ UNCHANGED <<setup, loopbackVars>>)
  /\ WF_vars(BurstWrite /\ UNCHANGED <<setup, watcherVars>>)

FairSpec == Spec /\ Fairness

-----------------------------------------------------------------------------
\* Every variable has its type.
TypeOK == setup \in Setups /\ HubTypeOK /\ WatcherTypeOK /\ LoopbackTypeOK

\* What the watcher reads is the frame of the publication as long as no thread of the hub but the
\* one that wrote it has begun a slot since, and that one no more than SlotCount less the slots of
\* the publication, unless the region was replaced before it was opened.  The reader compares no seq
\* (recon_hub_burst_receiver.cpp), so this is all that protects it.
ReadWithinGraceIsRight ==
  [][ReadsFrame /\ w.local.good /\ ~w'.local.good =>
       w.local.replaced \/ GraceOver(w.local.mark)]_vars

LastSaved == IF saved = <<>> THEN [id |-> 0, number |-> 0] ELSE saved[Len(saved)]

\* The latest publication has the id of the batch saved last, and is another one: the watcher takes
\* it for saved (capture_key <= last_saved_capture_id).
RepeatedId == latest.id = LastSaved.id /\ latest.number # LastSaved.number

\* While the hub stays open the watcher comes to have saved the latest publication, across restarts,
\* closed sessions, failed saves and ids that start again from a smaller one, unless that
\* publication repeats the id it saved last: then it is skipped for ever.
WatcherCatchesUp ==
  <>[](hub = "ready" /\ Runs("watcher")) =>
    <>[](latest # NoLatest => latest.number = LastSaved.number \/ RepeatedId)

\* The poller, if the region existed when it started, reaches the largest seq of the region
\* it mapped.
PollerReachesLargestSeq ==
  []<>(poller.gen # NotMapped => poller.seen = MaxPublishedSeq(regions[poller.gen]))

\* A frame the loopback handler saves after the check of its seq is the one referenced, unless
\* the hub was copying into the slot at the check, has begun a slot since, or was restarted:
\* seq starts from 1 again in the region of a restarted hub.
CheckedFrameIsRight ==
  \A h \in Handlers :
    Is(h, "save") /\ handler[h].sure =>
      HubSlot(h, CheckedRef(h)).data = FrameOf(handler[h].number, handler[h].next)

\* The echo the hub saves under a capture is that capture's first frame, unless its publication
\* was dropped before it was read, the hub stopped, another request ran beside it, or another
\* capture was written meanwhile: neither ring has a lock, and every thread starts at slot 0.
EchoIsOwn ==
  echoed.alone => echoed.data = FrameOf(echoed.number, 1)
=============================================================================
