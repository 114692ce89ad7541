------------------------------ MODULE ReconHub ------------------------------
(***************************************************************************)
(* hub_service as the reconstruction process sees it: a process that can   *)
(* stop and start again, the shared memory region it creates at every      *)
(* start, the bursts it writes there, and the publication GetDepth(0)      *)
(* answers with.  Captures, cameras and clients are in HubCapture; here    *)
(* the copy of a slot takes two steps, because another process may read    *)
(* the slot while TryWriteNextSlot is in its memcpy.                       *)
(*                                                                         *)
(* Two kinds of thread write: the callback thread of the camera whose      *)
(* frame completed a burst, the whole burst, and a gRPC thread that serves *)
(* a capture of a test image, the image.  Either writes one more slot for  *)
(* a capture with_reconstruction_pipeline.  TryWriteNextSlot counts slots  *)
(* per thread, so two publications follow each other in the ring only if   *)
(* one thread wrote both; a thread that is new starts at slot 0.           *)
(*                                                                         *)
(* A reader that mapped the region keeps the memory it mapped when a       *)
(* restarted hub removes the name and creates the region anew: `regions`   *)
(* has one ring per start, the last one is what the name stands for.       *)
(***************************************************************************)
EXTENDS ShmRing, Sequences

CONSTANTS
  Torn,            \* content of a slot while TryWriteNextSlot copies into it
  CameraThreads,   \* vendor threads that call back, one per camera
  GrpcThreads,     \* threads that serve captures of test images
  FramesPerBurst,  \* raw frames of a burst, cameras x frames
  CaptureIds,      \* ids under which bursts are published
  RecModes,        \* values of with_reconstruction_pipeline
  SessionIds,      \* values of session_id_, the first camera's id at a start
  MaxBursts,       \* bound: bursts written
  MaxStarts        \* bound: starts of hub_service

\* The slot of the reconstruction placeholder.
ResultSlots(rec) == IF rec THEN 1 ELSE 0

\* What the hub is started with fits the ring (the startup does not check it).
ASSUME ReconHubAssumption ==
  /\ CameraThreads # {}
  /\ CameraThreads \cap GrpcThreads = {}
  /\ RecModes \subseteq BOOLEAN
  /\ FramesPerBurst \in Nat \ {0}
  /\ \A rec \in RecModes : FramesPerBurst + ResultSlots(rec) <= SlotCount
  /\ CaptureIds \subseteq Nat \ {0}
  /\ MaxBursts \in Nat
  /\ MaxStarts \in Nat

VARIABLES
  hub,      \* "down", "ready", or "closed" after a Disconnect
  sid,      \* session_id_ of the running hub
  regions,  \* one ring per start of the hub
  cursor,   \* s_next of every thread that writes
  writer,   \* WriteMultiCaptureToShmLocked or WritePayloadToShmLocked: what is being written
  latest,   \* publications_[latest_client_capture_id_]
  bursts,   \* history: number of the last burst
  writes    \* history: slot writes every thread has begun

reconHubVars == <<hub, sid, regions, cursor, writer, latest, bursts, writes>>

Threads == CameraThreads \cup GrpcThreads
SomeThread == CHOOSE t \in Threads : TRUE
Zeros == [t \in Threads |-> 0]

\* History: who wrote a publication, in how many slots, and what everybody had written by then.
NoMark == [thread |-> SomeThread, slots |-> 0, writes |-> Zeros]

NotWriting == [active |-> FALSE, thread |-> SomeThread, id |-> 0, next |-> 0, slots |-> 0,
               copying |-> FALSE, refs |-> <<>>]
WriterCursor == cursor[writer.thread]
NoLatest == [id |-> 0, number |-> 0, refs |-> <<>>, mark |-> NoMark]

Gen == Len(regions)
FrameOf(number, index) == [burst |-> number, index |-> index]

\* The raw frames of a publication: of a test image the image.
RawFrames(thread) == IF thread \in CameraThreads THEN FramesPerBurst ELSE 1

HubInit ==
  /\ hub = "down"
  /\ sid \in SessionIds
  /\ regions = <<>>
  /\ cursor = Zeros
  /\ writer = NotWriting
  /\ latest = NoLatest
  /\ bursts = 0
  /\ writes = Zeros

\* Startup: the region is removed and created anew, nothing is published, the session is open.
HubStarts ==
  /\ hub = "down"
  /\ Gen < MaxStarts
  /\ hub' = "ready"
  /\ sid' \in SessionIds
  /\ regions' = Append(regions, CreatedRing)
  /\ UNCHANGED <<cursor, writer, latest, bursts, writes>>

\* The process ends, at any point; the region stays behind.
HubStops ==
  /\ hub # "down"
  /\ hub' = "down"
  /\ writer' = NotWriting
  /\ latest' = NoLatest
  /\ cursor' = Zeros
  /\ UNCHANGED <<sid, regions, bursts, writes>>

\* Disconnect of any client (TeardownSessionLocked) and the Connect that reopens the session.
\* Both need mu_, which a burst write holds.
SessionCloses ==
  /\ hub = "ready"
  /\ ~writer.active
  /\ hub' = "closed"
  /\ latest' = NoLatest
  /\ UNCHANGED <<sid, regions, cursor, writer, bursts, writes>>

SessionReopens ==
  /\ hub = "closed"
  /\ hub' = "ready"
  /\ UNCHANGED <<sid, regions, cursor, writer, latest, bursts, writes>>

Writes(thread, id, rec) ==
  /\ hub = "ready"
  /\ ~writer.active
  /\ bursts < MaxBursts
  /\ bursts' = bursts + 1
  /\ writer' = [NotWriting EXCEPT !.active = TRUE, !.thread = thread, !.id = id, !.next = 1,
                                 !.slots = RawFrames(thread) + ResultSlots(rec)]
  /\ UNCHANGED <<hub, sid, regions, cursor, latest, writes>>

\* A capture has collected its frames: the callback that brought the last one begins to write.
BurstBegins(thread, id, rec) == thread \in CameraThreads /\ Writes(thread, id, rec)

\* A capture with test_inline_image_reply and test_recon_shm_loopback, its image read.
InlineBegins(thread, id, rec) == thread \in GrpcThreads /\ Writes(thread, id, rec)

\* TryWriteNextSlot up to and into the memcpy: the header still describes the old payload.
SlotCopyBegins ==
  /\ writer.active /\ ~writer.copying
  /\ writer.next <= writer.slots
  /\ regions' = [regions EXCEPT ![Gen][WriterCursor].data = Torn]
  /\ writer' = [writer EXCEPT !.copying = TRUE]
  /\ writes' = [writes EXCEPT ![writer.thread] = @ + 1]
  /\ UNCHANGED <<hub, sid, cursor, latest, bursts>>

\* The payload being copied: the raw frames, then the first again as the result.
WriterFrame ==
  FrameOf(bursts, IF writer.next <= RawFrames(writer.thread) THEN writer.next ELSE 1)

\* Mutant of WriterRef: the index is taken after the post-increment of the cursor.
WriterRefAfter == [slot |-> NextCursor(WriterCursor), seq |-> regions[Gen][WriterCursor].seq + 1]

\* The slot under the copy, as it will be referenced.
WriterRef == [slot |-> WriterCursor, seq |-> regions[Gen][WriterCursor].seq + 1]

\* camera_raw_slots takes the raw frames; the result is kept apart (fin_slot).
RefsAfter ==
  IF writer.next <= RawFrames(writer.thread) THEN Append(writer.refs, WriterRef) ELSE writer.refs

\* The copy is complete and the header, seq_publish last, is updated.
SlotCopyEnds ==
  /\ writer.copying
  /\ regions' = [regions EXCEPT ![Gen] = TryWriteNextSlot(@, WriterCursor, WriterFrame)]
  /\ writer' = [writer EXCEPT !.copying = FALSE, !.next = @ + 1, !.refs = RefsAfter]
  /\ cursor' = [cursor EXCEPT ![writer.thread] = NextCursor(@)]
  /\ UNCHANGED <<hub, sid, latest, bursts, writes>>

Publication ==
  [id |-> writer.id, number |-> bursts, refs |-> writer.refs,
   mark |-> [thread |-> writer.thread, slots |-> writer.slots, writes |-> writes]]

\* RememberPublicationLocked.
BurstPublished ==
  /\ writer.active /\ ~writer.copying
  /\ writer.next > writer.slots
  /\ latest' = Publication
  /\ writer' = NotWriting
  /\ UNCHANGED <<hub, sid, regions, cursor, bursts, writes>>

SlotData == [burst : Nat, index : Nat] \union {NoPayload, Torn}
Slot == [seq : Nat, data : SlotData]
RefType == [slot : Slots, seq : Nat]
MarkType == [thread : Threads, slots : Nat, writes : [Threads -> Nat]]

HubTypeOK ==
  /\ hub \in {"down", "ready", "closed"}
  /\ sid \in SessionIds
  /\ regions \in Seq([Slots -> Slot])
  /\ cursor \in [Threads -> Slots]
  /\ writer \in [active : BOOLEAN, thread : Threads, id : Nat, next : Nat, slots : Nat,
                 copying : BOOLEAN, refs : Seq(RefType)]
  /\ latest \in [id : Nat, number : Nat, refs : Seq(RefType), mark : MarkType]
  /\ bursts \in Nat
  /\ writes \in [Threads -> Nat]
=============================================================================
