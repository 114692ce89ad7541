-------------------------- MODULE ReconServiceProofs --------------------------
(***************************************************************************)
(* Proofs about ReconService, for every ring length, burst length, number  *)
(* of cameras and of gRPC threads, set of capture ids, number of handlers  *)
(* and number of restarts, with and without the loopback: what the burst   *)
(* watcher saves and when it is right, and what the seq check of the       *)
(* shared memory loopback is worth.                                        *)
(***************************************************************************)
EXTENDS ReconService, SequenceTheorems, TLAPS

-----------------------------------------------------------------------------
\* Raw frames the burst write has put into the ring.
RawWritten ==
  IF writer.next <= RawFrames(writer.thread) THEN writer.next - 1 ELSE RawFrames(writer.thread)

\* The control of the hub: a write needs an open session, hence a region; what was written so
\* far is what is referenced; a publication is of a hub that runs.
HubInv ==
  /\ Gen <= MaxStarts
  /\ hub # "down" => Gen >= 1
  /\ writer.active =>
       /\ hub = "ready"
       /\ writer.next \in 1 .. writer.slots + 1
       /\ writer.slots \in RawFrames(writer.thread) .. SlotCount
       /\ Len(writer.refs) = RawWritten
  /\ writer.copying => writer.active /\ writer.next <= writer.slots
  /\ latest # NoLatest =>
       /\ hub # "down"
       /\ Len(latest.refs) \in 1 .. FramesPerBurst

\* The control of the two readers: what the watcher reads, from which region, and how far it is.
WatcherInv ==
  /\ At("open") \/ At("read") =>
       w.local.gen \in 1 .. Gen /\ Len(w.local.refs) \in 1 .. FramesPerBurst
  /\ ~At("read") => w.local.ok = 0
  /\ poller.gen <= Gen
  /\ At("read") =>
       /\ w.local.next \in 1 .. Len(w.local.refs) + 1
       /\ w.local.ok <= w.local.next - 1

\* The control of the loopback: a request names slots of a region that exists, and its thread
\* writes to an echo region that exists.
RequestInv(request, gens, echo_gens) ==
  /\ request.pc # "idle" => gens >= 1 /\ request.refs # <<>> /\ request.asked <= gens
  /\ request.pc \notin {"idle", "open"} => request.gen \in 1 .. gens /\ request.next >= 1
  /\ request.pc = "save" => request.next <= Len(request.refs)
  /\ request.pc \in {"write_echo", "publish_echo", "call_hub"} => request.echo \in 1 .. echo_gens

LoopbackInv ==
  /\ \A t \in Threads : caller[t].pc = "build" => hub # "down" /\ caller[t].refs # <<>>
  /\ \A h \in Handlers : RequestInv(handler[h], Gen, EchoGen)

\* The watcher follows the publications: what it reads is newer than what it saved, what is
\* published is not older than either, and the latest publication, once saved, is the one the
\* watcher remembers by its id.
SavedInv ==
  /\ \A i \in DOMAIN saved :
       /\ saved[i].number <= bursts
       /\ writer.active => saved[i].number < bursts
       /\ latest # NoLatest =>
            saved[i].number <= latest.number /\ (saved[i].number = latest.number => w.last = latest.id)
       /\ At("open") \/ At("read") => saved[i].number < w.local.number
  /\ latest # NoLatest => latest.number <= bursts /\ (writer.active => latest.number < bursts)
  /\ At("open") \/ At("read") =>
       /\ w.local.number <= bursts
       /\ writer.active => w.local.number < bursts
       /\ latest # NoLatest =>
            w.local.number <= latest.number /\ (w.local.number = latest.number => w.local.key = latest.id)

\* As long as the slot's seq is the recorded one, the slot holds the recorded frame or was torn
\* since: by the copy in progress, or, in a region no hub writes any more, by the last one.
RefHolds(gen, ref, frame) ==
  LET slot == regions[gen][ref.slot]
  IN /\ ref.seq <= slot.seq
     /\ slot.seq = ref.seq =>
          \/ slot.data = frame
          \/ /\ slot.data = Torn
             /\ gen = Gen /\ hub # "down" => writer.copying /\ ref.slot = WriterCursor

\* A slot under the copy is torn.
TornInv == writer.copying => regions[Gen][WriterCursor].data = Torn

AllHold(gen, refs, number) ==
  \A i \in DOMAIN refs : RefHolds(gen, refs[i], FrameOf(number, i))

\* Wherever the references of a publication are kept, they hold in the region they are about.
WriterRefsHold == writer.active => AllHold(Gen, writer.refs, bursts)

SeqInv ==
  /\ WriterRefsHold
  /\ \A t \in Threads :
       caller[t].pc = "build" => AllHold(Gen, caller[t].refs, caller[t].number)
  /\ \A h \in Handlers :
       ~Is(h, "idle") /\ handler[h].asked # 0 =>
         AllHold(handler[h].asked, handler[h].refs, handler[h].number)

\* A frame found good by the check is good until the handler saves it or is disturbed.
SureInv ==
  \A h \in Handlers :
    Is(h, "save") /\ handler[h].sure =>
      /\ HubSlot(h, CheckedRef(h)).data = FrameOf(handler[h].number, handler[h].next)
      /\ HubSlot(h, CheckedRef(h)).data # Torn

FirstPassed(h) == ~Is(h, "open") /\ (Is(h, "check") => handler[h].next > 1)

\* A request that is alone: nothing is written to either ring but its own echo, its region is
\* the running hub's, and the first frame is what it was once its check has passed.
AloneHolds(h) ==
  /\ hub # "down" /\ ~writer.copying
  /\ handler[h].asked = Gen
  /\ ~Is(h, "open") => handler[h].gen = Gen
  /\ \A g \in Handlers \ {h} : Is(g, "idle")
  /\ FirstPassed(h) => HubSlot(h, EchoedRef(h)).data = FrameOf(handler[h].number, 1)
  /\ handler[h].pc \in {"write_echo", "publish_echo", "call_hub"} => handler[h].echo = EchoGen
  /\ handler[h].pc \in {"publish_echo", "call_hub"} =>
       echo_regions[EchoGen][echo_cursor[h]].data = FrameOf(handler[h].number, 1)

AloneInv == \A h \in Handlers : ~Is(h, "idle") /\ handler[h].alone => AloneHolds(h)

\* Steps of the cursor c until the slot s is written.
Ahead(c, s) == IF s >= c THEN s - c ELSE s + SlotCount - c

\* Slot writes every thread has ended.
Ended ==
  [t \in Threads |-> IF writer.copying /\ writer.thread = t THEN writes[t] - 1 ELSE writes[t]]

\* A publication was made when no write was in progress.
Since(mark) == \A t \in Threads : mark.writes[t] <= Ended[t]

\* While a publication has grace, its frames are in their slots, and the cursor of the thread that
\* wrote it is as far from the i-th as its writes since and the later slots leave it.
GraceHolds(gen, refs, number, mark) ==
  ~GraceOver(mark) =>
    \A i \in DOMAIN refs :
      /\ regions[gen][refs[i].slot].data = FrameOf(number, i)
      /\ gen = Gen /\ hub # "down" =>
           Ahead(cursor[mark.thread], refs[i].slot) + (Ended[mark.thread] - mark.writes[mark.thread])
             >= SlotCount - mark.slots + i - 1

\* The burst being written is in the slots behind the cursor of its thread, one after the other.
WriterGrace ==
  writer.active =>
    \A i \in DOMAIN writer.refs :
      /\ regions[Gen][writer.refs[i].slot].data = FrameOf(bursts, i)
      /\ Ahead(WriterCursor, writer.refs[i].slot) = SlotCount - (writer.next - i)

LatestGrace ==
  latest # NoLatest =>
    Since(latest.mark) /\ GraceHolds(Gen, latest.refs, latest.number, latest.mark)

ReaderGrace ==
  At("open") \/ (At("read") /\ ~w.local.replaced) =>
    Since(w.local.mark) /\ GraceHolds(w.local.gen, w.local.refs, w.local.number, w.local.mark)

GraceInv == WriterGrace /\ LatestGrace /\ ReaderGrace

-----------------------------------------------------------------------------
\* What happens to the hub in a step of the system.

HubReady ==
  /\ hub # "down"
  /\ hub' = "ready"
  /\ UNCHANGED <<sid, regions, cursor, writer, latest, bursts, writes>>

HubMoves ==
  \/ HubStarts \/ HubStops \/ SessionCloses \/ HubReady
  \/ \E t \in Threads, id \in CaptureIds, rec \in RecModes : Writes(t, id, rec)
  \/ SlotCopyBegins \/ SlotCopyEnds \/ BurstPublished
  \/ UNCHANGED reconHubVars

LEMMA Constants ==
  /\ SlotCount \in Nat /\ SlotCount >= 1
  /\ FramesPerBurst \in Nat /\ FramesPerBurst >= 1
  /\ RecModes \subseteq BOOLEAN
  /\ CaptureIds \subseteq Nat \ {0}
  /\ MaxStarts \in Nat /\ MaxSaveFailures \in Nat
BY SlotCountAssumption, ReconHubAssumption, WatcherAssumption

LEMMA AThread == SomeThread \in Threads
BY ReconHubAssumption DEF SomeThread, Threads

\* A publication has at least one raw frame, and with its result it fits the ring.
LEMMA FramesFit ==
  ASSUME NEW t \in Threads, NEW rec \in RecModes
  PROVE  /\ RawFrames(t) \in 1 .. FramesPerBurst
         /\ RawFrames(t) + ResultSlots(rec) \in RawFrames(t) .. SlotCount
<1>1. /\ RawFrames(t) \in Nat /\ RawFrames(t) >= 1 /\ RawFrames(t) <= FramesPerBurst
  BY Constants DEF RawFrames
<1>2. ResultSlots(rec) \in {0, 1}
  BY DEF ResultSlots
<1>3. FramesPerBurst + ResultSlots(rec) <= SlotCount
  BY ReconHubAssumption
<1>4. QED
  BY <1>1, <1>2, <1>3, Constants

LEMMA RawFramesTyped ==
  ASSUME NEW t \in Threads PROVE RawFrames(t) \in 1 .. FramesPerBurst /\ RawFrames(t) \in Nat
BY Constants DEF RawFrames

LEMMA ReaderLeavesHub ==
  ASSUME NEW h \in Handlers, HandlerStep(h)
  PROVE  UNCHANGED reconHubVars
BY DEF HandlerStep, HandlerFails, EchoTooSmall, OpensHubRing, ChecksSlot, SavesSlot, OpensEcho, CreatesEcho, CopiesEcho,
       PublishesEcho, HubSavesEcho

LEMMA WatcherLeavesHub ==
  ASSUME WatcherStep \/ WatcherFailure \/ PollerStep
  PROVE  HubReady \/ UNCHANGED reconHubVars
BY DEF WatcherStep, WatcherFailure, PollerStep, WatcherConnects, PollLosesHub, PollFindsBurst,
       OpensRegion, ReadsFrame, BatchEnds, DirectoryFails, FrameSaveFails, PollerStarts,
       PollerTakes, HubReady

LEMMA CapturesWrite ==
  ASSUME setup \in Setups, Captures
  PROVE  \E t \in Threads, id \in CaptureIds, rec \in RecModes : Writes(t, id, rec)
<1>1. setup.recs \subseteq RecModes
  BY SetupsAssumption
<1>2. PICK id \in Ids, rec \in setup.recs :
        \/ \E t \in Used(CameraThreads) : BurstBegins(t, id, rec)
        \/ \E t \in Used(GrpcThreads) : InlineBegins(t, id, rec)
  BY DEF Captures
<1>3. \E t \in Threads : Writes(t, id, rec)
  BY <1>2 DEF BurstBegins, InlineBegins, Threads
<1>4. QED
  BY <1>1, <1>2, <1>3 DEF Ids

LEMMA HubCases == ASSUME setup \in Setups, [Next]_vars PROVE HubMoves
<1>1. CASE UNCHANGED vars
  BY <1>1 DEF vars, HubMoves
<1>2. CASE HubStep
  <2>1. CASE HubStarts
    BY <2>1 DEF HubMoves
  <2>2. CASE SessionReopens
    BY <2>2 DEF SessionReopens, HubReady, HubMoves
  <2>3. CASE Captures
    BY <2>3, CapturesWrite DEF HubMoves
  <2>4. CASE HubProcessStops \/ SessionClosesUnder
    BY <2>4 DEF HubProcessStops, SessionClosesUnder, HubMoves
  <2>5. CASE BurstWrite
    BY <2>5 DEF BurstWrite, PublishesOnly, LoopbackBegins, CopyBeginsBeside, HubMoves
  <2>6. QED
    BY <1>2, <2>1, <2>2, <2>3, <2>4, <2>5 DEF HubStep
<1>3. CASE WatcherStep \/ WatcherFailure \/ PollerStep
  BY <1>3, WatcherLeavesHub DEF HubMoves
<1>4. CASE LoopbackStep
  <2>1. CASE \E t \in Threads : BuildsSlots(t) \/ CallGivesUp(t)
    BY <2>1 DEF BuildsSlots, CallGivesUp, HubMoves
  <2>2. CASE \E h \in Handlers : HandlerStep(h)
    BY <2>2, ReaderLeavesHub DEF HubMoves
  <2>3. QED
    BY <1>4, <2>1, <2>2 DEF LoopbackStep
<1>5. QED
  BY <1>1, <1>2, <1>3, <1>4 DEF Next

-----------------------------------------------------------------------------
\* The rings.

LEMMA CursorMoves == ASSUME NEW c \in Slots PROVE NextCursor(c) \in Slots
BY Constants DEF Slots, NextCursor

LEMMA FramesAreData == ASSUME NEW number \in Nat, NEW index \in Nat
  PROVE FrameOf(number, index) \in SlotData
BY DEF FrameOf, SlotData

\* A region of a sequence of them changes in one slot.
LEMMA SlotWritten ==
  ASSUME NEW all \in Seq([Slots -> Slot]), NEW g \in 1 .. Len(all), NEW c \in Slots,
         NEW slot \in Slot, NEW written,
         written = [all EXCEPT ![g] = [all[g] EXCEPT ![c] = slot]]
  PROVE  /\ written \in Seq([Slots -> Slot])
         /\ Len(written) = Len(all)
         /\ \A i \in 1 .. Len(all), s \in Slots :
              written[i][s] = IF i = g /\ s = c THEN slot ELSE all[i][s]
<1> DEFINE ring == [all[g] EXCEPT ![c] = slot]
<1>1. all[g] \in [Slots -> Slot]
  BY ElementOfSeq
<1>2. ring \in [Slots -> Slot] /\ \A s \in Slots : ring[s] = IF s = c THEN slot ELSE all[g][s]
  BY <1>1
<1> HIDE DEF ring
<1>3. /\ written = [all EXCEPT ![g] = ring]
      /\ written \in Seq([Slots -> Slot])
      /\ Len(written) = Len(all)
      /\ \A i \in 1 .. Len(all) : written[i] = IF i = g THEN ring ELSE all[i]
  <2>1. written = [all EXCEPT ![g] = ring]
    BY DEF ring
  <2>2. ring \in [Slots -> Slot]
    BY <1>2
  <2>3. /\ [all EXCEPT ![g] = ring] \in Seq([Slots -> Slot])
        /\ Len([all EXCEPT ![g] = ring]) = Len(all)
        /\ \A i \in 1 .. Len(all) :
             [all EXCEPT ![g] = ring][i] = IF i = g THEN ring ELSE all[i]
    BY <2>2, LenProperties, SMTT(60)
  <2>4. QED
    BY <2>1, <2>3
<1>4. QED
  BY <1>2, <1>3

LEMMA NewRegion ==
  ASSUME NEW all \in Seq([Slots -> Slot])
  PROVE  /\ Append(all, CreatedRing) \in Seq([Slots -> Slot])
         /\ Len(Append(all, CreatedRing)) = Len(all) + 1
         /\ \A i \in 1 .. Len(all) : Append(all, CreatedRing)[i] = all[i]
<1>1. CreatedRing \in [Slots -> Slot]
  BY DEF CreatedRing, Slot, SlotData
<1>2. QED
  BY <1>1, AppendProperties

\* The hub's copy begins: one slot is torn.
LEMMA TornSlot ==
  ASSUME HubTypeOK, HubInv, SlotCopyBegins
  PROVE  /\ WriterCursor \in Slots /\ Gen \in Nat /\ Gen >= 1
         /\ regions' \in Seq([Slots -> Slot]) /\ Gen' = Gen
         /\ \A g \in 1 .. Gen, s \in Slots :
              /\ regions'[g][s].seq = regions[g][s].seq
              /\ regions'[g][s].data =
                   IF g = Gen /\ s = WriterCursor THEN Torn ELSE regions[g][s].data
<1>1. /\ writer.thread \in Threads /\ writer.active
      /\ cursor \in [Threads -> Slots]
      /\ regions \in Seq([Slots -> Slot])
  BY DEF HubTypeOK, SlotCopyBegins
<1>2. WriterCursor \in Slots
  BY <1>1 DEF WriterCursor
<1>3. Gen \in Nat /\ Gen >= 1 /\ Gen \in 1 .. Len(regions)
  BY <1>1, LenProperties DEF Gen, HubInv
<1> DEFINE slot == [regions[Gen][WriterCursor] EXCEPT !.data = Torn]
<1>4. \A g \in 1 .. Gen, s \in Slots : regions[g][s] \in Slot
  BY <1>1, ElementOfSeq DEF Gen
<1>5. /\ slot \in Slot /\ slot.data = Torn /\ slot.seq = regions[Gen][WriterCursor].seq
  BY <1>2, <1>3, <1>4 DEF Slot, SlotData
<1>6. regions' = [regions EXCEPT ![Gen] = [regions[Gen] EXCEPT ![WriterCursor] = slot]]
  BY DEF SlotCopyBegins
<1> HIDE DEF slot
<1>7. /\ regions' \in Seq([Slots -> Slot])
      /\ Len(regions') = Len(regions)
      /\ \A i \in 1 .. Len(regions), s \in Slots :
           regions'[i][s] = IF i = Gen /\ s = WriterCursor THEN slot ELSE regions[i][s]
  BY <1>1, <1>2, <1>3, <1>5, <1>6, SlotWritten
<1>8. QED
  BY <1>2, <1>3, <1>5, <1>7 DEF Gen

\* The hub's copy ends: one slot has the next seq and the payload.
LEMMA PublishedInSlot ==
  ASSUME HubTypeOK, HubInv, SlotCopyEnds
  PROVE  /\ WriterCursor \in Slots /\ Gen \in Nat /\ Gen >= 1
         /\ regions' \in Seq([Slots -> Slot]) /\ Gen' = Gen
         /\ \A g \in 1 .. Gen, s \in Slots :
              /\ regions'[g][s].seq =
                   IF g = Gen /\ s = WriterCursor THEN regions[g][s].seq + 1 ELSE regions[g][s].seq
              /\ regions'[g][s].data =
                   IF g = Gen /\ s = WriterCursor THEN WriterFrame ELSE regions[g][s].data
<1>1. /\ writer.thread \in Threads /\ writer.copying /\ writer.active /\ writer.next \in Nat
      /\ cursor \in [Threads -> Slots] /\ bursts \in Nat
      /\ regions \in Seq([Slots -> Slot])
  BY DEF HubTypeOK, SlotCopyEnds, HubInv
<1>2. WriterCursor \in Slots
  BY <1>1 DEF WriterCursor
<1>3. Gen \in Nat /\ Gen >= 1 /\ Gen \in 1 .. Len(regions)
  BY <1>1, LenProperties DEF Gen, HubInv
<1> DEFINE slot == PublishedSlot(regions[Gen][WriterCursor], WriterFrame)
<1>4. \A g \in 1 .. Gen, s \in Slots : regions[g][s] \in Slot
  BY <1>1, ElementOfSeq DEF Gen
<1>5. WriterFrame \in SlotData
  <2>1. (IF writer.next <= RawFrames(writer.thread) THEN writer.next ELSE 1) \in Nat
    BY <1>1
  <2>2. QED
    BY <1>1, <2>1, FramesAreData DEF WriterFrame
<1>6. slot \in Slot /\ slot.data = WriterFrame /\ slot.seq = regions[Gen][WriterCursor].seq + 1
  BY <1>2, <1>3, <1>4, <1>5 DEF Slot, PublishedSlot
<1>7. regions' = [regions EXCEPT ![Gen] = [regions[Gen] EXCEPT ![WriterCursor] = slot]]
  BY DEF SlotCopyEnds, TryWriteNextSlot
<1> HIDE DEF slot
<1>8. /\ regions' \in Seq([Slots -> Slot])
      /\ Len(regions') = Len(regions)
      /\ \A i \in 1 .. Len(regions), s \in Slots :
           regions'[i][s] = IF i = Gen /\ s = WriterCursor THEN slot ELSE regions[i][s]
  BY <1>1, <1>2, <1>3, <1>6, <1>7, SlotWritten
<1>9. QED
  BY <1>2, <1>3, <1>6, <1>8 DEF Gen

-----------------------------------------------------------------------------
\* The hub keeps its types and its control.

WriteRecords == [active : BOOLEAN, thread : Threads, id : Nat, next : Nat, slots : Nat,
                 copying : BOOLEAN, refs : Seq(RefType)]

LEMMA NothingWritten ==
  /\ NotWriting \in WriteRecords
  /\ ~NotWriting.active /\ ~NotWriting.copying
<1>1. <<>> \in Seq(RefType)
  BY EmptySeq
<1>2. QED
  BY <1>1, AThread DEF NotWriting, WriteRecords

LEMMA NoCursors == Zeros \in [Threads -> Slots] /\ Zeros \in [Threads -> Nat]
BY Constants DEF Zeros, Slots

LEMMA NothingMarked == NoMark \in MarkType
BY AThread, NoCursors DEF NoMark, MarkType

LEMMA NothingPublished ==
  NoLatest \in [id : Nat, number : Nat, refs : Seq(RefType), mark : MarkType]
<1>1. <<>> \in Seq(RefType)
  BY EmptySeq
<1>2. QED
  BY <1>1, NothingMarked DEF NoLatest

LEMMA HubTypedInitially == HubInit => HubTypeOK /\ HubInv
<1> SUFFICES ASSUME HubInit PROVE HubTypeOK /\ HubInv
    OBVIOUS
<1>1. regions \in Seq([Slots -> Slot]) /\ Gen = 0
  BY EmptySeq DEF HubInit, Gen
<1>2. HubTypeOK
  BY <1>1, NothingWritten, NothingPublished, NoCursors DEF HubInit, HubTypeOK, WriteRecords
<1>3. HubInv
  BY <1>1, NothingWritten, Constants DEF HubInit, HubInv
<1>4. QED
  BY <1>2, <1>3

LEMMA WriteBegins ==
  ASSUME HubTypeOK, HubInv, NEW thread \in Threads, NEW id \in CaptureIds, NEW rec \in RecModes,
         Writes(thread, id, rec)
  PROVE  HubTypeOK' /\ HubInv'
<1> DEFINE raw == RawFrames(thread)
           all == RawFrames(thread) + ResultSlots(rec)
<1>1. /\ ~writer.active /\ hub = "ready" /\ bursts' = bursts + 1
      /\ UNCHANGED <<hub, sid, regions, cursor, latest, writes>>
      /\ writer' = [NotWriting EXCEPT !.active = TRUE, !.thread = thread, !.id = id, !.next = 1,
                                     !.slots = all]
  BY DEF Writes
<1>2. id \in Nat
  BY Constants
<1>3. <<>> \in Seq(RefType) /\ Len(<<>>) = 0
  BY EmptySeq
<1>4. raw \in Nat /\ raw >= 1 /\ all \in raw .. SlotCount /\ all \in Nat
  BY FramesFit, RawFramesTyped, Constants
<1> HIDE DEF all
<1>5. /\ writer'.active /\ writer'.thread = thread /\ writer'.next = 1 /\ ~writer'.copying
      /\ writer'.slots = all /\ writer'.refs = <<>>
      /\ writer' \in WriteRecords
  <2> DEFINE refs == <<>>
  <2>1. refs \in Seq(RefType) /\ all \in Nat
    BY <1>3, <1>4
  <2> HIDE DEF refs
  <2>2. writer' = [active |-> TRUE, thread |-> thread, id |-> id, next |-> 1, slots |-> all,
                   copying |-> FALSE, refs |-> refs]
    BY <1>1 DEF NotWriting, refs
  <2>3. writer' \in WriteRecords
    BY <1>2, <2>1, <2>2 DEF WriteRecords
  <2>4. QED
    BY <2>2, <2>3 DEF refs
<1>6. HubTypeOK'
  <2>1. bursts' \in Nat
    BY <1>1 DEF HubTypeOK
  <2>2. QED
    BY <1>1, <1>5, <2>1, SMTT(20) DEF HubTypeOK, WriteRecords
<1>7. HubInv'
  <2>1. RawWritten' = 0 /\ RawFrames(thread)' = raw
    BY <1>4, <1>5 DEF RawWritten, RawFrames
  <2>2. Len(writer'.refs) = RawWritten' /\ RawFrames(writer'.thread) = raw
    BY <1>3, <1>5, <2>1
  <2>3. writer'.next \in 1 .. writer'.slots + 1 /\ writer'.slots \in raw .. SlotCount
    BY <1>4, <1>5
  <2>4. QED
    BY <1>1, <1>5, <2>2, <2>3 DEF HubInv, Gen
<1>8. QED
  BY <1>6, <1>7

\* A slot of a raw frame that was written is referenced with the seq it has.
LEMMA RefAppended ==
  ASSUME HubTypeOK, HubInv, SlotCopyEnds
  PROVE  /\ writer.active /\ writer'.active /\ ~writer'.copying
         /\ writer'.thread = writer.thread /\ writer'.slots = writer.slots
         /\ writer'.id = writer.id /\ writer'.next = writer.next + 1
         /\ writer' \in WriteRecords
         /\ Len(writer'.refs) = RawWritten'
         /\ \A i \in 1 .. Len(writer.refs) :
              i \in 1 .. Len(writer'.refs) /\ writer'.refs[i] = writer.refs[i]
         /\ \A i \in 1 .. Len(writer'.refs) :
              \/ i \in 1 .. Len(writer.refs)
              \/ /\ i = writer.next
                 /\ WriterFrame = FrameOf(bursts, i)
                 /\ writer'.refs[i] =
                      [slot |-> WriterCursor, seq |-> regions'[Gen][WriterCursor].seq]
<1> DEFINE n == Len(writer.refs)
           raw == RawFrames(writer.thread)
<1>1. /\ writer.copying /\ writer.refs \in Seq(RefType)
      /\ writer \in WriteRecords
      /\ regions \in Seq([Slots -> Slot])
  BY DEF HubTypeOK, SlotCopyEnds, WriteRecords
<1>2. writer.active /\ writer.next \in Nat /\ writer.next >= 1 /\ n \in Nat /\ n = RawWritten
  BY <1>1 DEF HubInv, WriteRecords
<1>3. raw \in Nat
  BY <1>1, RawFramesTyped DEF WriteRecords
<1>4. /\ WriterCursor \in Slots /\ Gen \in 1 .. Gen
      /\ regions'[Gen][WriterCursor].seq = regions[Gen][WriterCursor].seq + 1
  BY PublishedInSlot
<1>5. regions[Gen] \in [Slots -> Slot]
  BY <1>1, <1>4, ElementOfSeq DEF Gen
<1>6. WriterRef \in RefType /\ WriterRef = [slot |-> WriterCursor, seq |-> regions'[Gen][WriterCursor].seq]
  BY <1>4, <1>5 DEF RefType, Slot, WriterRef
<1>7. writer' = [writer EXCEPT !.copying = FALSE, !.next = @ + 1, !.refs = RefsAfter]
  BY DEF SlotCopyEnds
<1>8. RefsAfter \in Seq(RefType)
  BY <1>1, <1>6, AppendProperties DEF RefsAfter
<1>9. /\ writer'.active /\ ~writer'.copying
      /\ writer'.thread = writer.thread /\ writer'.slots = writer.slots
      /\ writer'.id = writer.id /\ writer'.next = writer.next + 1
      /\ writer'.refs = RefsAfter
      /\ writer' \in WriteRecords
  <2> DEFINE refs == RefsAfter
  <2>1. writer' = [writer EXCEPT !.copying = FALSE, !.next = @ + 1, !.refs = refs] /\ refs \in Seq(RefType)
    BY <1>7, <1>8
  <2> HIDE DEF refs
  <2>2. /\ writer'.active = writer.active /\ ~writer'.copying
        /\ writer'.thread = writer.thread /\ writer'.slots = writer.slots
        /\ writer'.id = writer.id /\ writer'.next = writer.next + 1
        /\ writer'.refs = refs
    BY <1>1, <2>1 DEF WriteRecords
  <2>3. writer.next + 1 \in Nat
    BY <1>2
  <2>4. writer' \in WriteRecords
    BY <1>1, <2>1, <2>3 DEF WriteRecords
  <2>5. QED
    BY <1>2, <2>2, <2>4 DEF refs
<1>10. RawWritten' = IF writer.next + 1 <= raw THEN writer.next ELSE raw
  BY <1>2, <1>9 DEF RawWritten, RawFrames
<1>11. CASE writer.next <= raw
  <2>1. n = writer.next - 1 /\ RawWritten' = writer.next /\ WriterFrame = FrameOf(bursts, writer.next)
    BY <1>2, <1>3, <1>10, <1>11 DEF RawWritten, WriterFrame
  <2>2. RefsAfter = Append(writer.refs, WriterRef)
    BY <1>11 DEF RefsAfter
  <2>3. /\ Len(RefsAfter) = n + 1
        /\ \A i \in 1 .. n : RefsAfter[i] = writer.refs[i]
        /\ RefsAfter[n + 1] = WriterRef
    BY <1>1, <1>6, <2>2, AppendProperties
  <2> HIDE DEF n, raw
  <2>4. n + 1 = writer.next /\ \A i \in 1 .. n + 1 : i \in 1 .. n \/ i = n + 1
    BY <1>2, <2>1
  <2>5. \A i \in 1 .. n : i \in 1 .. n + 1
    BY <1>2
  <2>6. QED
    BY <1>2, <1>6, <1>9, <2>1, <2>3, <2>4, <2>5 DEF n
<1>12. CASE ~(writer.next <= raw)
  <2>1. n = raw /\ RawWritten' = raw /\ RefsAfter = writer.refs
    BY <1>2, <1>3, <1>10, <1>12 DEF RawWritten, RefsAfter
  <2>2. QED
    BY <1>2, <1>9, <2>1
<1>13. QED
  BY <1>11, <1>12

\* What is published: the slots of the raw frames.
LEMMA RefsPublished ==
  ASSUME HubTypeOK, HubInv, BurstPublished
  PROVE  /\ writer.active /\ ~writer.copying /\ hub = "ready" /\ writer.next = writer.slots + 1
         /\ writer.slots \in 1 .. SlotCount /\ writer.thread \in Threads
         /\ writer.refs \in Seq(RefType)
         /\ Len(writer.refs) \in 1 .. FramesPerBurst
         /\ Len(writer.refs) <= writer.slots
         /\ latest' = Publication
         /\ Publication \in [id : Nat, number : Nat, refs : Seq(RefType), mark : MarkType]
<1>1. /\ writer.active /\ ~writer.copying /\ writer.thread \in Threads /\ writer.refs \in Seq(RefType)
      /\ writer.next \in Nat /\ writer.slots \in Nat /\ writer.next > writer.slots
      /\ writer.id \in Nat /\ bursts \in Nat /\ writes \in [Threads -> Nat]
      /\ latest' = Publication
  BY DEF HubTypeOK, BurstPublished
<1>2. /\ hub = "ready"
      /\ writer.next \in 1 .. writer.slots + 1
      /\ writer.slots \in RawFrames(writer.thread) .. SlotCount
      /\ Len(writer.refs) = RawWritten
  BY <1>1 DEF HubInv
<1>3. RawFrames(writer.thread) \in 1 .. FramesPerBurst
  BY <1>1, RawFramesTyped
<1>4. writer.next = writer.slots + 1 /\ writer.slots \in 1 .. SlotCount
  BY <1>1, <1>2, <1>3, Constants, SMTT(20)
<1>5. RawWritten = RawFrames(writer.thread) /\ RawFrames(writer.thread) <= writer.slots
  BY <1>2, <1>3, <1>4, Constants DEF RawWritten
<1>6. Publication \in [id : Nat, number : Nat, refs : Seq(RefType), mark : MarkType]
  BY <1>1 DEF Publication, MarkType
<1>7. QED
  BY <1>1, <1>2, <1>3, <1>4, <1>5, <1>6

LEMMA HubInductive ==
  ASSUME HubTypeOK, HubInv, HubMoves
  PROVE  HubTypeOK' /\ HubInv'
<1>1. CASE HubStarts
  <2>1. /\ Append(regions, CreatedRing) \in Seq([Slots -> Slot])
        /\ Len(Append(regions, CreatedRing)) = Gen + 1
    BY NewRegion DEF HubTypeOK, Gen
  <2>2. Gen \in Nat /\ Gen < MaxStarts
    BY <1>1 DEF HubStarts, HubTypeOK, Gen
  <2>3. hub = "down" /\ ~writer.active /\ ~writer.copying /\ latest = NoLatest
    BY <1>1 DEF HubStarts, HubInv
  <2>4. /\ hub' = "ready" /\ sid' \in SessionIds /\ regions' = Append(regions, CreatedRing)
        /\ UNCHANGED <<cursor, writer, latest, bursts, writes>>
    BY <1>1 DEF HubStarts
  <2>5. HubTypeOK'
    BY <2>1, <2>4 DEF HubTypeOK
  <2>6. Gen' = Gen + 1
    BY <2>1, <2>4 DEF Gen
  <2>7. HubInv'
    BY <2>2, <2>3, <2>4, <2>6, Constants DEF HubInv
  <2>8. QED
    BY <2>5, <2>7
<1>2. CASE HubStops
  <2>1. HubTypeOK'
    BY <1>2, NothingWritten, NothingPublished, NoCursors DEF HubStops, HubTypeOK, WriteRecords
  <2>2. HubInv'
    BY <1>2, NothingWritten DEF HubStops, HubInv, Gen
  <2>3. QED
    BY <2>1, <2>2
<1>3. CASE SessionCloses
  <2>1. HubTypeOK'
    BY <1>3, NothingPublished DEF SessionCloses, HubTypeOK
  <2>2. HubInv'
    BY <1>3 DEF SessionCloses, HubInv, Gen
  <2>3. QED
    BY <2>1, <2>2
<1>4. CASE HubReady
  BY <1>4 DEF HubReady, HubTypeOK, HubInv, Gen, RawWritten
<1>5. ASSUME NEW t \in Threads, NEW id \in CaptureIds, NEW rec \in RecModes, Writes(t, id, rec)
      PROVE  HubTypeOK' /\ HubInv'
  BY <1>5, WriteBegins
<1>6. CASE SlotCopyBegins
  <2>1. /\ writer.active /\ ~writer.copying /\ writer.next <= writer.slots
        /\ writer' = [writer EXCEPT !.copying = TRUE]
        /\ writes' = [writes EXCEPT ![writer.thread] = @ + 1]
        /\ UNCHANGED <<hub, sid, cursor, latest, bursts>>
    BY <1>6 DEF SlotCopyBegins
  <2>2. regions' \in Seq([Slots -> Slot]) /\ Gen' = Gen
    BY <1>6, TornSlot
  <2>3. HubTypeOK'
    <3>1. writer' \in WriteRecords
      BY <2>1 DEF HubTypeOK, WriteRecords
    <3>2. writes' \in [Threads -> Nat]
      BY <2>1 DEF HubTypeOK
    <3>3. QED
      BY <2>1, <2>2, <3>1, <3>2 DEF HubTypeOK, WriteRecords
  <2>4. /\ writer'.active = writer.active /\ writer'.refs = writer.refs /\ writer'.next = writer.next
        /\ writer'.slots = writer.slots /\ writer'.thread = writer.thread
    BY <2>1 DEF HubTypeOK
  <2>5. RawWritten' = RawWritten
    BY <2>4 DEF RawWritten, RawFrames
  <2>6. HubInv'
    BY <2>1, <2>2, <2>4, <2>5 DEF HubInv
  <2>7. QED
    BY <2>3, <2>6
<1>7. CASE SlotCopyEnds
  <2>1. /\ cursor' = [cursor EXCEPT ![writer.thread] = NextCursor(@)]
        /\ UNCHANGED <<hub, sid, latest, bursts, writes>>
        /\ writer.copying
    BY <1>7 DEF SlotCopyEnds
  <2>2. regions' \in Seq([Slots -> Slot]) /\ Gen' = Gen
    BY <1>7, PublishedInSlot
  <2>3. /\ writer.active /\ writer'.active /\ ~writer'.copying
        /\ writer'.thread = writer.thread /\ writer'.slots = writer.slots
        /\ writer'.next = writer.next + 1
        /\ writer' \in WriteRecords
        /\ Len(writer'.refs) = RawWritten'
    BY <1>7, RefAppended
  <2>4. cursor' \in [Threads -> Slots]
    BY <2>1, CursorMoves DEF HubTypeOK
  <2>5. HubTypeOK'
    BY <2>1, <2>2, <2>3, <2>4 DEF HubTypeOK, WriteRecords
  <2>6. HubInv'
    <3>1. /\ writer.next \in Nat /\ writer.slots \in Nat /\ writer.next <= writer.slots
          /\ writer.next \in 1 .. writer.slots + 1
          /\ writer.slots \in RawFrames(writer.thread) .. SlotCount
      BY <2>1, <2>3 DEF HubInv, HubTypeOK
    <3>2. writer'.next \in 1 .. writer'.slots + 1 /\ writer'.slots \in RawFrames(writer'.thread) .. SlotCount
      BY <2>3, <3>1
    <3>3. QED
      BY <2>1, <2>2, <2>3, <3>2 DEF HubInv
  <2>7. QED
    BY <2>5, <2>6
<1>8. CASE BurstPublished
  <2>1. writer' = NotWriting /\ UNCHANGED <<hub, sid, regions, cursor, bursts, writes>>
    BY <1>8 DEF BurstPublished
  <2>2. /\ Len(writer.refs) \in 1 .. FramesPerBurst /\ hub = "ready"
        /\ latest' = Publication
        /\ Publication \in [id : Nat, number : Nat, refs : Seq(RefType), mark : MarkType]
    BY <1>8, RefsPublished
  <2>3. HubTypeOK'
    BY <2>1, <2>2, NothingWritten DEF HubTypeOK, WriteRecords
  <2>4. latest'.refs = writer.refs
    BY <2>2 DEF Publication
  <2>5. HubInv'
    BY <2>1, <2>2, <2>4, NothingWritten DEF HubInv, Gen
  <2>6. QED
    BY <2>3, <2>5
<1>9. CASE UNCHANGED reconHubVars
  BY <1>9 DEF reconHubVars, HubTypeOK, HubInv, Gen, RawWritten
<1>10. QED
  BY <1>1, <1>2, <1>3, <1>4, <1>5, <1>6, <1>7, <1>8, <1>9 DEF HubMoves

-----------------------------------------------------------------------------
\* The watcher keeps its types and its control.

LEMMA RegionsStay ==
  ASSUME HubTypeOK, HubInv, HubMoves
  PROVE  Gen \in Nat /\ Gen' \in Nat /\ Gen <= Gen' /\ Gen' <= MaxStarts /\ Gen <= MaxStarts
<1>1. HubTypeOK' /\ HubInv'
  BY HubInductive
<1>2. Gen \in Nat /\ Gen' \in Nat
  BY <1>1, SMTT(20) DEF HubTypeOK, Gen
<1>3. Gen' = Gen \/ Gen' = Gen + 1
  <2>1. CASE HubStarts
    BY <2>1, NewRegion DEF HubStarts, HubTypeOK, Gen
  <2>2. CASE SlotCopyBegins
    BY <2>2, TornSlot
  <2>3. CASE SlotCopyEnds
    BY <2>3, PublishedInSlot
  <2>4. CASE HubStops \/ SessionCloses \/ HubReady \/ BurstPublished \/ UNCHANGED reconHubVars
    BY <2>4 DEF HubStops, SessionCloses, HubReady, BurstPublished, reconHubVars, Gen
  <2>5. CASE \E t \in Threads, id \in CaptureIds, rec \in RecModes : Writes(t, id, rec)
    BY <2>5 DEF Writes, Gen
  <2>6. QED
    BY <2>1, <2>2, <2>3, <2>4, <2>5 DEF HubMoves
<1>4. QED
  BY <1>1, <1>2, <1>3 DEF HubInv

LEMMA WatcherCases ==
  ASSUME [Next]_vars
  PROVE  \/ UNCHANGED watcherVars
         \/ /\ UNCHANGED <<setup, loopbackVars>>
            /\ WatcherStep \/ WatcherFailure \/ PollerStep
BY DEF Next, HubStep, LoopbackStep, vars

Local == [pc : {"connect", "poll", "open", "read"}, sid : SessionIds \union {0}, key : Nat,
          number : Nat, refs : Seq(RefType), gen : 0 .. MaxStarts,
          next : 0 .. FramesPerBurst + 1, ok : 0 .. FramesPerBurst, mark : MarkType,
          good : BOOLEAN, replaced : BOOLEAN]

LEMMA ReadProgress ==
  ASSUME NEW n \in 1 .. FramesPerBurst, NEW next \in 1 .. n + 1, NEW ok \in Nat,
         next <= n, ok <= next - 1
  PROVE  /\ next + 1 \in 0 .. FramesPerBurst + 1
         /\ ok + 1 \in 0 .. FramesPerBurst
         /\ next + 1 \in 1 .. n + 1
         /\ ok + 1 <= next + 1 - 1 /\ ok <= next + 1 - 1
BY Constants, SMTT(20)

LEMMA DisconnectedTyped ==
  ASSUME NEW pc \in {"connect", "poll"}, NEW id \in SessionIds \union {0}
  PROVE  /\ [Disconnected EXCEPT !.pc = pc, !.sid = id] \in Local
         /\ [Disconnected EXCEPT !.pc = pc, !.sid = id].pc = pc
         /\ [Disconnected EXCEPT !.pc = pc, !.sid = id].ok = 0
<1>1. <<>> \in Seq(RefType)
  BY EmptySeq
<1>2. 0 \in 0 .. MaxStarts /\ 0 \in 0 .. FramesPerBurst /\ 0 \in 0 .. FramesPerBurst + 1
  BY Constants
<1>3. QED
  BY <1>1, <1>2, NothingMarked DEF Disconnected, Local

LEMMA WatcherTypedInitially == HubTypeOK /\ WatcherInit => WatcherTypeOK /\ WatcherInv
<1> SUFFICES ASSUME HubTypeOK, WatcherInit PROVE WatcherTypeOK /\ WatcherInv
    OBVIOUS
<1>1. Disconnected \in Local /\ Disconnected.pc = "connect" /\ Disconnected.ok = 0
  <2>1. <<>> \in Seq(RefType)
    BY EmptySeq
  <2>2. 0 \in 0 .. MaxStarts /\ 0 \in 0 .. FramesPerBurst /\ 0 \in 0 .. FramesPerBurst + 1
    BY Constants
  <2>3. QED
    BY <2>1, <2>2, NothingMarked DEF Disconnected, Local
<1>2. <<>> \in Seq([id : Nat, number : Nat])
  BY EmptySeq
<1>3. w.last = 0 /\ w.local = Disconnected
  BY DEF WatcherInit
<1>4. WatcherTypeOK
  BY <1>1, <1>2, <1>3, Constants DEF WatcherInit, WatcherTypeOK, NotMapped, Local
<1>5. poller.gen = 0 /\ Gen \in Nat
  BY DEF WatcherInit, NotMapped, HubTypeOK, Gen
<1>6. WatcherInv
  BY <1>1, <1>3, <1>5 DEF WatcherInv, At
<1>7. QED
  BY <1>4, <1>6

\* The latest publication as GetDepth answers it.
LEMMA AnswerTyped ==
  ASSUME HubTypeOK, HubInv, latest # NoLatest
  PROVE  /\ latest.id \in Nat /\ latest.number \in Nat /\ latest.mark \in MarkType
         /\ latest.refs \in Seq(RefType) /\ Len(latest.refs) \in 1 .. FramesPerBurst
         /\ Gen \in 1 .. MaxStarts
<1>1. hub # "down"
  BY DEF HubInv
<1>2. Gen \in Nat /\ Gen >= 1 /\ Gen <= MaxStarts
  BY <1>1 DEF HubInv, HubTypeOK, Gen
<1>3. QED
  BY <1>2, Constants DEF HubInv, HubTypeOK

LEMMA LastTyped ==
  ASSUME NEW last \in Nat, NEW key \in Nat
  PROVE  LastSavedFor(last, key) \in Nat
BY DEF LastSavedFor

LEMMA WatcherRecord ==
  ASSUME WatcherTypeOK, WatcherStep \/ WatcherFailure
  PROVE  w' = [last |-> w'.last, local |-> w'.local]
<1>1. w = [last |-> w.last, local |-> w.local]
  BY DEF WatcherTypeOK
<1>2. CASE WatcherConnects \/ PollLosesHub \/ DirectoryFails
  BY <1>1, <1>2 DEF WatcherConnects, PollLosesHub, DirectoryFails, GoTo
<1>3. CASE PollFindsBurst
  BY <1>3 DEF PollFindsBurst
<1>4. CASE OpensRegion \/ FrameSaveFails
  BY <1>1, <1>4 DEF OpensRegion, FrameSaveFails
<1>5. CASE ReadsFrame
  BY <1>1, <1>5 DEF ReadsFrame
<1>6. CASE BatchEnds
  BY <1>6 DEF BatchEnds
<1>7. QED
  BY <1>2, <1>3, <1>4, <1>5, <1>6 DEF WatcherStep, WatcherFailure

\* One step of the watcher thread: the types, the control, and that it leaves the rest alone.
LEMMA WatcherThreadInductive ==
  ASSUME HubTypeOK, HubInv, WatcherTypeOK, WatcherInv, WatcherStep \/ WatcherFailure
  PROVE  /\ WatcherTypeOK'
         /\ WatcherInv'
<1>1. /\ w.last \in Nat /\ w.local \in Local
      /\ poller \in [gen : 0 .. MaxStarts, started : BOOLEAN, seen : Nat]
      /\ saved \in Seq([id : Nat, number : Nat])
      /\ save_failures \in 0 .. MaxSaveFailures
  BY DEF WatcherTypeOK, Local
<1>2. /\ w.local.sid \in SessionIds \union {0} /\ sid \in SessionIds
      /\ w.local.next \in Nat /\ w.local.ok \in Nat /\ w.local.ok <= FramesPerBurst
      /\ poller.gen <= Gen /\ Gen' = Gen
  <2>1. sid \in SessionIds /\ w.local.sid \in SessionIds \union {0}
    BY <1>1 DEF Local, HubTypeOK
  <2>2. w.local.next \in 0 .. FramesPerBurst + 1 /\ w.local.ok \in 0 .. FramesPerBurst
    BY <1>1 DEF Local
  <2>3. poller.gen <= Gen
    BY DEF WatcherInv
  <2>4. Gen' = Gen
    BY WatcherLeavesHub DEF HubReady, reconHubVars, Gen
  <2>5. QED
    BY <2>1, <2>2, <2>3, <2>4, Constants
<1>3. ASSUME w'.last \in Nat, w'.local \in Local, UNCHANGED poller,
             saved' \in Seq([id : Nat, number : Nat]),
             save_failures' \in 0 .. MaxSaveFailures
      PROVE  WatcherTypeOK'
  BY <1>1, <1>3, WatcherRecord DEF WatcherTypeOK, Local
<1>4. ASSUME NEW pc \in {"connect", "poll"}, NEW id \in SessionIds \union {0},
             w'.local = [Disconnected EXCEPT !.pc = pc, !.sid = id], UNCHANGED poller
      PROVE  w'.local \in Local /\ WatcherInv'
  <2>1. w'.local \in Local /\ w'.local.pc = pc /\ w'.local.ok = 0
    <3> DEFINE local == [Disconnected EXCEPT !.pc = pc, !.sid = id]
    <3>1. local \in Local /\ local.pc = pc /\ local.ok = 0
      BY DisconnectedTyped, Zenon
    <3> HIDE DEF local
    <3>2. w'.local = local
      BY <1>4 DEF local
    <3>3. QED
      BY <3>1, <3>2
  <2>2. QED
    BY <1>2, <1>4, <2>1 DEF WatcherInv, At
<1>5. CASE WatcherConnects
  <2>1. /\ w'.local = [Disconnected EXCEPT !.pc = "poll", !.sid = sid] /\ w'.last = w.last
        /\ UNCHANGED <<poller, saved, save_failures>>
    BY <1>5 DEF WatcherConnects, WatcherTypeOK
  <2>2. QED
    BY <1>1, <1>2, <1>3, <1>4, <2>1
<1>6. CASE PollLosesHub
  <2>1. /\ w'.local = [Disconnected EXCEPT !.pc = "connect", !.sid = w.local.sid]
        /\ w'.last = w.last /\ UNCHANGED <<poller, saved, save_failures>>
    BY <1>6 DEF PollLosesHub, GoTo
  <2>2. QED
    BY <1>1, <1>2, <1>3, <1>4, <2>1
<1>7. CASE DirectoryFails
  <2>1. /\ w'.local = [Disconnected EXCEPT !.pc = "poll", !.sid = w.local.sid]
        /\ w'.last = w.last /\ UNCHANGED <<poller, saved>>
    BY <1>7 DEF DirectoryFails, GoTo
  <2>2. save_failures' \in 0 .. MaxSaveFailures
    BY <1>1, <1>7, Constants DEF DirectoryFails
  <2>3. QED
    BY <1>1, <1>2, <1>3, <1>4, <2>1, <2>2
<1>8. CASE PollFindsBurst
  <2>1. /\ At("poll") /\ latest # NoLatest
        /\ w'.last = LastSavedFor(w.last, latest.id)
        /\ w'.local = [w.local EXCEPT !.pc = "open", !.key = latest.id,
                         !.number = latest.number, !.refs = latest.refs,
                         !.mark = latest.mark, !.gen = Gen]
        /\ UNCHANGED <<reconHubVars, poller, saved, save_failures>>
    BY <1>8 DEF PollFindsBurst
  <2>2. /\ latest.id \in Nat /\ latest.number \in Nat /\ latest.mark \in MarkType
        /\ latest.refs \in Seq(RefType) /\ Len(latest.refs) \in 1 .. FramesPerBurst
        /\ Gen \in 1 .. MaxStarts
    BY <2>1, AnswerTyped
  <2>3. Gen \in 0 .. MaxStarts
    BY <2>2, Constants
  <2>4. w'.local \in Local
    BY <1>1, <2>1, <2>2, <2>3 DEF Local
  <2>5. /\ w'.local.pc = "open" /\ w'.local.gen = Gen /\ w'.local.refs = latest.refs
        /\ w'.local.ok = w.local.ok
    BY <1>1, <2>1 DEF Local
  <2>6. w.local.ok = 0 /\ Gen' = Gen /\ Gen \in 1 .. Gen
    BY <2>1, <2>2, Constants DEF WatcherInv, At, reconHubVars, Gen
  <2>7. WatcherInv'
    BY <1>2, <2>1, <2>2, <2>5, <2>6 DEF WatcherInv, At
  <2>8. w'.last \in Nat
    BY <1>1, <2>1, <2>2, LastTyped
  <2>9. QED
    BY <1>1, <1>3, <2>1, <2>4, <2>7, <2>8
<1>9. CASE OpensRegion
  <2>1. /\ At("open") /\ w' = [w EXCEPT !.local.pc = "read", !.local.gen = Gen, !.local.next = 1,
                                        !.local.replaced = w.local.gen # Gen]
        /\ UNCHANGED <<reconHubVars, poller, saved, save_failures>>
    BY <1>9 DEF OpensRegion
  <2>2. /\ w'.last = w.last
        /\ w'.local = [w.local EXCEPT !.pc = "read", !.gen = Gen, !.next = 1,
                                      !.replaced = w.local.gen # Gen]
    BY <2>1 DEF WatcherTypeOK
  <2>3. /\ w.local.gen \in 1 .. Gen /\ Len(w.local.refs) \in 1 .. FramesPerBurst
        /\ w.local.ok = 0
    BY <2>1 DEF WatcherInv, At
  <2>4. Gen \in Nat /\ Gen <= MaxStarts /\ Gen \in 1 .. Gen /\ Gen \in 0 .. MaxStarts
    BY <2>3, Constants DEF HubInv, HubTypeOK, Gen
  <2>5. 1 \in 0 .. FramesPerBurst + 1
    BY Constants
  <2>6. w'.local \in Local
    BY <1>1, <2>2, <2>4, <2>5 DEF Local
  <2>7. /\ w'.local.pc = "read" /\ w'.local.gen = Gen /\ w'.local.refs = w.local.refs
        /\ w'.local.ok = w.local.ok /\ w'.local.next = 1
    BY <1>1, <2>2 DEF Local
  <2>8. Gen' = Gen
    BY <2>1 DEF reconHubVars, Gen
  <2>9. WatcherInv'
    <3> DEFINE n == Len(w.local.refs)
    <3>1. n \in 1 .. FramesPerBurst
      BY <2>3
    <3> HIDE DEF n
    <3>2. 1 \in 1 .. n + 1 /\ 0 <= 1 - 1
      BY <3>1, Constants
    <3>3. QED
      BY <1>2, <2>1, <2>3, <2>4, <2>7, <2>8, <3>2 DEF WatcherInv, At, n
  <2>10. QED
    BY <1>1, <1>3, <2>1, <2>2, <2>6, <2>9
<1>10. CASE ReadsFrame \/ FrameSaveFails
  <2> DEFINE n == Len(w.local.refs)
  <2>1. /\ At("read") /\ w.local.next <= n
        /\ UNCHANGED <<reconHubVars, poller, saved>>
    BY <1>10 DEF ReadsFrame, FrameSaveFails
  <2>2. n \in 1 .. FramesPerBurst /\ w.local.gen \in 1 .. Gen
        /\ w.local.next \in 1 .. n + 1 /\ w.local.ok <= w.local.next - 1
    BY <2>1 DEF WatcherInv, At
  <2>3. /\ w'.last = w.last
        /\ \/ \E good \in BOOLEAN :
                w'.local = [w.local EXCEPT !.next = @ + 1, !.ok = @ + 1, !.good = good]
           \/ w'.local = [w.local EXCEPT !.next = @ + 1]
    <3>1. CASE ReadsFrame
      <4> DEFINE frame == regions[w.local.gen][w.local.refs[w.local.next].slot].data
                 good == w.local.good /\ frame = ReferencedFrame(w.local.next)
      <4>1. w' = [w EXCEPT !.local.next = @ + 1, !.local.ok = @ + 1, !.local.good = good]
        BY <1>1, <3>1 DEF ReadsFrame, Local
      <4>2. good \in BOOLEAN
        BY <1>1 DEF Local
      <4> HIDE DEF good
      <4>3. /\ w'.last = w.last
            /\ w'.local = [w.local EXCEPT !.next = @ + 1, !.ok = @ + 1, !.good = good]
        BY <4>1 DEF WatcherTypeOK
      <4>4. QED
        BY <4>2, <4>3
    <3>2. CASE FrameSaveFails
      BY <3>2 DEF FrameSaveFails, WatcherTypeOK
    <3>3. QED
      BY <1>10, <3>1, <3>2
  <2>4. save_failures' \in 0 .. MaxSaveFailures
    BY <1>1, <1>10, Constants DEF ReadsFrame, FrameSaveFails
  <2> HIDE DEF n
  <2>5. /\ w.local.next + 1 \in 0 .. FramesPerBurst + 1
        /\ w.local.ok + 1 \in 0 .. FramesPerBurst
        /\ w.local.next + 1 \in 1 .. n + 1
        /\ w.local.ok + 1 <= w.local.next + 1 - 1 /\ w.local.ok <= w.local.next + 1 - 1
    <3>1. w.local.ok \in Nat
      BY <1>2
    <3>2. QED
      BY <2>1, <2>2, <3>1, ReadProgress
  <2>6. w'.local \in Local
    <3> DEFINE next == w.local.next + 1
               ok == w.local.ok + 1
    <3>1. next \in 0 .. FramesPerBurst + 1 /\ ok \in 0 .. FramesPerBurst
      BY <2>5
    <3>2. \/ \E good \in BOOLEAN :
               w'.local = [w.local EXCEPT !.next = next, !.ok = ok, !.good = good]
          \/ w'.local = [w.local EXCEPT !.next = next]
      BY <2>3
    <3> HIDE DEF next, ok
    <3>3. CASE w'.local = [w.local EXCEPT !.next = next]
      BY <1>1, <3>1, <3>3 DEF Local
    <3>4. ASSUME NEW good \in BOOLEAN,
                 w'.local = [w.local EXCEPT !.next = next, !.ok = ok, !.good = good]
          PROVE  w'.local \in Local
      BY <1>1, <3>1, <3>4 DEF Local
    <3>5. QED
      BY <3>2, <3>3, <3>4
  <2>7. /\ w'.local.pc = "read" /\ w'.local.gen = w.local.gen /\ w'.local.refs = w.local.refs
        /\ w'.local.next = w.local.next + 1
        /\ w'.local.ok = w.local.ok \/ w'.local.ok = w.local.ok + 1
    BY <1>1, <2>1, <2>3 DEF Local, At
  <2>8. Gen' = Gen
    BY <2>1 DEF reconHubVars, Gen
  <2>9. WatcherInv'
    BY <1>2, <2>1, <2>2, <2>5, <2>7, <2>8 DEF WatcherInv, At, n
  <2>10. QED
    BY <1>1, <1>3, <2>1, <2>3, <2>4, <2>6, <2>9
<1>11. CASE BatchEnds
  <2>1. /\ w'.last = LastSavedAfter(w.local.ok, w.last, w.local.key)
        /\ w'.local = [Disconnected EXCEPT !.pc = "poll", !.sid = w.local.sid]
        /\ \/ saved' = saved
           \/ saved' = Append(saved, [id |-> w.local.key, number |-> w.local.number])
        /\ UNCHANGED <<poller, save_failures>>
    BY <1>11 DEF BatchEnds
  <2>2. w'.last \in Nat
    BY <1>1, <2>1 DEF LastSavedAfter, Local
  <2> DEFINE batch == [id |-> w.local.key, number |-> w.local.number]
  <2>3. batch \in [id : Nat, number : Nat]
    BY <1>1 DEF Local
  <2> HIDE DEF batch
  <2>4. saved' \in Seq([id : Nat, number : Nat])
    <3>1. Append(saved, batch) \in Seq([id : Nat, number : Nat])
      BY <1>1, <2>3, AppendProperties
    <3>2. QED
      BY <1>1, <2>1, <3>1 DEF batch
  <2>5. QED
    BY <1>1, <1>2, <1>3, <1>4, <2>1, <2>2, <2>4
<1>12. QED
  BY <1>5, <1>6, <1>7, <1>8, <1>9, <1>10, <1>11 DEF WatcherStep, WatcherFailure

LEMMA PollerInductive ==
  ASSUME HubTypeOK, HubInv, WatcherTypeOK, WatcherInv, PollerStep
  PROVE  WatcherTypeOK' /\ WatcherInv'
<1>1. /\ poller \in [gen : 0 .. MaxStarts, started : BOOLEAN, seen : Nat]
      /\ UNCHANGED <<reconHubVars, w, saved, save_failures>>
  BY DEF PollerStep, PollerStarts, PollerTakes, WatcherTypeOK
<1>2. ASSUME poller'.gen <= Gen PROVE WatcherInv'
  BY <1>1, <1>2 DEF WatcherInv, At, reconHubVars, Gen
<1>3. CASE PollerStarts
  <2>1. Gen \in 0 .. MaxStarts /\ poller'.gen = Gen /\ Gen \in Nat
    <3>1. poller'.gen = Gen
      BY <1>1, <1>3 DEF PollerStarts
    <3>2. Gen \in Nat /\ Gen <= MaxStarts
      BY DEF HubInv, HubTypeOK, Gen
    <3>3. QED
      BY <3>1, <3>2, Constants
  <2>2. poller' \in [gen : 0 .. MaxStarts, started : BOOLEAN, seen : Nat]
    BY <1>1, <1>3, <2>1 DEF PollerStarts
  <2>3. WatcherInv'
    BY <1>2, <2>1
  <2>4. QED
    BY <1>1, <2>2, <2>3 DEF WatcherTypeOK
<1>4. CASE PollerTakes
  <2> DEFINE slot == LatestSlot(regions[poller.gen])
             seq == regions[poller.gen][slot].seq
  <2>1. slot \in Slots /\ poller.gen # 0 /\ poller' = [poller EXCEPT !.seen = seq]
    BY <1>4 DEF PollerTakes, Readable, NotMapped
  <2>2. poller.gen \in 1 .. Gen
    BY <1>1, <2>1, Constants DEF HubTypeOK, Gen, WatcherInv
  <2>3. regions[poller.gen] \in [Slots -> Slot]
    BY <2>2, ElementOfSeq DEF HubTypeOK, Gen
  <2>4. seq \in Nat
    BY <2>1, <2>3 DEF Slot
  <2> HIDE DEF seq
  <2>5. poller' \in [gen : 0 .. MaxStarts, started : BOOLEAN, seen : Nat]
        /\ poller'.gen = poller.gen
    BY <1>1, <2>1, <2>4
  <2>6. WatcherInv'
    BY <1>1, <1>2, <2>2, <2>5 DEF WatcherInv
  <2>7. QED
    BY <1>1, <2>5, <2>6 DEF WatcherTypeOK
<1>5. QED
  BY <1>3, <1>4 DEF PollerStep

-----------------------------------------------------------------------------
\* The loopback keeps its types and its control.

Call == [pc : {"idle", "build", "call"}, id : Nat, number : Nat, refs : Seq(RefType),
         dropped : BOOLEAN]

Request == [pc : {"idle", "open", "check", "save", "open_echo", "create_echo",
                  "write_echo", "publish_echo", "call_hub"},
            number : Nat, refs : Seq(RefType), asked : Nat, gen : Nat, next : Nat,
            echo : Nat, seq : Nat, alone : BOOLEAN, sure : BOOLEAN]

LoopbackMoves ==
  \/ PublishesOnly \/ LoopbackBegins \/ SessionClosesUnder \/ CopyBeginsBeside
  \/ \E t \in Threads : BuildsSlots(t) \/ CallGivesUp(t)
  \/ \E h \in Handlers : HandlerStep(h)

LEMMA LoopbackCases ==
  ASSUME [Next]_vars
  PROVE  /\ setup' = setup
         /\ \/ UNCHANGED loopbackVars /\ (hub # "down" => hub' # "down")
            \/ HubProcessStops
            \/ LoopbackMoves
<1>1. CASE UNCHANGED vars
  BY <1>1 DEF vars, reconHubVars, loopbackVars
<1>2. CASE Next
  <2>1. setup' = setup
    BY <1>2 DEF Next
  <2>2. CASE HubStep
    <3>1. CASE (HubStarts \/ SessionReopens \/ Captures) /\ UNCHANGED loopbackVars
      <4>1. hub # "down" => hub' # "down"
        BY <3>1 DEF HubStarts, SessionReopens, Captures, BurstBegins, InlineBegins, Writes
      <4>2. QED
        BY <2>1, <3>1, <4>1
    <3>2. CASE BurstWrite
      <4>1. SlotCopyEnds => hub' = hub
        BY DEF SlotCopyEnds
      <4>2. QED
        BY <2>1, <3>2, <4>1 DEF BurstWrite, LoopbackMoves
    <3>3. QED
      BY <2>1, <2>2, <3>1, <3>2 DEF HubStep, LoopbackMoves
  <2>3. CASE (WatcherStep \/ WatcherFailure \/ PollerStep) /\ UNCHANGED loopbackVars
    <3>1. hub # "down" => hub' # "down"
      BY <2>3, WatcherLeavesHub DEF HubReady, reconHubVars
    <3>2. QED
      BY <2>1, <2>3, <3>1
  <2>4. CASE LoopbackStep
    BY <2>1, <2>4 DEF LoopbackStep, LoopbackMoves
  <2>5. QED
    BY <1>2, <2>1, <2>2, <2>3, <2>4 DEF Next
<1>3. QED
  BY <1>1, <1>2

LEMMA IdleCall ==
  NoCall \in Call /\ NoCall.pc = "idle" /\ NoCalls \in [Threads -> Call]
<1>1. <<>> \in Seq(RefType)
  BY EmptySeq
<1>2. QED
  BY <1>1 DEF NoCall, NoCalls, Call

LEMMA IdleRequest ==
  /\ NoRequest \in Request /\ NoRequest.pc = "idle"
  /\ \A g, e \in Nat : RequestInv(NoRequest, g, e)
<1>1. <<>> \in Seq(RefType)
  BY EmptySeq
<1>2. QED
  BY <1>1 DEF NoRequest, Request, RequestInv

\* What a thread knows of a request stays true when regions are added.
LEMMA RequestStays ==
  ASSUME NEW r \in Request, NEW g1 \in Nat, NEW g2 \in Nat, NEW e1 \in Nat, NEW e2 \in Nat,
         g1 <= g2, e1 <= e2, RequestInv(r, g1, e1)
  PROVE  RequestInv(r, g2, e2)
<1>1. r.gen \in Nat /\ r.echo \in Nat /\ r.asked \in Nat
  BY DEF Request
<1>2. QED
  BY <1>1 DEF RequestInv

LEMMA NotAlone ==
  ASSUME NEW r \in Request, NEW g \in Nat, NEW e \in Nat, RequestInv(r, g, e)
  PROVE  /\ [r EXCEPT !.alone = FALSE] \in Request
         /\ [r EXCEPT !.alone = FALSE, !.sure = FALSE] \in Request
         /\ RequestInv([r EXCEPT !.alone = FALSE], g, e)
         /\ RequestInv([r EXCEPT !.alone = FALSE, !.sure = FALSE], g, e)
BY DEF Request, RequestInv

LEMMA LoopbackTypes ==
  ASSUME LoopbackTypeOK
  PROVE  /\ caller \in [Threads -> Call] /\ handler \in [Handlers -> Request]
         /\ echo_regions \in Seq([Slots -> Slot]) /\ EchoGen \in Nat
         /\ echo_cursor \in [Handlers -> Slots]
         /\ echoed \in [number : Nat, data : SlotData, alone : BOOLEAN]
BY DEF LoopbackTypeOK, Call, Request, EchoGen

LEMMA LoopbackTypedInitially == LoopbackInit => LoopbackTypeOK /\ LoopbackInv
<1> SUFFICES ASSUME LoopbackInit PROVE LoopbackTypeOK /\ LoopbackInv
    OBVIOUS
<1>1. /\ caller \in [Threads -> Call] /\ handler \in [Handlers -> Request]
      /\ \A t \in Threads : caller[t].pc = "idle"
      /\ \A h \in Handlers : handler[h] = NoRequest
  BY IdleCall, IdleRequest DEF LoopbackInit, NoCalls
<1>2. echo_regions \in Seq([Slots -> Slot]) /\ EchoGen = 0
  BY EmptySeq DEF LoopbackInit, EchoGen
<1>3. echo_cursor \in [Handlers -> Slots]
  BY Constants DEF LoopbackInit, Slots
<1>4. echoed \in [number : Nat, data : SlotData, alone : BOOLEAN]
  BY DEF LoopbackInit, NoEcho, SlotData
<1>5. LoopbackTypeOK
  BY <1>1, <1>2, <1>3, <1>4 DEF LoopbackTypeOK, Call, Request
<1>6. LoopbackInv
  BY <1>1, IdleRequest DEF LoopbackInit, LoopbackInv, Is, NoRequest, RequestInv
<1>7. QED
  BY <1>5, <1>6

\* A step that changes one request of recon_service.
LEMMA OneRequest ==
  ASSUME LoopbackTypeOK, \A g \in Handlers : RequestInv(handler[g], Gen, EchoGen),
         Gen \in Nat, Gen' \in Nat, EchoGen' \in Nat, Gen <= Gen', EchoGen <= EchoGen',
         NEW h \in Handlers, NEW value \in Request, Set(h, value),
         RequestInv(value, Gen', EchoGen')
  PROVE  /\ handler' \in [Handlers -> Request]
         /\ handler'[h] = value
         /\ \A g \in Handlers : RequestInv(handler'[g], Gen', EchoGen')
<1>1. handler \in [Handlers -> Request] /\ EchoGen \in Nat
  BY LoopbackTypes
<1>2. /\ handler' \in [Handlers -> Request] /\ handler'[h] = value
      /\ \A g \in Handlers \ {h} : handler'[g] = handler[g]
  BY <1>1 DEF Set
<1>3. ASSUME NEW g \in Handlers \ {h} PROVE RequestInv(handler'[g], Gen', EchoGen')
  <2>1. handler[g] \in Request /\ RequestInv(handler[g], Gen, EchoGen)
    BY <1>1
  <2>2. RequestInv(handler[g], Gen', EchoGen')
    BY <1>1, <2>1, RequestStays
  <2>3. QED
    BY <1>2, <2>2
<1>4. QED
  BY <1>2, <1>3

\* ProcessHubRaw is answered: the request is gone, and the thread that waits for it goes on.
LEMMA Answered ==
  ASSUME LoopbackTypeOK, NEW h \in Handlers, Returns(h)
  PROVE  /\ Set(h, NoRequest)
         /\ caller' \in [Threads -> Call]
         /\ \A t \in Threads : caller'[t] = caller[t] \/ caller'[t] = NoCall
BY LoopbackTypes, IdleCall DEF Returns

\* The control of a step in which the hub's threads and the requests are typed.
LEMMA LoopbackKept ==
  ASSUME LoopbackTypeOK, LoopbackInv, hub # "down" => hub' # "down",
         caller' \in [Threads -> Call], handler' \in [Handlers -> Request],
         \A t \in Threads : caller'[t].pc = "build" =>
           caller[t].pc = "build" /\ caller'[t].refs = caller[t].refs,
         \A h \in Handlers : RequestInv(handler'[h], Gen', EchoGen'),
         echo_regions' \in Seq([Slots -> Slot]), echo_cursor' \in [Handlers -> Slots],
         echoed' \in [number : Nat, data : SlotData, alone : BOOLEAN]
  PROVE  LoopbackTypeOK' /\ LoopbackInv'
<1>1. LoopbackTypeOK'
  BY DEF LoopbackTypeOK, Call, Request
<1>2. LoopbackInv'
  BY DEF LoopbackInv
<1>3. QED
  BY <1>1, <1>2

\* What a handler reads of the hub's ring.
LEMMA HubSlotTyped ==
  ASSUME HubTypeOK, LoopbackTypeOK, LoopbackInv, NEW h \in Handlers,
         ~Is(h, "idle"), ~Is(h, "open")
  PROVE  /\ handler[h] \in Request /\ handler[h].gen \in 1 .. Gen
         /\ EchoedRef(h) \in RefType /\ CheckedRef(h) \in RefType
         /\ HubSlot(h, EchoedRef(h)) \in Slot /\ HubSlot(h, CheckedRef(h)) \in Slot
<1>1. handler[h] \in Request
  BY LoopbackTypes
<1>2. /\ handler[h].refs # <<>> /\ handler[h].gen \in 1 .. Gen /\ handler[h].next >= 1
      /\ handler[h].refs \in Seq(RefType) /\ handler[h].next \in Nat
  BY <1>1 DEF LoopbackInv, RequestInv, Is, Request
<1>3. Len(handler[h].refs) \in Nat \ {0}
  BY <1>2, EmptySeq
<1>4. EchoedRef(h) \in RefType /\ CheckedRef(h) \in RefType
  <2> DEFINE n == Len(handler[h].refs)
  <2>1. 1 \in 1 .. n
    BY <1>3
  <2>2. handler[h].next <= n => handler[h].next \in 1 .. n
    BY <1>2, <1>3
  <2>3. \A i \in 1 .. n : handler[h].refs[i] \in RefType
    BY <1>2, ElementOfSeq
  <2>4. QED
    BY <2>1, <2>2, <2>3 DEF EchoedRef, CheckedRef
<1>5. regions[handler[h].gen] \in [Slots -> Slot]
  BY <1>2, ElementOfSeq DEF HubTypeOK, Gen
<1>6. QED
  BY <1>1, <1>2, <1>4, <1>5 DEF HubSlot, RefType

\* One step of ProcessHubRaw.
LEMMA HandlerInductive ==
  ASSUME HubTypeOK, HubInv, LoopbackTypeOK, LoopbackInv,
         NEW h \in Handlers, HandlerStep(h)
  PROVE  LoopbackTypeOK' /\ LoopbackInv'
<1> DEFINE r == handler[h]
<1>1. /\ caller \in [Threads -> Call] /\ r \in Request
      /\ echo_regions \in Seq([Slots -> Slot]) /\ EchoGen \in Nat
      /\ echo_cursor \in [Handlers -> Slots]
      /\ echoed \in [number : Nat, data : SlotData, alone : BOOLEAN]
  BY LoopbackTypes
<1>2. /\ Gen \in Nat /\ Gen' = Gen /\ hub' = hub
      /\ RequestInv(r, Gen, EchoGen)
      /\ \A g \in Handlers : RequestInv(handler[g], Gen, EchoGen)
  BY ReaderLeavesHub DEF reconHubVars, Gen, HubTypeOK, LoopbackInv
<1>3. ~Is(h, "idle") /\ ~(r.pc = "idle")
  BY DEF HandlerStep, HandlerFails, EchoTooSmall, OpensHubRing, ChecksSlot, SavesSlot, OpensEcho,
         CreatesEcho, CopiesEcho, PublishesEcho, HubSavesEcho, Is
<1>4. Gen >= 1 /\ r.refs # <<>> /\ r.asked <= Gen
  BY <1>2, <1>3 DEF RequestInv
<1>5. /\ r.pc # "open" => r.gen \in 1 .. Gen /\ r.next >= 1
      /\ r.pc = "save" => r.next <= Len(r.refs)
      /\ r.pc \in {"write_echo", "publish_echo", "call_hub"} => r.echo \in 1 .. EchoGen
  BY <1>2, <1>3 DEF RequestInv
\* The request changes, and perhaps the echo ring.
<1>6. ASSUME NEW value \in Request, Set(h, value), RequestInv(value, Gen, EchoGen'),
             echo_regions' \in Seq([Slots -> Slot]), EchoGen <= EchoGen', UNCHANGED caller,
             UNCHANGED <<echo_cursor, echoed>>
      PROVE  LoopbackTypeOK' /\ LoopbackInv'
  <2>1. EchoGen' \in Nat
    BY <1>6 DEF EchoGen
  <2>2. /\ handler' \in [Handlers -> Request]
        /\ \A g \in Handlers : RequestInv(handler'[g], Gen', EchoGen')
    BY <1>2, <1>6, <2>1, OneRequest
  <2>3. QED
    BY <1>1, <1>2, <1>6, <2>2, LoopbackKept
\* The call is answered.
<1>7. ASSUME Returns(h), echo_cursor' \in [Handlers -> Slots], UNCHANGED echo_regions,
             echoed' \in [number : Nat, data : SlotData, alone : BOOLEAN]
      PROVE  LoopbackTypeOK' /\ LoopbackInv'
  <2>1. EchoGen' = EchoGen
    BY <1>7 DEF EchoGen
  <2>2. /\ Set(h, NoRequest) /\ caller' \in [Threads -> Call]
        /\ \A t \in Threads : caller'[t] = caller[t] \/ caller'[t] = NoCall
    BY <1>7, Answered
  <2>3. /\ handler' \in [Handlers -> Request]
        /\ \A g \in Handlers : RequestInv(handler'[g], Gen', EchoGen')
    BY <1>1, <1>2, <2>1, <2>2, IdleRequest, OneRequest
  <2>4. \A t \in Threads : caller'[t].pc = "build" =>
           caller[t].pc = "build" /\ caller'[t].refs = caller[t].refs
    BY <2>2, IdleCall
  <2>5. QED
    BY <1>1, <1>2, <1>7, <2>2, <2>3, <2>4, LoopbackKept
\* Steps that leave the echo ring alone.
<1>8. ASSUME NEW value \in Request, Set(h, value), RequestInv(value, Gen, EchoGen),
             UNCHANGED caller, UNCHANGED <<echo_regions, echo_cursor, echoed>>
      PROVE  LoopbackTypeOK' /\ LoopbackInv'
  <2>1. EchoGen' = EchoGen /\ echo_regions' \in Seq([Slots -> Slot]) /\ EchoGen <= EchoGen'
    BY <1>1, <1>8 DEF EchoGen
  <2>2. QED
    BY <1>6, <1>8, <2>1
<1>9. CASE OpensHubRing(h)
  <2> DEFINE value == [r EXCEPT !.pc = "check", !.gen = Gen, !.next = 1]
  <2>1. value \in Request
    BY <1>1, <1>2 DEF Request
  <2>2. RequestInv(value, Gen, EchoGen)
    BY <1>1, <1>2, <1>4 DEF RequestInv, Request
  <2>3. Set(h, value) /\ UNCHANGED caller /\ UNCHANGED <<echo_regions, echo_cursor, echoed>>
    BY <1>9 DEF OpensHubRing
  <2> HIDE DEF value
  <2>4. QED
    BY <1>8, <2>1, <2>2, <2>3
<1>10. CASE ChecksSlot(h)
  <2>1. CASE Returns(h)
    BY <1>1, <1>7, <1>10, <2>1 DEF ChecksSlot
  <2>2. CASE ~Returns(h)
    <3> DEFINE sure == r.gen = r.asked /\ HubSlot(h, CheckedRef(h)).data # Torn
               pc == IF r.next <= Len(r.refs) THEN "save" ELSE "open_echo"
               value == [r EXCEPT !.sure = sure, !.pc = pc]
    <3>1. /\ Set(h, value) /\ UNCHANGED caller /\ r.pc = "check"
          /\ UNCHANGED <<echo_regions, echo_cursor, echoed>>
      BY <1>10, <2>2 DEF ChecksSlot, Is
    <3>2. sure \in BOOLEAN
      OBVIOUS
    <3>3. pc \in {"save", "open_echo"} /\ (pc = "save" => r.next <= Len(r.refs))
      OBVIOUS
    <3> HIDE DEF sure, pc
    <3>4. value \in Request
      BY <1>1, <3>2, <3>3 DEF Request
    <3>5. RequestInv(value, Gen, EchoGen)
      BY <1>1, <1>4, <1>5, <3>1, <3>3 DEF RequestInv, Request
    <3> HIDE DEF value
    <3>6. QED
      BY <1>8, <3>1, <3>4, <3>5
  <2>3. QED
    BY <2>1, <2>2
<1>11. CASE SavesSlot(h)
  <2>1. CASE Returns(h)
    BY <1>1, <1>7, <1>11, <2>1 DEF SavesSlot
  <2>2. CASE ~Returns(h)
    <3> DEFINE value == [r EXCEPT !.pc = "check", !.next = @ + 1, !.sure = FALSE]
    <3>1. /\ Set(h, value) /\ UNCHANGED caller /\ r.pc = "save"
          /\ UNCHANGED <<echo_regions, echo_cursor, echoed>>
      BY <1>11, <2>2 DEF SavesSlot, Is
    <3>2. r.next \in Nat /\ r.next + 1 \in Nat /\ r.next + 1 >= 1
      BY <1>1 DEF Request
    <3>3. value \in Request
      BY <1>1, <3>2 DEF Request
    <3>4. RequestInv(value, Gen, EchoGen)
      BY <1>1, <1>4, <1>5, <3>1, <3>2 DEF RequestInv, Request
    <3> HIDE DEF value
    <3>5. QED
      BY <1>8, <3>1, <3>3, <3>4
  <2>3. QED
    BY <2>1, <2>2
<1>12. CASE OpensEcho(h)
  <2> DEFINE create == [r EXCEPT !.pc = "create_echo", !.sure = FALSE]
             write == [r EXCEPT !.pc = "write_echo", !.echo = EchoGen, !.sure = FALSE]
  <2>1. /\ r.pc = "open_echo" /\ UNCHANGED caller /\ UNCHANGED <<echo_regions, echo_cursor, echoed>>
        /\ \/ Set(h, create)
           \/ EchoGen # 0 /\ Set(h, write)
    BY <1>12 DEF OpensEcho, Is
  <2>2. create \in Request /\ write \in Request
    BY <1>1 DEF Request
  <2>3. RequestInv(create, Gen, EchoGen) /\ (EchoGen # 0 => RequestInv(write, Gen, EchoGen))
    BY <1>1, <1>4, <1>5, <2>1 DEF RequestInv, Request
  <2> HIDE DEF create, write
  <2>4. QED
    BY <1>8, <2>1, <2>2, <2>3
<1>13. CASE CreatesEcho(h)
  <2> DEFINE value == [r EXCEPT !.pc = "write_echo", !.echo = EchoGen + 1]
  <2>1. /\ r.pc = "create_echo" /\ Set(h, value) /\ UNCHANGED caller
        /\ UNCHANGED <<echo_cursor, echoed>>
        /\ echo_regions' = Append(echo_regions, CreatedRing)
    BY <1>13 DEF CreatesEcho, Is
  <2>2. echo_regions' \in Seq([Slots -> Slot]) /\ EchoGen' = EchoGen + 1
    <3>1. /\ Append(echo_regions, CreatedRing) \in Seq([Slots -> Slot])
          /\ Len(Append(echo_regions, CreatedRing)) = Len(echo_regions) + 1
      BY <1>1, NewRegion
    <3>2. QED
      BY <2>1, <3>1 DEF EchoGen
  <2>3. value \in Request
    <3>1. EchoGen + 1 \in Nat
      BY <1>1
    <3>2. QED
      BY <1>1, <3>1 DEF Request
  <2>4. EchoGen' \in Nat /\ EchoGen <= EchoGen' /\ EchoGen + 1 \in 1 .. EchoGen'
    BY <1>1, <2>2
  <2>5. RequestInv(value, Gen, EchoGen')
    BY <1>1, <1>4, <1>5, <2>1, <2>4 DEF RequestInv, Request
  <2> HIDE DEF value
  <2>6. QED
    BY <1>6, <2>1, <2>2, <2>3, <2>4, <2>5
<1>14. CASE CopiesEcho(h)
  <2> DEFINE e == r.echo
             c == echo_cursor[h]
             data == HubSlot(h, EchoedRef(h)).data
             old == echo_regions[e][c]
             slot == [old EXCEPT !.data = data]
             value == [r EXCEPT !.pc = "publish_echo", !.seq = old.seq + 1]
  <2>1. /\ r.pc = "write_echo" /\ Set(h, value) /\ UNCHANGED caller
        /\ UNCHANGED <<echo_cursor, echoed>>
        /\ echo_regions' = [echo_regions EXCEPT ![e][c].data = data]
    BY <1>14 DEF CopiesEcho, Is
  <2>2. data \in SlotData
    BY <1>3, <2>1, HubSlotTyped DEF Is, Slot
  <2>3. e \in 1 .. EchoGen /\ c \in Slots
    BY <1>1, <1>5, <2>1
  <2>4. echo_regions[e] \in [Slots -> Slot] /\ old \in Slot
    BY <1>1, <2>3, ElementOfSeq DEF EchoGen
  <2>5. slot \in Slot /\ old.seq + 1 \in Nat
    BY <2>2, <2>4 DEF Slot
  <2>6. echo_regions' = [echo_regions EXCEPT ![e] = [echo_regions[e] EXCEPT ![c] = slot]]
    BY <2>1
  <2> HIDE DEF slot, data, old, e, c
  <2>7. echo_regions' \in Seq([Slots -> Slot]) /\ EchoGen' = EchoGen
    BY <1>1, <2>3, <2>5, <2>6, SlotWritten DEF EchoGen
  <2>8. value \in Request
    BY <1>1, <2>5 DEF Request
  <2>9. RequestInv(value, Gen, EchoGen')
    BY <1>1, <1>4, <1>5, <2>1, <2>7 DEF RequestInv, Request
  <2> HIDE DEF value
  <2>10. QED
    BY <1>1, <1>6, <2>1, <2>7, <2>8, <2>9
<1>15. CASE PublishesEcho(h)
  <2> DEFINE e == r.echo
             c == echo_cursor[h]
             old == echo_regions[e][c]
             slot == [old EXCEPT !.seq = r.seq]
             value == [r EXCEPT !.pc = "call_hub"]
  <2>1. /\ r.pc = "publish_echo" /\ Set(h, value) /\ UNCHANGED caller
        /\ UNCHANGED <<echo_cursor, echoed>>
        /\ echo_regions' = [echo_regions EXCEPT ![e][c].seq = r.seq]
    BY <1>15 DEF PublishesEcho, Is, Set, Move
  <2>2. r.seq \in Nat
    BY <1>1 DEF Request
  <2>3. e \in 1 .. EchoGen /\ c \in Slots
    BY <1>1, <1>5, <2>1
  <2>4. echo_regions[e] \in [Slots -> Slot] /\ old \in Slot
    BY <1>1, <2>3, ElementOfSeq DEF EchoGen
  <2>5. slot \in Slot
    BY <2>2, <2>4 DEF Slot
  <2>6. echo_regions' = [echo_regions EXCEPT ![e] = [echo_regions[e] EXCEPT ![c] = slot]]
    BY <2>1
  <2> HIDE DEF slot, old, e, c
  <2>7. echo_regions' \in Seq([Slots -> Slot]) /\ EchoGen' = EchoGen
    BY <1>1, <2>3, <2>5, <2>6, SlotWritten DEF EchoGen
  <2>8. value \in Request
    BY <1>1 DEF Request
  <2>9. RequestInv(value, Gen, EchoGen')
    BY <1>1, <1>4, <1>5, <2>1, <2>7 DEF RequestInv, Request
  <2> HIDE DEF value
  <2>10. QED
    BY <1>1, <1>6, <2>1, <2>7, <2>8, <2>9
<1>16. CASE HubSavesEcho(h)
  <2> DEFINE slot == echo_regions[EchoGen][echo_cursor[h]]
             save == [number |-> r.number, data |-> slot.data, alone |-> r.alone]
  <2>1. /\ r.pc = "call_hub" /\ Returns(h) /\ UNCHANGED echo_regions
        /\ echoed' = save \/ echoed' = echoed
        /\ echo_cursor' = [echo_cursor EXCEPT ![h] = NextCursor(@)]
    BY <1>16 DEF HubSavesEcho, Is
  <2>2. EchoGen \in 1 .. EchoGen /\ echo_cursor[h] \in Slots
    BY <1>1, <1>5, <2>1
  <2>3. slot \in Slot
    BY <1>1, <2>2, ElementOfSeq DEF EchoGen
  <2>4. save \in [number : Nat, data : SlotData, alone : BOOLEAN]
    BY <1>1, <2>3 DEF Slot, Request
  <2>5. echo_cursor' \in [Handlers -> Slots]
    BY <1>1, <2>1, CursorMoves
  <2> HIDE DEF save
  <2>6. QED
    BY <1>1, <1>7, <2>1, <2>4, <2>5
<1>17. CASE HandlerFails(h)
  BY <1>1, <1>7, <1>17 DEF HandlerFails
<1>18. CASE EchoTooSmall(h)
  <2>1. /\ Returns(h) /\ UNCHANGED <<echo_regions, echoed>>
        /\ echo_cursor' = [echo_cursor EXCEPT ![h] = NextCursor(@)]
    BY <1>18 DEF EchoTooSmall
  <2>2. echo_cursor' \in [Handlers -> Slots]
    BY <1>1, <2>1, CursorMoves
  <2>3. QED
    BY <1>1, <1>7, <2>1, <2>2
<1>19. QED
  BY <1>9, <1>10, <1>11, <1>12, <1>13, <1>14, <1>15, <1>16, <1>17, <1>18 DEF HandlerStep

\* Any free thread of the server takes the call.
LEMMA FreeHandler ==
  ASSUME NEW h \in FreeHandlers
  PROVE  h \in Handlers /\ Is(h, "idle")
<1> DEFINE Free(c) == {g \in Handlers : Is(g, "idle") /\ echo_cursor[g] = c}
<1>1. PICK c \in Slots : Free(c) # {} /\ h = CHOOSE g \in Free(c) : TRUE
  BY DEF FreeHandlers
<1>2. h \in Free(c)
  BY <1>1
<1>3. QED
  BY <1>2

\* The call reaches recon_service with slots to save.
LEMMA CallTyped ==
  ASSUME HubTypeOK, LoopbackTypeOK, LoopbackInv, Gen >= 1,
         UNCHANGED <<reconHubVars, echo_regions, echo_cursor, echoed>>,
         NEW t \in Threads, NEW refs \in Seq(RefType), refs # <<>>,
         NEW asked \in Nat, asked <= Gen, Calls(t, refs, asked)
  PROVE  LoopbackTypeOK' /\ LoopbackInv'
<1>1. /\ caller \in [Threads -> Call] /\ handler \in [Handlers -> Request]
      /\ echo_regions \in Seq([Slots -> Slot]) /\ EchoGen \in Nat
      /\ echo_cursor \in [Handlers -> Slots]
      /\ echoed \in [number : Nat, data : SlotData, alone : BOOLEAN]
  BY LoopbackTypes
<1>2. /\ Gen \in Nat /\ Gen' = Gen /\ hub' = hub /\ EchoGen' = EchoGen
      /\ \A g \in Handlers : RequestInv(handler[g], Gen, EchoGen)
  BY DEF reconHubVars, Gen, EchoGen, HubTypeOK, LoopbackInv
<1> DEFINE alone == asked # 0 /\ ~writer.copying /\ \A i \in Handlers : Is(i, "idle")
           value == [NoRequest EXCEPT !.pc = "open", !.number = caller[t].number, !.refs = refs,
                       !.asked = asked, !.alone = alone]
<1>3. PICK h \in FreeHandlers :
         handler' = [g \in Handlers |->
                       IF g = h THEN value ELSE [handler[g] EXCEPT !.alone = FALSE]]
  BY DEF Calls
<1>4. alone \in BOOLEAN /\ caller[t].number \in Nat
  BY <1>1 DEF Call
<1> HIDE DEF alone
<1>5. value \in Request /\ value.pc = "open" /\ value.refs = refs /\ value.asked = asked
  BY <1>4, IdleRequest DEF Request
<1>6. RequestInv(value, Gen, EchoGen)
  BY <1>5 DEF RequestInv
<1> HIDE DEF value
<1>7. ASSUME NEW g \in Handlers
      PROVE  handler'[g] \in Request /\ RequestInv(handler'[g], Gen', EchoGen')
  <2>1. CASE g = h
    BY <1>2, <1>3, <1>5, <1>6, <2>1
  <2>2. CASE g # h
    <3>1. handler[g] \in Request /\ RequestInv(handler[g], Gen, EchoGen)
      BY <1>1, <1>2
    <3>2. handler'[g] = [handler[g] EXCEPT !.alone = FALSE]
      BY <1>3, <2>2
    <3>3. [handler[g] EXCEPT !.alone = FALSE] \in Request
          /\ RequestInv([handler[g] EXCEPT !.alone = FALSE], Gen, EchoGen)
      BY <1>1, <1>2, <3>1, NotAlone
    <3>4. QED
      BY <1>2, <3>2, <3>3
  <2>3. QED
    BY <2>1, <2>2
<1>8. handler' \in [Handlers -> Request]
  <2>1. DOMAIN handler' = Handlers /\ handler' = [g \in Handlers |-> handler'[g]]
    BY <1>3
  <2>2. QED
    BY <1>7, <2>1
<1>9. /\ caller' \in [Threads -> Call]
      /\ \A u \in Threads : caller'[u].pc = "build" =>
           caller[u].pc = "build" /\ caller'[u].refs = caller[u].refs
  <2> DEFINE call == [NoCall EXCEPT !.pc = "call", !.number = caller[t].number]
  <2>1. caller' = [caller EXCEPT ![t] = call]
    BY DEF Calls
  <2>2. call \in Call /\ call.pc = "call"
    BY <1>4, IdleCall DEF Call
  <2> HIDE DEF call
  <2>3. QED
    BY <1>1, <2>1, <2>2
<1>10. QED
  BY <1>1, <1>2, <1>7, <1>8, <1>9, LoopbackKept

\* The references into publications_ are no longer good; nothing else of the calls changes.
LEMMA DroppingTyped ==
  ASSUME LoopbackTypeOK, NEW threads
  PROVE  /\ Dropping(threads) \in [Threads -> Call]
         /\ \A t \in Threads :
              /\ Dropping(threads)[t].pc = caller[t].pc
              /\ Dropping(threads)[t].refs = caller[t].refs
              /\ Dropping(threads)[t].number = caller[t].number
<1>1. caller \in [Threads -> Call]
  BY LoopbackTypes
<1>2. ASSUME NEW t \in Threads
      PROVE  /\ [caller[t] EXCEPT !.dropped = TRUE] \in Call
             /\ [caller[t] EXCEPT !.dropped = TRUE].pc = caller[t].pc
             /\ [caller[t] EXCEPT !.dropped = TRUE].refs = caller[t].refs
             /\ [caller[t] EXCEPT !.dropped = TRUE].number = caller[t].number
  BY <1>1 DEF Call
<1>3. QED
  BY <1>1, <1>2 DEF Dropping

\* Requests that are disturbed keep everything but their claims.
LEMMA DisturbedTyped ==
  ASSUME LoopbackTypeOK, Disturbed, NEW g \in Nat, NEW e \in Nat,
         \A h \in Handlers : RequestInv(handler[h], g, e)
  PROVE  /\ handler' \in [Handlers -> Request]
         /\ \A h \in Handlers : RequestInv(handler'[h], g, e)
         /\ \A h \in Handlers :
              IF Is(h, "idle") THEN handler'[h] = NoRequest
              ELSE handler'[h] = [handler[h] EXCEPT !.alone = FALSE, !.sure = FALSE]
<1>1. handler \in [Handlers -> Request]
  BY LoopbackTypes
<1>2. ASSUME NEW h \in Handlers
      PROVE  /\ handler'[h] \in Request /\ RequestInv(handler'[h], g, e)
             /\ IF Is(h, "idle") THEN handler'[h] = NoRequest
                ELSE handler'[h] = [handler[h] EXCEPT !.alone = FALSE, !.sure = FALSE]
  <2>1. IF Is(h, "idle") THEN handler'[h] = NoRequest
        ELSE handler'[h] = [handler[h] EXCEPT !.alone = FALSE, !.sure = FALSE]
    BY DEF Disturbed
  <2>2. handler[h] \in Request /\ RequestInv(handler[h], g, e)
    BY <1>1
  <2>3. /\ [handler[h] EXCEPT !.alone = FALSE, !.sure = FALSE] \in Request
        /\ RequestInv([handler[h] EXCEPT !.alone = FALSE, !.sure = FALSE], g, e)
    BY <2>2, NotAlone
  <2>4. QED
    BY <2>1, <2>3, IdleRequest
<1>3. DOMAIN handler' = Handlers /\ handler' = [h \in Handlers |-> handler'[h]]
  BY DEF Disturbed
<1>4. QED
  BY <1>2, <1>3

LEMMA LoopbackInductive ==
  ASSUME setup \in Setups, HubTypeOK, HubInv, LoopbackTypeOK, LoopbackInv, [Next]_vars
  PROVE  LoopbackTypeOK' /\ LoopbackInv'
<1>1. /\ caller \in [Threads -> Call] /\ handler \in [Handlers -> Request]
      /\ echo_regions \in Seq([Slots -> Slot]) /\ EchoGen \in Nat
      /\ echo_cursor \in [Handlers -> Slots]
      /\ echoed \in [number : Nat, data : SlotData, alone : BOOLEAN]
  BY LoopbackTypes
<1>2. /\ Gen \in Nat /\ Gen' \in Nat /\ Gen <= Gen'
      /\ \A h \in Handlers : handler[h] \in Request /\ RequestInv(handler[h], Gen, EchoGen)
  BY <1>1, HubCases, RegionsStay DEF LoopbackInv
<1>4. \A h \in Handlers : RequestInv(handler[h], Gen', EchoGen)
  BY <1>1, <1>2, RequestStays
<1>5. CASE UNCHANGED loopbackVars /\ (hub # "down" => hub' # "down")
  <2>1. UNCHANGED <<caller, handler, echo_regions, echo_cursor, echoed>> /\ EchoGen' = EchoGen
    BY <1>5 DEF loopbackVars, EchoGen
  <2>2. LoopbackTypeOK'
    BY <2>1 DEF LoopbackTypeOK
  <2>3. LoopbackInv'
    BY <1>4, <1>5, <2>1 DEF LoopbackInv
  <2>4. QED
    BY <2>2, <2>3
<1>6. CASE HubProcessStops
  <2>1. /\ caller' = NoCalls /\ Disturbed /\ UNCHANGED <<echo_regions, echo_cursor, echoed>>
        /\ EchoGen' = EchoGen
    BY <1>6 DEF HubProcessStops, EchoGen
  <2>2. /\ handler' \in [Handlers -> Request]
        /\ \A h \in Handlers : RequestInv(handler'[h], Gen', EchoGen)
        /\ \A h \in Handlers :
              IF Is(h, "idle") THEN handler'[h] = NoRequest
              ELSE handler'[h] = [handler[h] EXCEPT !.alone = FALSE, !.sure = FALSE]
    BY <1>1, <1>2, <1>4, <2>1, DisturbedTyped
  <2>3. caller' \in [Threads -> Call]
    BY <2>1, IdleCall
  <2>4. LoopbackTypeOK'
    BY <1>1, <2>1, <2>2, <2>3 DEF LoopbackTypeOK, Call, Request
  <2>6. \A t \in Threads : caller'[t].pc = "idle"
    BY <2>1, IdleCall DEF NoCalls
  <2>7. LoopbackInv'
    BY <2>1, <2>2, <2>6 DEF LoopbackInv
  <2>8. QED
    BY <2>4, <2>7
<1>7. CASE LoopbackMoves
  <2>1. CASE LoopbackBegins
    <3> DEFINE t == writer.thread
               kept == Dropping(WithId(writer.id))
               call == [NoCall EXCEPT !.pc = "build", !.id = writer.id, !.number = bursts,
                                      !.refs = writer.refs]
    <3>1. /\ BurstPublished /\ caller' = [kept EXCEPT ![t] = call]
          /\ UNCHANGED <<handler, echo_regions, echo_cursor, echoed>>
      BY <2>1 DEF LoopbackBegins
    <3>2. /\ hub = "ready" /\ hub' = hub
          /\ writer.refs \in Seq(RefType) /\ Len(writer.refs) \in 1 .. FramesPerBurst
      BY <3>1, RefsPublished DEF BurstPublished
    <3>3. writer.refs # <<>>
      BY <3>2, EmptySeq, Constants
    <3>4. t \in Threads /\ writer.id \in Nat /\ bursts \in Nat
      BY DEF HubTypeOK
    <3>5. call \in Call /\ call.refs = writer.refs
      BY <3>2, <3>4, IdleCall DEF Call
    <3>6. kept \in [Threads -> Call] /\ \A u \in Threads : kept[u].pc = caller[u].pc /\ kept[u].refs = caller[u].refs
      BY DroppingTyped
    <3> HIDE DEF kept, call, t
    <3>7. /\ caller' \in [Threads -> Call]
          /\ \A u \in Threads : caller'[u].pc = "build" => caller'[u].refs # <<>>
      <4>1. \A u \in Threads : caller'[u] = IF u = t THEN call ELSE kept[u]
        BY <3>1, <3>6
      <4>2. caller' \in [Threads -> Call]
        BY <3>1, <3>4, <3>5, <3>6
      <4>3. QED
        BY <3>3, <3>5, <3>6, <4>1, <4>2 DEF LoopbackInv
    <3>8. EchoGen' = EchoGen
      BY <3>1 DEF EchoGen
    <3>9. LoopbackTypeOK'
      BY <1>1, <3>1, <3>7 DEF LoopbackTypeOK, Call, Request
    <3>10. LoopbackInv'
      BY <1>4, <1>7, <3>1, <3>2, <3>7, <3>8 DEF LoopbackInv
    <3>11. QED
      BY <3>9, <3>10
  <2>0. CASE PublishesOnly
    <3>1. /\ BurstPublished /\ caller' = Dropping(WithId(writer.id))
          /\ UNCHANGED <<handler, echo_regions, echo_cursor, echoed>> /\ EchoGen' = EchoGen
      BY <2>0 DEF PublishesOnly, EchoGen
    <3>2. hub' = hub
      BY <3>1 DEF BurstPublished
    <3>3. /\ caller' \in [Threads -> Call]
          /\ \A t \in Threads : caller'[t].pc = caller[t].pc /\ caller'[t].refs = caller[t].refs
      BY <3>1, DroppingTyped
    <3>4. \A h \in Handlers : RequestInv(handler'[h], Gen', EchoGen')
      BY <1>4, <3>1
    <3>5. QED
      BY <1>1, <3>1, <3>2, <3>3, <3>4, LoopbackKept
  <2>2. CASE SessionClosesUnder
    <3>1. /\ hub' = "closed" /\ caller' = Dropping(Threads)
          /\ UNCHANGED <<handler, echo_regions, echo_cursor, echoed>> /\ EchoGen' = EchoGen
      BY <2>2 DEF SessionClosesUnder, SessionCloses, EchoGen
    <3>2. /\ caller' \in [Threads -> Call]
          /\ \A t \in Threads : caller'[t].pc = caller[t].pc /\ caller'[t].refs = caller[t].refs
      BY <3>1, DroppingTyped
    <3>3. \A h \in Handlers : RequestInv(handler'[h], Gen', EchoGen')
      BY <1>4, <3>1
    <3>4. QED
      BY <1>1, <1>7, <3>1, <3>2, <3>3, LoopbackKept
  <2>3. CASE CopyBeginsBeside
    <3>1. /\ SlotCopyBegins /\ Disturbed /\ UNCHANGED <<caller, echo_regions, echo_cursor, echoed>>
          /\ EchoGen' = EchoGen /\ hub' = hub
      BY <2>3 DEF CopyBeginsBeside, SlotCopyBegins, EchoGen
    <3>2. /\ handler' \in [Handlers -> Request]
          /\ \A h \in Handlers : RequestInv(handler'[h], Gen', EchoGen)
      BY <1>1, <1>2, <1>4, <3>1, DisturbedTyped
    <3>3. QED
      BY <1>1, <1>7, <3>1, <3>2, LoopbackKept
  <2>4. ASSUME NEW t \in Threads, BuildsSlots(t) PROVE LoopbackTypeOK' /\ LoopbackInv'
    <3>1. /\ caller[t].pc = "build" /\ hub # "down" /\ caller[t].refs # <<>>
          /\ UNCHANGED <<reconHubVars, echo_regions, echo_cursor, echoed>>
      BY <2>4 DEF BuildsSlots, LoopbackInv
    <3>2. Gen >= 1 /\ caller[t].refs \in Seq(RefType)
      BY <1>1, <3>1 DEF HubInv, Call
    <3>3. CASE Calls(t, caller[t].refs, Gen)
      BY <1>2, <1>7, <3>1, <3>2, <3>3, CallTyped
    <3>4. ASSUME NEW s \in Slots, Calls(t, <<[slot |-> s, seq |-> 1]>>, 0)
          PROVE  LoopbackTypeOK' /\ LoopbackInv'
      <4> DEFINE refs == <<[slot |-> s, seq |-> 1]>>
      <4>1. refs \in Seq(RefType) /\ refs # <<>>
        BY DEF RefType
      <4> HIDE DEF refs
      <4>2. Calls(t, refs, 0)
        BY <3>4 DEF refs
      <4>3. 0 \in Nat /\ 0 <= Gen
        BY <1>2
      <4>4. QED
        BY <1>7, <3>1, <3>2, <4>1, <4>2, <4>3, CallTyped
    <3>5. QED
      BY <2>4, <3>3, <3>4 DEF BuildsSlots
  <2>5. ASSUME NEW t \in Threads, CallGivesUp(t) PROVE LoopbackTypeOK' /\ LoopbackInv'
    <3>1. /\ caller' = [caller EXCEPT ![t] = NoCall]
          /\ UNCHANGED <<reconHubVars, handler, echo_regions, echo_cursor, echoed>>
          /\ EchoGen' = EchoGen /\ hub' = hub
      BY <2>5 DEF CallGivesUp, reconHubVars, EchoGen
    <3>2. /\ caller' \in [Threads -> Call]
          /\ \A u \in Threads : caller'[u] = caller[u] \/ caller'[u].pc = "idle"
      BY <1>1, <3>1, IdleCall
    <3>3. \A h \in Handlers : RequestInv(handler'[h], Gen', EchoGen')
      BY <1>4, <3>1
    <3>4. QED
      BY <1>1, <1>7, <3>1, <3>2, <3>3, LoopbackKept
  <2>6. ASSUME NEW h \in Handlers, HandlerStep(h) PROVE LoopbackTypeOK' /\ LoopbackInv'
    BY <1>7, <2>6, HandlerInductive
  <2>7. QED
    BY <1>7, <2>0, <2>1, <2>2, <2>3, <2>4, <2>5, <2>6 DEF LoopbackMoves
<1>8. QED
  BY <1>5, <1>6, <1>7, LoopbackCases

-----------------------------------------------------------------------------
\* Types.

ReconInv == TypeOK /\ HubInv /\ WatcherInv /\ LoopbackInv

LEMMA ReconInitial == Init => ReconInv
BY HubTypedInitially, WatcherTypedInitially, LoopbackTypedInitially
   DEF Init, ReconInv, TypeOK

LEMMA ReconInductive == ReconInv /\ [Next]_vars => ReconInv'
<1> SUFFICES ASSUME ReconInv, [Next]_vars PROVE ReconInv'
    OBVIOUS
<1>1. /\ setup \in Setups /\ HubTypeOK /\ HubInv /\ WatcherTypeOK /\ WatcherInv
      /\ LoopbackTypeOK /\ LoopbackInv
  BY DEF ReconInv, TypeOK
<1>2. HubMoves /\ HubTypeOK' /\ HubInv'
  BY <1>1, HubCases, HubInductive
<1>3. LoopbackTypeOK' /\ LoopbackInv'
  BY <1>1, LoopbackInductive
<1>4. WatcherTypeOK' /\ WatcherInv'
  <2>1. CASE UNCHANGED watcherVars
    <3>1. Gen \in Nat /\ Gen' \in Nat /\ Gen <= Gen'
      BY <1>1, <1>2, RegionsStay
    <3>2. UNCHANGED <<w, poller, saved, save_failures>>
      BY <2>1 DEF watcherVars
    <3>3. WatcherTypeOK'
      BY <1>1, <3>2 DEF WatcherTypeOK
    <3>4. WatcherInv'
      <4>1. poller.gen \in Nat /\ (w.local.gen \in 1 .. Gen => w.local.gen \in 1 .. Gen')
        BY <1>1, <3>1, Constants DEF WatcherTypeOK
      <4>2. QED
        BY <1>1, <3>1, <3>2, <4>1 DEF WatcherInv, At
    <3>5. QED
      BY <3>3, <3>4
  <2>2. CASE WatcherStep \/ WatcherFailure
    BY <1>1, <2>2, WatcherThreadInductive
  <2>3. CASE PollerStep
    BY <1>1, <2>3, PollerInductive
  <2>4. QED
    BY <2>1, <2>2, <2>3, WatcherCases
<1>5. QED
  BY <1>1, <1>2, <1>3, <1>4, LoopbackCases DEF ReconInv, TypeOK

LEMMA ReconAlways == Spec => []ReconInv
<1>1. Init => ReconInv
  BY ReconInitial
<1>2. ReconInv /\ [Next]_vars => ReconInv'
  BY ReconInductive
<1>3. QED
  BY <1>1, <1>2, PTL DEF Spec

\* Every variable of the hub's process, of the two readers and of the loopback keeps its type,
\* with and without the loopback: no reader uses a region that was not created, and nothing is
\* read past the slots of an answer.
THEOREM TypeCorrect == Spec => []TypeOK
<1>1. ReconInv => TypeOK
  BY DEF ReconInv
<1>2. QED
  BY <1>1, ReconAlways, PTL

-----------------------------------------------------------------------------
\* What the watcher saves.

LEMMA BurstCases ==
  ASSUME HubTypeOK, HubInv, HubMoves
  PROVE  \/ /\ bursts' = bursts
            /\ writer'.active => writer.active
            /\ latest' = latest \/ latest' = NoLatest
         \/ /\ bursts' = bursts + 1
            /\ ~writer.active /\ latest' = latest
         \/ /\ bursts' = bursts
            /\ writer.active /\ ~writer'.active
            /\ latest'.number = bursts
<1>1. CASE \E t \in Threads, id \in CaptureIds, rec \in RecModes : Writes(t, id, rec)
  BY <1>1 DEF Writes
<1>2. CASE BurstPublished
  BY <1>2, NothingWritten DEF BurstPublished, Publication
<1>3. CASE SlotCopyEnds
  BY <1>3, RefAppended DEF SlotCopyEnds
<1>4. CASE SlotCopyBegins
  BY <1>4 DEF SlotCopyBegins
<1>5. CASE HubStops
  BY <1>5, NothingWritten DEF HubStops
<1>6. CASE HubStarts \/ SessionCloses \/ HubReady \/ UNCHANGED reconHubVars
  BY <1>6 DEF HubStarts, SessionCloses, HubReady, reconHubVars
<1>7. QED
  BY <1>1, <1>2, <1>3, <1>4, <1>5, <1>6 DEF HubMoves

LEMMA NumbersTyped ==
  ASSUME HubTypeOK, WatcherTypeOK
  PROVE  /\ bursts \in Nat /\ latest.number \in Nat /\ latest.id \in Nat
         /\ w.local.number \in Nat /\ w.local.key \in Nat /\ w.last \in Nat
         /\ saved \in Seq([id : Nat, number : Nat])
         /\ \A i \in DOMAIN saved : saved[i].number \in Nat
<1>1. saved \in Seq([id : Nat, number : Nat])
  BY DEF WatcherTypeOK
<1>2. ASSUME NEW i \in DOMAIN saved PROVE saved[i].number \in Nat
  <2>1. i \in 1 .. Len(saved)
    BY <1>1, <1>2
  <2>2. saved[i] \in [id : Nat, number : Nat]
    BY <1>1, <2>1, ElementOfSeq
  <2>3. QED
    BY <2>2
<1>3. QED
  BY <1>1, <1>2 DEF HubTypeOK, WatcherTypeOK

\* The three ways the hub's history goes on, seen by a watcher that does nothing.
LEMMA SavedWhileForgotten ==
  ASSUME SavedInv, UNCHANGED <<w, saved>>, bursts' = bursts, writer'.active => writer.active,
         latest' = latest \/ latest' = NoLatest
  PROVE  SavedInv'
<1>1. CASE latest' = latest
  BY <1>1 DEF SavedInv, At
<1>2. CASE latest' = NoLatest
  BY <1>2 DEF SavedInv, At
<1>3. QED
  BY <1>1, <1>2

LEMMA SavedWhileBegun ==
  ASSUME HubTypeOK, WatcherTypeOK, SavedInv, UNCHANGED <<w, saved>>, bursts' = bursts + 1,
         ~writer.active, latest' = latest
  PROVE  SavedInv'
<1>1. /\ bursts \in Nat /\ latest.number \in Nat /\ w.local.number \in Nat
      /\ \A i \in DOMAIN saved : saved[i].number \in Nat
  BY NumbersTyped
<1>2. QED
  BY <1>1 DEF SavedInv, At

LEMMA SavedWhilePublished ==
  ASSUME HubTypeOK, WatcherTypeOK, SavedInv, UNCHANGED <<w, saved>>, bursts' = bursts,
         writer.active, ~writer'.active, latest'.number = bursts
  PROVE  SavedInv'
<1>1. /\ bursts \in Nat /\ latest.number \in Nat /\ w.local.number \in Nat
      /\ \A i \in DOMAIN saved : saved[i].number \in Nat
  BY NumbersTyped
<1>2. \A i \in DOMAIN saved : saved[i].number < bursts
  BY DEF SavedInv
<1>3. At("open") \/ At("read") =>
        w.local.number < bursts /\ \A i \in DOMAIN saved : saved[i].number < w.local.number
  BY DEF SavedInv
<1>4. QED
  BY <1>1, <1>2, <1>3 DEF SavedInv, At

\* A step of the watcher that saves nothing: it does not read, or reads on.
LEMMA SavedWhileIdle ==
  ASSUME SavedInv, UNCHANGED <<bursts, writer, latest, saved>>, w'.last = w.last,
         w'.local.pc \in {"connect", "poll"}
  PROVE  SavedInv'
BY DEF SavedInv, At

LEMMA SavedWhileReading ==
  ASSUME SavedInv, UNCHANGED <<bursts, writer, latest, saved>>, w'.last = w.last,
         At("open") \/ At("read"),
         w'.local.number = w.local.number, w'.local.key = w.local.key
  PROVE  SavedInv'
BY DEF SavedInv, At

LEMMA SavedInductive ==
  ASSUME ReconInv, SavedInv, SavedOnce, [Next]_vars
  PROVE  SavedInv' /\ SavedOnce'
<1>1. /\ setup \in Setups /\ HubTypeOK /\ HubInv /\ WatcherTypeOK /\ WatcherInv
  BY DEF ReconInv, TypeOK
<1>2. /\ bursts \in Nat /\ latest.number \in Nat /\ latest.id \in Nat
      /\ w.local.number \in Nat /\ w.local.key \in Nat /\ w.last \in Nat
      /\ saved \in Seq([id : Nat, number : Nat])
      /\ \A i \in DOMAIN saved : saved[i].number \in Nat
  BY <1>1, NumbersTyped
<1>3. CASE UNCHANGED watcherVars
  <2>1. UNCHANGED <<w, saved>>
    BY <1>3 DEF watcherVars
  <2>2. SavedOnce'
    BY <2>1 DEF SavedOnce
  <2>3. HubMoves
    BY <1>1, HubCases
  <2>4. CASE /\ bursts' = bursts
             /\ writer'.active => writer.active
             /\ latest' = latest \/ latest' = NoLatest
    BY <2>1, <2>2, <2>4, SavedWhileForgotten
  <2>5. CASE /\ bursts' = bursts + 1
             /\ ~writer.active /\ latest' = latest
    BY <1>1, <2>1, <2>2, <2>5, SavedWhileBegun
  <2>6. CASE /\ bursts' = bursts
             /\ writer.active /\ ~writer'.active
             /\ latest'.number = bursts
    BY <1>1, <2>1, <2>2, <2>6, SavedWhilePublished
  <2>7. QED
    BY <1>1, <2>2, <2>3, <2>4, <2>5, <2>6, BurstCases
<1>4. CASE WatcherStep \/ WatcherFailure \/ PollerStep
  <2>1. UNCHANGED <<bursts, writer, latest>>
    BY <1>4, WatcherLeavesHub DEF HubReady, reconHubVars
  <2>2. CASE PollerStep
    <3>1. UNCHANGED <<w, saved>>
      BY <2>2 DEF PollerStep, PollerStarts, PollerTakes
    <3>2. QED
      BY <2>1, <3>1 DEF SavedInv, SavedOnce, At
  <2>3. CASE WatcherConnects \/ PollLosesHub \/ DirectoryFails
    <3>1. /\ w'.last = w.last /\ saved' = saved
          /\ \/ w'.local = [Disconnected EXCEPT !.pc = "poll", !.sid = sid]
             \/ \E pc \in {"connect", "poll"} :
                  w'.local = [Disconnected EXCEPT !.pc = pc, !.sid = w.local.sid]
      <4>1. CASE WatcherConnects
        BY <1>1, <4>1 DEF WatcherConnects, WatcherTypeOK
      <4>2. CASE PollLosesHub
        BY <1>1, <4>2 DEF PollLosesHub, GoTo, WatcherTypeOK
      <4>3. CASE DirectoryFails
        BY <1>1, <4>3 DEF DirectoryFails, GoTo, WatcherTypeOK
      <4>4. QED
        BY <2>3, <4>1, <4>2, <4>3
    <3>2. w'.local.pc \in {"connect", "poll"}
      BY <3>1 DEF Disconnected
    <3>3. SavedInv'
      BY <2>1, <3>1, <3>2, SavedWhileIdle
    <3>4. QED
      BY <3>1, <3>3 DEF SavedOnce
  <2>4. CASE PollFindsBurst
    <3>1. /\ At("poll") /\ ~writer.active /\ latest # NoLatest /\ saved' = saved
          /\ latest.id > LastSavedFor(w.last, latest.id)
          /\ w'.last = LastSavedFor(w.last, latest.id)
          /\ w'.local = [w.local EXCEPT !.pc = "open", !.key = latest.id,
                         !.number = latest.number, !.refs = latest.refs,
                         !.mark = latest.mark, !.gen = Gen]
      BY <2>4 DEF PollFindsBurst
    <3>2. w'.local.pc = "open" /\ w'.local.key = latest.id /\ w'.local.number = latest.number
      BY <1>1, <3>1 DEF WatcherTypeOK
    \* Were the latest publication saved, its id would be the remembered one.
    <3>3. w.last # latest.id
      BY <1>2, <3>1 DEF LastSavedFor
    <3>4. \A i \in DOMAIN saved : saved[i].number < latest.number
      BY <1>2, <3>1, <3>3, SMTT(20) DEF SavedInv
    <3>5. SavedInv'
      <4>1. \A i \in DOMAIN saved : saved[i].number <= bursts
        BY DEF SavedInv
      <4>2. latest.number <= bursts
        BY <3>1 DEF SavedInv
      <4>3. \A i \in DOMAIN saved : saved[i].number # latest.number
        BY <1>2, <3>4
      <4>4. QED
        BY <1>2, <2>1, <3>1, <3>2, <3>4, <4>1, <4>2, <4>3 DEF SavedInv, At
    <3>6. QED
      BY <3>1, <3>5 DEF SavedOnce
  <2>5. CASE OpensRegion \/ ReadsFrame \/ FrameSaveFails
    <3>0. w = [last |-> w.last, local |-> w.local] /\ w.local \in Local
      BY <1>1 DEF WatcherTypeOK, Local
    <3>1. /\ saved' = saved /\ w'.last = w.last
          /\ At("open") \/ At("read")
          /\ w'.local.number = w.local.number /\ w'.local.key = w.local.key
      <4>1. CASE OpensRegion
        <5>1. /\ At("open") /\ saved' = saved
              /\ w' = [w EXCEPT !.local.pc = "read", !.local.gen = Gen, !.local.next = 1,
                                !.local.replaced = w.local.gen # Gen]
          BY <4>1 DEF OpensRegion
        <5>2. /\ w'.last = w.last
              /\ w'.local = [w.local EXCEPT !.pc = "read", !.gen = Gen, !.next = 1,
                                            !.replaced = w.local.gen # Gen]
          BY <5>1, <1>1 DEF WatcherTypeOK
        <5>3. QED
          BY <3>0, <5>1, <5>2 DEF Local
      <4>2. CASE ReadsFrame
        <5> DEFINE good == w.local.good /\
                     regions[w.local.gen][w.local.refs[w.local.next].slot].data
                       = ReferencedFrame(w.local.next)
        <5>1. /\ w' = [w EXCEPT !.local.next = @ + 1, !.local.ok = @ + 1, !.local.good = good]
              /\ saved' = saved /\ At("read")
          BY <4>2, <1>1 DEF ReadsFrame, WatcherTypeOK
        <5> HIDE DEF good
        <5>2. /\ w'.last = w.last
              /\ w'.local = [w.local EXCEPT !.next = @ + 1, !.ok = @ + 1, !.good = good]
          BY <5>1, <1>1 DEF WatcherTypeOK
        <5>3. QED
          BY <3>0, <5>1, <5>2 DEF Local
      <4>3. CASE FrameSaveFails
        <5>1. /\ w'.last = w.last /\ w'.local = [w.local EXCEPT !.next = @ + 1]
              /\ saved' = saved /\ At("read")
          BY <4>3, <1>1 DEF FrameSaveFails, WatcherTypeOK
        <5>2. QED
          BY <3>0, <5>1 DEF Local
      <4>4. QED
        BY <2>5, <4>1, <4>2, <4>3
    <3>2. SavedInv'
      BY <2>1, <3>1, SavedWhileReading
    <3>3. QED
      BY <3>1, <3>2 DEF SavedOnce
  <2>6. CASE BatchEnds
    <3> DEFINE batch == [id |-> w.local.key, number |-> w.local.number]
               n == Len(saved)
    <3>1. /\ At("read") /\ w'.local.pc = "poll"
          /\ \/ w'.last = w.last /\ saved' = saved
             \/ w'.last = w.local.key /\ saved' = Append(saved, batch)
      <4>1. w.local.ok \in Nat
        BY <1>1, Constants DEF WatcherTypeOK
      <4>2. QED
        <5>1. /\ At("read") /\ w'.last = LastSavedAfter(w.local.ok, w.last, w.local.key)
              /\ w'.local = [Disconnected EXCEPT !.pc = "poll", !.sid = w.local.sid]
              /\ saved' = IF w.local.ok = 0 THEN saved ELSE Append(saved, batch)
          BY <2>6 DEF BatchEnds
        <5>2. w'.local.pc = "poll"
          BY <5>1 DEF Disconnected
        <5>3. QED
          BY <4>1, <5>1, <5>2 DEF LastSavedAfter
    <3>2. CASE w'.last = w.last /\ saved' = saved
      BY <2>1, <3>1, <3>2 DEF SavedInv, SavedOnce, At
    <3>3. CASE w'.last = w.local.key /\ saved' = Append(saved, batch)
      <4>1. batch \in [id : Nat, number : Nat] /\ batch.number = w.local.number
        BY <1>1, <1>2 DEF WatcherTypeOK
      <4> HIDE DEF batch
      <4>2. n \in Nat /\ DOMAIN saved = 1 .. n
        BY <1>2
      <4>3. /\ DOMAIN saved' = 1 .. n + 1 /\ saved'[n + 1] = batch
            /\ \A i \in 1 .. n : saved'[i] = saved[i]
        BY <1>2, <3>3, <4>1, AppendProperties
      <4> HIDE DEF n
      <4>4. \A i \in 1 .. n + 1 : i \in 1 .. n \/ i = n + 1
        BY <4>2
      <4>5. /\ \A i \in 1 .. n : saved[i].number < w.local.number
            /\ w.local.number <= bursts
            /\ writer.active => w.local.number < bursts
            /\ latest # NoLatest =>
                 /\ w.local.number <= latest.number
                 /\ w.local.number = latest.number => w.local.key = latest.id
        BY <3>1, <4>2 DEF SavedInv
      <4>6. ASSUME NEW i \in 1 .. n + 1
            PROVE  /\ saved'[i].number <= w.local.number
                   /\ saved'[i].number = w.local.number => i = n + 1
        <5>1. CASE i = n + 1
          BY <1>2, <4>1, <4>3, <5>1
        <5>2. CASE i \in 1 .. n
          <6>1. saved'[i].number = saved[i].number /\ saved[i].number \in Nat
            BY <1>2, <4>2, <4>3, <5>2
          <6>2. saved[i].number < w.local.number
            BY <4>5, <5>2
          <6>3. QED
            BY <1>2, <6>1, <6>2
        <5>3. QED
          BY <4>4, <5>1, <5>2
      <4>7. SavedOnce'
        <5> SUFFICES ASSUME NEW i \in 1 .. n + 1, NEW j \in 1 .. n + 1,
                            saved'[i].number = saved'[j].number
                     PROVE  i = j
            BY <4>3 DEF SavedOnce
        <5>1. CASE i \in 1 .. n /\ j \in 1 .. n
          BY <4>2, <4>3, <5>1 DEF SavedOnce
        <5>2. CASE i = n + 1 \/ j = n + 1
          BY <4>1, <4>3, <4>6, <5>2
        <5>3. QED
          BY <4>4, <5>1, <5>2
      <4>8. ASSUME NEW i \in 1 .. n + 1
            PROVE  /\ saved'[i].number \in Nat /\ saved'[i].number <= bursts
                   /\ writer.active => saved'[i].number < bursts
                   /\ latest # NoLatest =>
                        /\ saved'[i].number <= latest.number
                        /\ saved'[i].number = latest.number => w.local.key = latest.id
        <5>1. saved'[i].number \in Nat
          BY <1>2, <4>1, <4>2, <4>3, <4>4
        <5>2. QED
          BY <1>2, <4>5, <4>6, <5>1
      <4>9. latest # NoLatest => latest.number <= bursts /\ (writer.active => latest.number < bursts)
        BY DEF SavedInv
      <4>10. QED
        BY <2>1, <3>1, <3>3, <4>3, <4>7, <4>8, <4>9 DEF SavedInv, At
    <3>4. QED
      BY <3>1, <3>2, <3>3
  <2>7. QED
    BY <1>4, <2>2, <2>3, <2>4, <2>5, <2>6 DEF WatcherStep, WatcherFailure
<1>5. QED
  BY <1>3, <1>4, WatcherCases

\* No publication is saved twice, whatever is restarted, closed or reused, and however the ids
\* are chosen: a burst that last_saved_capture_id let pass is newer than all that were saved.
THEOREM BatchesAreOnce == Spec => []SavedOnce
<1> DEFINE Inv == ReconInv /\ SavedInv /\ SavedOnce
<1>1. Init => Inv
  <2>1. Init => SavedInv /\ SavedOnce
    BY DEF Init, HubInit, WatcherInit, SavedInv, SavedOnce, Disconnected, At
  <2>2. QED
    BY <2>1, ReconInitial
<1>2. Inv /\ [Next]_vars => Inv'
  BY ReconInductive, SavedInductive
<1>3. QED
  BY <1>1, <1>2, PTL DEF Spec

-----------------------------------------------------------------------------
\* What the seq of a slot says of its content.

\* What the hub does to the slots of a region it created.
SlotsKept ==
  \A g \in 1 .. Gen, s \in Slots :
    /\ regions'[g][s].seq = regions[g][s].seq
    /\ regions'[g][s].data = regions[g][s].data

LEMMA HubEffects ==
  ASSUME HubTypeOK, HubInv, HubMoves
  PROVE  \/ SlotCopyBegins
         \/ SlotCopyEnds
         \/ /\ SlotsKept
            /\ \/ ~writer'.copying
               \/ UNCHANGED <<writer, cursor>>
            /\ \/ HubStarts /\ Gen' = Gen + 1
               \/ Gen' = Gen /\ hub' = "down"
               \/ Gen' = Gen /\ hub # "down" /\ (~writer.copying \/ UNCHANGED <<writer, cursor>>)
               \/ Gen' = Gen /\ hub' = hub /\ UNCHANGED <<writer, cursor>>
<1>1. regions \in Seq([Slots -> Slot]) /\ Gen \in Nat
  BY DEF HubTypeOK, Gen
<1>2. regions' = regions => SlotsKept /\ Gen' = Gen
  BY DEF SlotsKept, Gen
<1>3. CASE HubStarts
  <2>1. /\ Len(Append(regions, CreatedRing)) = Len(regions) + 1
        /\ \A i \in 1 .. Len(regions) : Append(regions, CreatedRing)[i] = regions[i]
    BY <1>1, NewRegion
  <2>2. Gen' = Gen + 1 /\ SlotsKept
    BY <1>3, <2>1 DEF HubStarts, SlotsKept, Gen
  <2>3. UNCHANGED <<writer, cursor>>
    BY <1>3 DEF HubStarts
  <2>4. QED
    BY <1>3, <2>2, <2>3
<1>4. CASE HubStops
  BY <1>2, <1>4, NothingWritten DEF HubStops
<1>5. CASE SessionCloses \/ HubReady
  BY <1>2, <1>5 DEF SessionCloses, HubReady
<1>6. CASE \E t \in Threads, id \in CaptureIds, rec \in RecModes : Writes(t, id, rec)
  <2>1. PICK thread, id, rec : Writes(thread, id, rec)
    BY <1>6
  <2>2. /\ hub = "ready" /\ ~writer.active /\ regions' = regions
        /\ writer' = [NotWriting EXCEPT !.active = TRUE, !.thread = thread, !.id = id, !.next = 1,
                                       !.slots = RawFrames(thread) + ResultSlots(rec)]
    BY <2>1 DEF Writes
  <2>3. ~writer.copying /\ ~writer'.copying
    BY <2>2 DEF HubInv, NotWriting
  <2>4. QED
    BY <1>2, <2>2, <2>3
<1>7. CASE BurstPublished
  <2>1. hub = "ready"
    BY <1>7, RefsPublished
  <2>2. QED
    BY <1>2, <1>7, <2>1, NothingWritten DEF BurstPublished
<1>8. CASE UNCHANGED reconHubVars
  BY <1>2, <1>8 DEF reconHubVars
<1>9. QED
  BY <1>3, <1>4, <1>5, <1>6, <1>7, <1>8 DEF HubMoves

LEMMA CursorTyped ==
  ASSUME HubTypeOK
  PROVE  /\ regions \in Seq([Slots -> Slot]) /\ Gen \in Nat
         /\ \A g \in 1 .. Gen, s \in Slots : regions[g][s] \in Slot
         /\ WriterCursor \in Slots
<1>1. regions \in Seq([Slots -> Slot]) /\ Gen \in Nat
  BY DEF HubTypeOK, Gen
<1>2. \A g \in 1 .. Gen : regions[g] \in [Slots -> Slot]
  BY <1>1, ElementOfSeq DEF Gen
<1>3. WriterCursor \in Slots
  BY DEF HubTypeOK, WriterCursor
<1>4. QED
  BY <1>1, <1>2, <1>3

LEMMA CopyBeginsAt ==
  ASSUME HubTypeOK, HubInv, SlotCopyBegins
  PROVE  /\ ~writer.copying /\ writer'.copying /\ WriterCursor' = WriterCursor
         /\ hub' = hub /\ hub # "down" /\ UNCHANGED cursor
         /\ writer'.refs = writer.refs /\ writer'.next = writer.next
         /\ writer'.thread = writer.thread /\ writer.active /\ writer'.active
BY DEF SlotCopyBegins, HubTypeOK, HubInv, WriterCursor

LEMMA TornInductive ==
  ASSUME HubTypeOK, HubInv, TornInv, HubMoves
  PROVE  TornInv'
<1>1. Gen \in Nat /\ WriterCursor \in Slots
  BY CursorTyped
<1>2. CASE SlotCopyBegins
  <2>1. /\ Gen \in 1 .. Gen /\ Gen' = Gen
        /\ regions'[Gen][WriterCursor].data = Torn
    BY <1>1, <1>2, TornSlot
  <2>2. WriterCursor' = WriterCursor
    BY <1>2, CopyBeginsAt
  <2>3. regions'[Gen'][WriterCursor'].data = Torn
    BY <2>1, <2>2
  <2>4. QED
    BY <2>3 DEF TornInv
<1>3. CASE SlotCopyEnds
  BY <1>3, RefAppended DEF TornInv
<1>4. CASE /\ SlotsKept
           /\ ~writer'.copying \/ UNCHANGED <<writer, cursor>>
           /\ HubStarts \/ Gen' = Gen
  <2>1. CASE ~writer'.copying
    BY <2>1 DEF TornInv
  <2>2. CASE writer'.copying
    <3>1. UNCHANGED <<writer, cursor>> /\ WriterCursor' = WriterCursor
      BY <1>4, <2>2 DEF WriterCursor
    <3>2. hub # "down" /\ Gen >= 1
      BY <2>2, <3>1 DEF HubInv
    <3>3. Gen' = Gen /\ Gen \in 1 .. Gen
      BY <1>1, <1>4, <3>2 DEF HubStarts
    <3>4. regions[Gen][WriterCursor].data = Torn
      BY <2>2, <3>1 DEF TornInv
    <3>5. regions'[Gen'][WriterCursor'].data = Torn
      BY <1>1, <1>4, <3>1, <3>3, <3>4 DEF SlotsKept
    <3>6. QED
      BY <3>5 DEF TornInv
  <2>3. QED
    BY <2>1, <2>2
<1>5. QED
  BY <1>2, <1>3, <1>4, HubEffects

\* Whatever the hub does, a reference stays what it was or loses its seq.
LEMMA RefStays ==
  ASSUME HubTypeOK, HubInv, TornInv, HubMoves,
         NEW g \in 1 .. Gen, NEW ref \in RefType, NEW frame, RefHolds(g, ref, frame)
  PROVE  RefHolds(g, ref, frame)'
<1> DEFINE slot == regions[g][ref.slot]
           new == regions'[g][ref.slot]
<1>1. /\ Gen \in Nat /\ WriterCursor \in Slots
      /\ slot \in Slot /\ ref.slot \in Slots /\ ref.seq \in Nat /\ slot.seq \in Nat
  BY CursorTyped DEF RefType, Slot
<1>2. /\ ref.seq <= slot.seq
      /\ slot.seq = ref.seq =>
          \/ slot.data = frame
          \/ /\ slot.data = Torn
             /\ g = Gen /\ hub # "down" => writer.copying /\ ref.slot = WriterCursor
  BY DEF RefHolds
<1>3. CASE SlotCopyBegins
  <2>1. /\ Gen' = Gen /\ new.seq = slot.seq
        /\ new.data = IF g = Gen /\ ref.slot = WriterCursor THEN Torn ELSE slot.data
    BY <1>1, <1>3, TornSlot
  <2>2. /\ ~writer.copying /\ writer'.copying /\ WriterCursor' = WriterCursor /\ hub' = hub
    BY <1>3, CopyBeginsAt
  <2> HIDE DEF slot, new
  <2>3. /\ ref.seq <= new.seq
        /\ new.seq = ref.seq =>
            \/ new.data = frame
            \/ /\ new.data = Torn
               /\ g = Gen' /\ hub' # "down" => writer'.copying /\ ref.slot = WriterCursor'
    BY <1>2, <2>1, <2>2
  <2>4. QED
    BY <2>3 DEF RefHolds, new
<1>4. CASE SlotCopyEnds
  <2>1. /\ Gen' = Gen
        /\ new.seq = IF g = Gen /\ ref.slot = WriterCursor THEN slot.seq + 1 ELSE slot.seq
        /\ new.data = IF g = Gen /\ ref.slot = WriterCursor THEN WriterFrame ELSE slot.data
    BY <1>1, <1>4, PublishedInSlot
  <2>2. hub' = hub
    BY <1>4 DEF SlotCopyEnds
  <2> HIDE DEF slot, new
  <2>3. CASE g = Gen /\ ref.slot = WriterCursor
    <3>1. ref.seq < new.seq /\ new.seq \in Nat
      BY <1>1, <1>2, <2>1, <2>3
    <3>2. QED
      BY <1>1, <3>1 DEF RefHolds, new
  <2>4. CASE ~(g = Gen /\ ref.slot = WriterCursor)
    <3>1. /\ ref.seq <= new.seq
          /\ new.seq = ref.seq =>
              \/ new.data = frame
              \/ /\ new.data = Torn
                 /\ ~(g = Gen' /\ hub' # "down")
      BY <1>2, <2>1, <2>2, <2>4
    <3>2. QED
      BY <3>1 DEF RefHolds, new
  <2>5. QED
    BY <2>3, <2>4
<1>5. CASE /\ SlotsKept
           /\ \/ ~writer'.copying
              \/ UNCHANGED <<writer, cursor>>
           /\ \/ HubStarts /\ Gen' = Gen + 1
              \/ Gen' = Gen /\ hub' = "down"
              \/ Gen' = Gen /\ hub # "down" /\ (~writer.copying \/ UNCHANGED <<writer, cursor>>)
              \/ Gen' = Gen /\ hub' = hub /\ UNCHANGED <<writer, cursor>>
  <2>1. new.seq = slot.seq /\ new.data = slot.data
    BY <1>1, <1>5 DEF SlotsKept
  <2>2. UNCHANGED <<writer, cursor>> => WriterCursor' = WriterCursor /\ writer' = writer
    BY DEF WriterCursor
  <2> HIDE DEF slot, new
  <2>3. g = Gen' /\ hub' # "down" =>
           /\ g = Gen /\ hub # "down"
           /\ ~writer.copying \/ (writer'.copying /\ WriterCursor' = WriterCursor)
    <3>1. CASE HubStarts /\ Gen' = Gen + 1
      BY <1>1, <3>1
    <3>2. CASE Gen' = Gen /\ hub' = "down"
      BY <3>2
    <3>3. CASE Gen' = Gen /\ hub # "down" /\ (~writer.copying \/ UNCHANGED <<writer, cursor>>)
      BY <2>2, <3>3
    <3>4. CASE Gen' = Gen /\ hub' = hub /\ UNCHANGED <<writer, cursor>>
      BY <2>2, <3>4
    <3>5. QED
      BY <1>5, <3>1, <3>2, <3>3, <3>4
  <2>4. /\ ref.seq <= new.seq
        /\ new.seq = ref.seq =>
            \/ new.data = frame
            \/ /\ new.data = Torn
               /\ g = Gen' /\ hub' # "down" => writer'.copying /\ ref.slot = WriterCursor'
    BY <1>2, <2>1, <2>3
  <2>5. QED
    BY <2>4 DEF RefHolds, new
<1>6. QED
  BY <1>3, <1>4, <1>5, HubEffects

LEMMA AllStay ==
  ASSUME HubTypeOK, HubInv, TornInv, HubMoves,
         NEW g \in 1 .. Gen, NEW refs \in Seq(RefType), NEW number, AllHold(g, refs, number)
  PROVE  AllHold(g, refs, number)'
<1>1. ASSUME NEW i \in DOMAIN refs PROVE RefHolds(g, refs[i], FrameOf(number, i))'
  <2>1. refs[i] \in RefType
    BY <1>1, ElementOfSeq
  <2>2. RefHolds(g, refs[i], FrameOf(number, i))
    BY DEF AllHold
  <2>3. QED
    BY <2>1, <2>2, RefStays
<1>2. QED
  BY <1>1 DEF AllHold

\* The slot just written holds the frame of its reference.
LEMMA NewRefHolds ==
  ASSUME HubTypeOK, HubInv, SlotCopyEnds, NEW i,
         writer'.refs[i] = [slot |-> WriterCursor, seq |-> regions'[Gen][WriterCursor].seq],
         WriterFrame = FrameOf(bursts, i)
  PROVE  RefHolds(Gen, writer.refs[i], FrameOf(bursts, i))'
<1>1. /\ Gen' = Gen /\ Gen \in 1 .. Gen /\ WriterCursor \in Slots
      /\ regions'[Gen][WriterCursor].data = WriterFrame
      /\ regions' \in Seq([Slots -> Slot])
  BY PublishedInSlot
<1>2. bursts' = bursts
  BY DEF SlotCopyEnds
<1>3. regions'[Gen][WriterCursor].seq \in Nat
  <2>1. regions'[Gen] \in [Slots -> Slot]
    BY <1>1, ElementOfSeq DEF Gen
  <2>2. QED
    BY <1>1, <2>1 DEF Slot
<1>4. QED
  BY <1>1, <1>2, <1>3 DEF RefHolds

LEMMA WriterRefsInductive ==
  ASSUME HubTypeOK, HubInv, TornInv, WriterRefsHold, HubMoves
  PROVE  WriterRefsHold'
<1>1. /\ writer.refs \in Seq(RefType) /\ Gen \in Nat
      /\ writer.active => hub = "ready" /\ Gen \in 1 .. Gen
  BY CursorTyped DEF HubTypeOK, HubInv
\* References written before the step.
<1>2. ASSUME writer.active, NEW i \in DOMAIN writer.refs,
             NEW ref, ref = writer.refs[i]
      PROVE  RefHolds(Gen, ref, FrameOf(bursts, i))
             /\ ref \in RefType
  <2>1. ref \in RefType
    BY <1>1, <1>2, ElementOfSeq
  <2>2. QED
    BY <1>2, <2>1 DEF WriterRefsHold, AllHold
<1>3. ASSUME writer.active, writer'.active, Gen' = Gen, bursts' = bursts,
             NEW i \in DOMAIN writer.refs,
             writer'.refs[i] = writer.refs[i]
      PROVE  RefHolds(Gen, writer.refs[i], FrameOf(bursts, i))'
  <2> DEFINE ref == writer.refs[i]
             g == Gen
             frame == FrameOf(bursts, i)
  <2>1. g \in 1 .. Gen /\ ref \in RefType /\ RefHolds(g, ref, frame)
    BY <1>1, <1>2, <1>3
  <2>2. PICK g0, ref0, frame0 : g0 = g /\ ref0 = ref /\ frame0 = frame
    OBVIOUS
  <2> HIDE DEF g, ref, frame
  <2>3. g0 \in 1 .. Gen /\ ref0 \in RefType /\ RefHolds(g0, ref0, frame0)
    BY <2>1, <2>2
  <2>4. RefHolds(g0, ref0, frame0)'
    BY <2>3, RefStays
  <2>5. g0 = Gen' /\ ref0 = writer'.refs[i] /\ frame0 = FrameOf(bursts', i)
    BY <1>3, <2>2 DEF g, ref, frame
  <2>6. QED
    BY <2>4, <2>5 DEF RefHolds
<1>4. CASE UNCHANGED <<writer, bursts>> /\ ~HubStarts
  <2>1. writer.active => Gen' = Gen
    BY <1>4, HubEffects, TornSlot, PublishedInSlot
  <2>2. QED
    BY <1>3, <1>4, <2>1 DEF WriterRefsHold, AllHold
<1>5. CASE HubStarts
  BY <1>1, <1>5 DEF HubStarts, WriterRefsHold
<1>6. CASE SlotCopyBegins
  <2>1. /\ writer'.refs = writer.refs /\ writer'.thread = writer.thread
        /\ writer.active /\ writer'.active /\ bursts' = bursts /\ Gen' = Gen
    BY <1>6, CopyBeginsAt, TornSlot DEF SlotCopyBegins
  <2>2. QED
    BY <1>3, <2>1 DEF WriterRefsHold, AllHold
<1>7. CASE SlotCopyEnds
  <2>1. /\ writer.active /\ writer'.active /\ bursts' = bursts /\ Gen' = Gen
        /\ writer' \in WriteRecords
        /\ \A i \in 1 .. Len(writer.refs) : writer'.refs[i] = writer.refs[i]
        /\ \A i \in 1 .. Len(writer'.refs) :
              \/ i \in 1 .. Len(writer.refs)
              \/ /\ WriterFrame = FrameOf(bursts, i)
                 /\ writer'.refs[i] =
                      [slot |-> WriterCursor, seq |-> regions'[Gen][WriterCursor].seq]
    BY <1>7, RefAppended, PublishedInSlot DEF SlotCopyEnds
  <2>2. DOMAIN writer.refs = 1 .. Len(writer.refs) /\ DOMAIN writer'.refs = 1 .. Len(writer'.refs)
    <3>1. writer'.refs \in Seq(RefType)
      BY <2>1 DEF WriteRecords
    <3>2. QED
      BY <1>1, <3>1
  <2>3. ASSUME NEW i \in 1 .. Len(writer'.refs)
        PROVE  RefHolds(Gen, writer.refs[i], FrameOf(bursts, i))'
    <3>1. CASE i \in 1 .. Len(writer.refs)
      BY <1>3, <2>1, <2>2, <3>1
    <3>2. CASE ~(i \in 1 .. Len(writer.refs))
      BY <1>7, <2>1, <3>2, NewRefHolds
    <3>3. QED
      BY <3>1, <3>2
  <2>4. QED
    BY <2>2, <2>3 DEF WriterRefsHold, AllHold
<1>8. CASE \E t \in Threads, id \in CaptureIds, rec \in RecModes : Writes(t, id, rec)
  <2>1. writer'.refs = <<>>
    BY <1>8 DEF Writes, NotWriting
  <2>2. QED
    BY <2>1 DEF WriterRefsHold, AllHold
<1>9. CASE HubStops \/ BurstPublished
  BY <1>9, NothingWritten DEF HubStops, BurstPublished, WriterRefsHold
<1>10. CASE SessionCloses \/ HubReady \/ UNCHANGED reconHubVars
  <2>1. UNCHANGED <<writer, bursts>>
    BY <1>10 DEF SessionCloses, HubReady, reconHubVars
  <2>2. ~HubStarts \/ HubStarts
    OBVIOUS
  <2>3. QED
    BY <1>4, <1>5, <2>1, <2>2
<1>11. QED
  BY <1>5, <1>6, <1>7, <1>8, <1>9, <1>10 DEF HubMoves

\* A step of ProcessHubRaw leaves what it was called with, and the other requests.
Keeps(h) ==
  /\ handler'[h].refs = handler[h].refs
  /\ handler'[h].number = handler[h].number
  /\ handler'[h].asked = handler[h].asked
  /\ handler'[h].alone = handler[h].alone
  /\ \A g \in Handlers \ {h} : handler'[g] = handler[g]

Ends(h) ==
  /\ handler'[h] = NoRequest
  /\ \A g \in Handlers \ {h} : handler'[g] = handler[g]

LEMMA OneChanges ==
  ASSUME LoopbackTypeOK, NEW h \in Handlers, NEW value, Set(h, value)
  PROVE  handler'[h] = value /\ \A g \in Handlers \ {h} : handler'[g] = handler[g]
BY LoopbackTypes DEF Set

LEMMA ReturnEnds == ASSUME LoopbackTypeOK, NEW h \in Handlers, Returns(h) PROVE Ends(h)
<1>1. Set(h, NoRequest)
  BY DEF Returns
<1>2. QED
  BY <1>1, OneChanges DEF Ends

LEMMA OpensHubRingMoves ==
  ASSUME LoopbackTypeOK, NEW h \in Handlers, OpensHubRing(h)
  PROVE  /\ Is(h, "open") /\ Keeps(h)
         /\ handler'[h].pc = "check" /\ handler'[h].gen = Gen /\ handler'[h].next = 1
<1> DEFINE value == [handler[h] EXCEPT !.pc = "check", !.gen = Gen, !.next = 1]
<1>1. handler[h] \in Request
  BY LoopbackTypes
<1>2. Is(h, "open") /\ Set(h, value)
  BY DEF OpensHubRing
<1>3. /\ value.refs = handler[h].refs /\ value.number = handler[h].number
      /\ value.asked = handler[h].asked /\ value.alone = handler[h].alone
      /\ value.pc = "check" /\ value.gen = Gen /\ value.next = 1
  BY <1>1 DEF Request
<1> HIDE DEF value
<1>4. QED
  BY <1>2, <1>3, OneChanges DEF Keeps

LEMMA ChecksSlotMoves ==
  ASSUME LoopbackTypeOK, NEW h \in Handlers, ChecksSlot(h)
  PROVE  /\ Is(h, "check")
         /\ \/ Ends(h)
            \/ /\ Keeps(h)
               /\ Passes(HubSlot(h, CheckedRef(h)), CheckedRef(h))
               /\ handler'[h].sure <=>
                    handler[h].gen = handler[h].asked /\ HubSlot(h, CheckedRef(h)).data # Torn
               /\ handler'[h].pc =
                    IF handler[h].next <= Len(handler[h].refs) THEN "save" ELSE "open_echo"
               /\ handler'[h].gen = handler[h].gen /\ handler'[h].next = handler[h].next
<1>1. handler[h] \in Request /\ Is(h, "check")
  BY LoopbackTypes DEF ChecksSlot
<1>2. CASE Returns(h)
  BY <1>1, <1>2, ReturnEnds
<1>3. CASE ~Returns(h)
  <2> DEFINE sure == handler[h].gen = handler[h].asked /\ HubSlot(h, CheckedRef(h)).data # Torn
             pc == IF handler[h].next <= Len(handler[h].refs) THEN "save" ELSE "open_echo"
             value == [handler[h] EXCEPT !.sure = sure, !.pc = pc]
  <2>1. Passes(HubSlot(h, CheckedRef(h)), CheckedRef(h)) /\ Set(h, value)
    BY <1>3 DEF ChecksSlot
  <2>2. /\ value.refs = handler[h].refs /\ value.number = handler[h].number
        /\ value.asked = handler[h].asked /\ value.alone = handler[h].alone
        /\ value.pc = pc /\ value.sure = sure
        /\ value.gen = handler[h].gen /\ value.next = handler[h].next
    <3> HIDE DEF sure, pc
    <3>1. QED
      BY <1>1 DEF Request
  <2> HIDE DEF value
  <2>3. handler'[h] = value /\ Keeps(h)
    BY <2>1, <2>2, OneChanges DEF Keeps
  <2>4. QED
    BY <1>1, <2>1, <2>2, <2>3
<1>4. QED
  BY <1>2, <1>3

LEMMA SavesSlotMoves ==
  ASSUME LoopbackTypeOK, NEW h \in Handlers, SavesSlot(h)
  PROVE  /\ Is(h, "save")
         /\ \/ Ends(h)
            \/ /\ Keeps(h)
               /\ handler'[h].pc = "check" /\ handler'[h].next = handler[h].next + 1
               /\ handler'[h].gen = handler[h].gen
<1>1. handler[h] \in Request /\ Is(h, "save")
  BY LoopbackTypes DEF SavesSlot
<1>2. CASE Returns(h)
  BY <1>1, <1>2, ReturnEnds
<1>3. CASE ~Returns(h)
  <2> DEFINE value == [handler[h] EXCEPT !.pc = "check", !.next = @ + 1, !.sure = FALSE]
  <2>1. Set(h, value)
    BY <1>3 DEF SavesSlot
  <2>2. /\ value.refs = handler[h].refs /\ value.number = handler[h].number
        /\ value.asked = handler[h].asked /\ value.alone = handler[h].alone
        /\ value.pc = "check" /\ value.next = handler[h].next + 1
        /\ value.gen = handler[h].gen
    BY <1>1 DEF Request
  <2> HIDE DEF value
  <2>3. QED
    BY <1>1, <2>1, <2>2, OneChanges DEF Keeps
<1>4. QED
  BY <1>2, <1>3

LEMMA OpensEchoMoves ==
  ASSUME LoopbackTypeOK, NEW h \in Handlers, OpensEcho(h)
  PROVE  /\ Is(h, "open_echo") /\ Keeps(h) /\ handler'[h].gen = handler[h].gen
         /\ \/ handler'[h].pc = "create_echo"
            \/ handler'[h].pc = "write_echo" /\ handler'[h].echo = EchoGen
<1>1. handler[h] \in Request /\ Is(h, "open_echo")
  BY LoopbackTypes DEF OpensEcho
<1> DEFINE created == [handler[h] EXCEPT !.pc = "create_echo", !.sure = FALSE]
           written == [handler[h] EXCEPT !.pc = "write_echo", !.echo = EchoGen, !.sure = FALSE]
<1>2. /\ created.refs = handler[h].refs /\ created.number = handler[h].number
      /\ created.asked = handler[h].asked /\ created.alone = handler[h].alone
      /\ created.pc = "create_echo" /\ created.gen = handler[h].gen
  BY <1>1 DEF Request
<1>3. /\ written.refs = handler[h].refs /\ written.number = handler[h].number
      /\ written.asked = handler[h].asked /\ written.alone = handler[h].alone
      /\ written.pc = "write_echo" /\ written.gen = handler[h].gen /\ written.echo = EchoGen
  BY <1>1 DEF Request
<1>4. Set(h, created) \/ Set(h, written)
  BY DEF OpensEcho
<1> HIDE DEF created, written
<1>5. CASE Set(h, created)
  BY <1>1, <1>2, <1>5, OneChanges DEF Keeps
<1>6. CASE Set(h, written)
  BY <1>1, <1>3, <1>6, OneChanges DEF Keeps
<1>7. QED
  BY <1>4, <1>5, <1>6

LEMMA CreatesEchoMoves ==
  ASSUME LoopbackTypeOK, NEW h \in Handlers, CreatesEcho(h)
  PROVE  /\ Is(h, "create_echo") /\ Keeps(h) /\ handler'[h].gen = handler[h].gen
         /\ handler'[h].pc = "write_echo" /\ handler'[h].echo = EchoGen'
<1>1. handler[h] \in Request /\ Is(h, "create_echo") /\ EchoGen' = EchoGen + 1
  <2>1. echo_regions \in Seq([Slots -> Slot]) /\ echo_regions' = Append(echo_regions, CreatedRing)
    BY LoopbackTypes DEF CreatesEcho
  <2>2. Len(Append(echo_regions, CreatedRing)) = Len(echo_regions) + 1
    BY <2>1, NewRegion
  <2>3. QED
    BY <2>1, <2>2, LoopbackTypes DEF CreatesEcho, EchoGen
<1> DEFINE value == [handler[h] EXCEPT !.pc = "write_echo", !.echo = EchoGen + 1]
<1>2. /\ value.refs = handler[h].refs /\ value.number = handler[h].number
      /\ value.asked = handler[h].asked /\ value.alone = handler[h].alone
      /\ value.pc = "write_echo" /\ value.echo = EchoGen + 1 /\ value.gen = handler[h].gen
  BY <1>1 DEF Request
<1>3. Set(h, value)
  BY DEF CreatesEcho
<1> HIDE DEF value
<1>4. QED
  BY <1>1, <1>2, <1>3, OneChanges DEF Keeps

LEMMA CopiesEchoMoves ==
  ASSUME LoopbackTypeOK, NEW h \in Handlers, CopiesEcho(h)
  PROVE  /\ Is(h, "write_echo") /\ Keeps(h) /\ handler'[h].gen = handler[h].gen
         /\ handler'[h].pc = "publish_echo" /\ handler'[h].echo = handler[h].echo
<1>1. handler[h] \in Request /\ Is(h, "write_echo")
  BY LoopbackTypes DEF CopiesEcho
<1> DEFINE seq == echo_regions[handler[h].echo][echo_cursor[h]].seq + 1
           value == [handler[h] EXCEPT !.pc = "publish_echo", !.seq = seq]
<1>2. Set(h, value)
  BY DEF CopiesEcho
<1> HIDE DEF seq
<1>3. /\ value.refs = handler[h].refs /\ value.number = handler[h].number
      /\ value.asked = handler[h].asked /\ value.alone = handler[h].alone
      /\ value.pc = "publish_echo" /\ value.echo = handler[h].echo /\ value.gen = handler[h].gen
  BY <1>1 DEF Request
<1> HIDE DEF value
<1>4. QED
  BY <1>1, <1>2, <1>3, OneChanges DEF Keeps

LEMMA PublishesEchoMoves ==
  ASSUME LoopbackTypeOK, NEW h \in Handlers, PublishesEcho(h)
  PROVE  /\ Is(h, "publish_echo") /\ Keeps(h) /\ handler'[h].gen = handler[h].gen
         /\ handler'[h].pc = "call_hub" /\ handler'[h].echo = handler[h].echo
<1>1. handler[h] \in Request /\ Is(h, "publish_echo") /\ handler \in [Handlers -> Request]
  BY LoopbackTypes DEF PublishesEcho
<1> DEFINE value == [handler[h] EXCEPT !.pc = "call_hub"]
<1>2. Set(h, value)
  BY <1>1 DEF PublishesEcho, Move, Set
<1>3. /\ value.refs = handler[h].refs /\ value.number = handler[h].number
      /\ value.asked = handler[h].asked /\ value.alone = handler[h].alone
      /\ value.pc = "call_hub" /\ value.echo = handler[h].echo /\ value.gen = handler[h].gen
  BY <1>1 DEF Request
<1> HIDE DEF value
<1>4. QED
  BY <1>1, <1>2, <1>3, OneChanges DEF Keeps

\* A step of ProcessHubRaw ends it or leaves what it was called with.
LEMMA HandlerFields ==
  ASSUME LoopbackTypeOK, NEW h \in Handlers, HandlerStep(h)
  PROVE  /\ ~Is(h, "idle")
         /\ \/ Ends(h)
            \/ Keeps(h) /\ handler'[h].pc # "idle"
<1>1. CASE OpensHubRing(h)
  BY <1>1, OpensHubRingMoves DEF Is
<1>2. CASE ChecksSlot(h)
  BY <1>2, ChecksSlotMoves DEF Is
<1>3. CASE SavesSlot(h)
  BY <1>3, SavesSlotMoves DEF Is
<1>4. CASE OpensEcho(h)
  BY <1>4, OpensEchoMoves DEF Is
<1>5. CASE CreatesEcho(h)
  BY <1>5, CreatesEchoMoves DEF Is
<1>6. CASE CopiesEcho(h)
  BY <1>6, CopiesEchoMoves DEF Is
<1>7. CASE PublishesEcho(h)
  BY <1>7, PublishesEchoMoves DEF Is
<1>8. CASE HubSavesEcho(h)
  BY <1>8, ReturnEnds DEF HubSavesEcho, Is
<1>9. CASE HandlerFails(h) \/ EchoTooSmall(h)
  BY <1>9, ReturnEnds DEF HandlerFails, EchoTooSmall, Is
<1>10. QED
  BY <1>1, <1>2, <1>3, <1>4, <1>5, <1>6, <1>7, <1>8, <1>9 DEF HandlerStep

\* The call of t reaches recon_service: what it asks for is t's, or made up from data that was
\* taken for slots.
NobodyElse == ~writer.copying /\ \A i \in Handlers : Is(i, "idle")

Asked(t, refs, asked) ==
  [NoRequest EXCEPT !.pc = "open", !.number = caller[t].number, !.refs = refs, !.asked = asked,
                    !.alone = asked # 0 /\ NobodyElse]

LEMMA AskedFields ==
  ASSUME NEW t, NEW refs, NEW asked
  PROVE  /\ Asked(t, refs, asked).pc = "open"
         /\ Asked(t, refs, asked).number = caller[t].number
         /\ Asked(t, refs, asked).refs = refs
         /\ Asked(t, refs, asked).asked = asked
         /\ ~Asked(t, refs, asked).sure
         /\ Asked(t, refs, asked).alone => asked # 0 /\ NobodyElse
<1> DEFINE alone == asked # 0 /\ NobodyElse
<1>1. alone <=> asked # 0 /\ NobodyElse
  OBVIOUS
<1>2. Asked(t, refs, asked) =
         [NoRequest EXCEPT !.pc = "open", !.number = caller[t].number, !.refs = refs,
                           !.asked = asked, !.alone = alone]
  BY DEF Asked
<1> HIDE DEF alone
<1>3. QED
  BY <1>1, <1>2 DEF NoRequest

LEMMA CallFields ==
  ASSUME LoopbackTypeOK, NEW t \in Threads, NEW refs, NEW asked, Calls(t, refs, asked)
  PROVE  \E h \in Handlers :
           /\ Is(h, "idle")
           /\ handler'[h] = Asked(t, refs, asked)
           /\ \A g \in Handlers \ {h} : handler'[g] = [handler[g] EXCEPT !.alone = FALSE]
<1>1. PICK h \in FreeHandlers :
         handler' = [g \in Handlers |->
            IF g = h THEN Asked(t, refs, asked) ELSE [handler[g] EXCEPT !.alone = FALSE]]
  BY DEF Calls, Asked, NobodyElse
<1>2. h \in Handlers /\ Is(h, "idle")
  BY FreeHandler
<1>3. QED
  BY <1>1, <1>2

LEMMA CallerCalls ==
  ASSUME LoopbackTypeOK, NEW t \in Threads, NEW refs, NEW asked, Calls(t, refs, asked)
  PROVE  \A u \in Threads : caller'[u].pc = "build" => caller'[u] = caller[u]
<1>1. caller \in [Threads -> Call]
  BY LoopbackTypes
<1> DEFINE call == [NoCall EXCEPT !.pc = "call", !.number = caller[t].number]
<1>2. caller' = [caller EXCEPT ![t] = call] /\ call.pc = "call"
  BY DEF Calls, NoCall
<1> HIDE DEF call
<1>3. QED
  BY <1>1, <1>2

\* Where the references kept by the hub's threads come from.
LEMMA CallerOrigin ==
  ASSUME HubTypeOK, HubInv, LoopbackTypeOK, LoopbackInv, [Next]_vars,
         NEW t \in Threads, caller'[t].pc = "build"
  PROVE  \/ /\ caller[t].pc = "build"
            /\ caller'[t].refs = caller[t].refs /\ caller'[t].number = caller[t].number
         \/ /\ BurstPublished
            /\ caller'[t].refs = writer.refs /\ caller'[t].number = bursts
<1>1. caller \in [Threads -> Call] /\ handler \in [Handlers -> Request]
  BY LoopbackTypes
<1>2. CASE UNCHANGED loopbackVars
  BY <1>2 DEF loopbackVars
<1>3. CASE HubProcessStops
  BY <1>3 DEF HubProcessStops, NoCalls, NoCall
<1>4. CASE LoopbackMoves
  <2>1. CASE LoopbackBegins
    <3> DEFINE u == writer.thread
               kept == Dropping(WithId(writer.id))
               call == [NoCall EXCEPT !.pc = "build", !.id = writer.id, !.number = bursts,
                                      !.refs = writer.refs]
    <3>1. BurstPublished /\ caller' = [kept EXCEPT ![u] = call]
      BY <2>1 DEF LoopbackBegins
    <3>2. call.refs = writer.refs /\ call.number = bursts
      BY DEF NoCall
    <3>3. /\ kept \in [Threads -> Call]
          /\ kept[t].pc = caller[t].pc /\ kept[t].refs = caller[t].refs
          /\ kept[t].number = caller[t].number
      BY DroppingTyped
    <3> HIDE DEF kept, call, u
    <3>4. caller'[t] = IF t = u THEN call ELSE kept[t]
      BY <3>1, <3>3
    <3>5. QED
      BY <3>1, <3>2, <3>3, <3>4
  <2>2. CASE SessionClosesUnder
    BY <2>2, DroppingTyped DEF SessionClosesUnder
  <2>3. CASE CopyBeginsBeside
    BY <2>3 DEF CopyBeginsBeside
  <2>4. ASSUME NEW u \in Threads, BuildsSlots(u) PROVE caller'[t] = caller[t]
    <3>1. PICK refs, asked : Calls(u, refs, asked)
      BY <2>4 DEF BuildsSlots
    <3>2. QED
      BY <3>1, CallerCalls
  <2>5. ASSUME NEW u \in Threads, CallGivesUp(u) PROVE caller'[t] = caller[t]
    BY <1>1, <2>5 DEF CallGivesUp, NoCall
  <2>6. ASSUME NEW h \in Handlers, HandlerStep(h) PROVE caller'[t] = caller[t]
    <3>1. CASE Returns(h)
      BY <3>1, Answered, IdleCall
    <3>2. CASE ~Returns(h)
      BY <2>6, <3>2 DEF HandlerStep, HandlerFails, EchoTooSmall, OpensHubRing, ChecksSlot, SavesSlot, OpensEcho, CreatesEcho,
                        CopiesEcho, PublishesEcho, HubSavesEcho
    <3>3. QED
      BY <3>1, <3>2
  <2>7. CASE PublishesOnly
    BY <2>7, DroppingTyped DEF PublishesOnly
  <2>8. QED
    BY <1>4, <2>1, <2>2, <2>3, <2>4, <2>5, <2>6, <2>7 DEF LoopbackMoves
<1>5. QED
  BY <1>2, <1>3, <1>4, LoopbackCases

\* Where the references kept by the requests come from.
LEMMA RequestOrigin ==
  ASSUME HubTypeOK, HubInv, LoopbackTypeOK, LoopbackInv, [Next]_vars,
         NEW h \in Handlers, handler'[h].pc # "idle"
  PROVE  \/ /\ ~Is(h, "idle")
            /\ handler'[h].refs = handler[h].refs /\ handler'[h].number = handler[h].number
            /\ handler'[h].asked = handler[h].asked
         \/ handler'[h].asked = 0
         \/ /\ handler'[h].asked = Gen /\ Gen' = Gen
            /\ \E t \in Threads : /\ caller[t].pc = "build"
                                  /\ handler'[h].refs = caller[t].refs
                                  /\ handler'[h].number = caller[t].number
<1>1. caller \in [Threads -> Call] /\ handler \in [Handlers -> Request]
  BY LoopbackTypes
<1>2. handler'[h] = handler[h] =>
           /\ ~Is(h, "idle")
           /\ handler'[h].refs = handler[h].refs /\ handler'[h].number = handler[h].number
           /\ handler'[h].asked = handler[h].asked
  BY DEF Is
<1>3. ASSUME Disturbed
      PROVE  /\ ~Is(h, "idle")
             /\ handler'[h].refs = handler[h].refs /\ handler'[h].number = handler[h].number
             /\ handler'[h].asked = handler[h].asked
  <2>1. IF Is(h, "idle") THEN handler'[h] = NoRequest
        ELSE handler'[h] = [handler[h] EXCEPT !.alone = FALSE, !.sure = FALSE]
    BY <1>3 DEF Disturbed
  <2>2. handler[h] \in Request
    BY <1>1
  <2>3. QED
    BY <2>1, <2>2, IdleRequest DEF Request
<1>4. CASE UNCHANGED handler
  BY <1>2, <1>4
<1>5. CASE HubProcessStops \/ CopyBeginsBeside
  BY <1>3, <1>5 DEF HubProcessStops, CopyBeginsBeside
<1>6. CASE PublishesOnly \/ LoopbackBegins \/ SessionClosesUnder \/ UNCHANGED loopbackVars
  BY <1>4, <1>6 DEF PublishesOnly, LoopbackBegins, SessionClosesUnder, loopbackVars
<1>7. ASSUME NEW t \in Threads, NEW refs, NEW asked, Calls(t, refs, asked), caller[t].pc = "build"
      PROVE  \/ /\ ~Is(h, "idle")
                /\ handler'[h].refs = handler[h].refs /\ handler'[h].number = handler[h].number
                /\ handler'[h].asked = handler[h].asked
             \/ /\ handler'[h].refs = refs /\ handler'[h].asked = asked
                /\ handler'[h].number = caller[t].number
  <2>1. PICK g \in Handlers :
           /\ handler'[g] = Asked(t, refs, asked)
           /\ \A i \in Handlers \ {g} : handler'[i] = [handler[i] EXCEPT !.alone = FALSE]
    BY <1>7, CallFields
  <2>2. CASE h = g
    BY <2>1, <2>2, AskedFields
  <2>3. CASE h # g
    <3>1. handler'[h] = [handler[h] EXCEPT !.alone = FALSE] /\ handler[h] \in Request
      BY <1>1, <2>1, <2>3
    <3>2. QED
      BY <3>1 DEF Request, Is
  <2>4. QED
    BY <2>2, <2>3
<1>8. ASSUME NEW t \in Threads, BuildsSlots(t)
      PROVE  \/ /\ ~Is(h, "idle")
                /\ handler'[h].refs = handler[h].refs /\ handler'[h].number = handler[h].number
                /\ handler'[h].asked = handler[h].asked
             \/ handler'[h].asked = 0
             \/ /\ handler'[h].asked = Gen /\ Gen' = Gen
                /\ caller[t].pc = "build"
                /\ handler'[h].refs = caller[t].refs
                /\ handler'[h].number = caller[t].number
  <2>1. caller[t].pc = "build" /\ Gen' = Gen
    BY <1>8 DEF BuildsSlots, reconHubVars, Gen
  <2>2. PICK refs, asked :
           Calls(t, refs, asked) /\ (asked = 0 \/ (asked = Gen /\ refs = caller[t].refs))
    BY <1>8 DEF BuildsSlots
  <2>3. QED
    BY <1>7, <2>1, <2>2
<1>9. CASE \E t \in Threads : CallGivesUp(t)
  BY <1>4, <1>9 DEF CallGivesUp
<1>10. ASSUME NEW g \in Handlers, HandlerStep(g)
       PROVE  /\ ~Is(h, "idle")
              /\ handler'[h].refs = handler[h].refs /\ handler'[h].number = handler[h].number
              /\ handler'[h].asked = handler[h].asked
  BY <1>2, <1>10, HandlerFields, IdleRequest DEF Ends, Keeps
<1>11. CASE LoopbackMoves
  BY <1>5, <1>6, <1>8, <1>9, <1>10, <1>11 DEF LoopbackMoves
<1>12. QED
  BY <1>5, <1>6, <1>11, LoopbackCases

LEMMA SeqInductive ==
  ASSUME ReconInv, TornInv, SeqInv, [Next]_vars
  PROVE  TornInv' /\ SeqInv'
<1>1. /\ setup \in Setups /\ HubTypeOK /\ HubInv /\ LoopbackTypeOK /\ LoopbackInv /\ HubMoves
      /\ caller \in [Threads -> Call] /\ handler \in [Handlers -> Request]
      /\ Gen \in Nat
  BY HubCases, LoopbackTypes, CursorTyped DEF ReconInv, TypeOK
<1>2. TornInv' /\ WriterRefsHold'
  BY <1>1, TornInductive, WriterRefsInductive DEF SeqInv
\* References that hold before the step hold after it.
<1>3. ASSUME NEW g, g \in 1 .. Gen, NEW refs \in Seq(RefType), NEW number, AllHold(g, refs, number)
      PROVE  AllHold(g, refs, number)'
  BY <1>1, <1>3, AllStay
<1>4. ASSUME NEW t \in Threads, caller[t].pc = "build", Gen' = Gen
      PROVE  AllHold(Gen, caller[t].refs, caller[t].number)
             /\ Gen \in 1 .. Gen /\ caller[t].refs \in Seq(RefType)
  BY <1>1, <1>4 DEF SeqInv, LoopbackInv, HubInv, Call
<1>5. ASSUME NEW t \in Threads, caller'[t].pc = "build"
      PROVE  AllHold(Gen, caller[t].refs, caller[t].number)'
  <2>1. hub' # "down"
    BY <1>1, <1>5, LoopbackInductive DEF LoopbackInv
  <2>2. CASE /\ caller[t].pc = "build"
             /\ caller'[t].refs = caller[t].refs /\ caller'[t].number = caller[t].number
    <3>1. hub # "down"
      BY <1>1, <2>2 DEF LoopbackInv
    <3>2. Gen' = Gen
      BY <1>1, <2>1, <3>1, HubEffects, TornSlot, PublishedInSlot DEF HubStarts
    <3>3. PICK g, refs, number : g = Gen /\ refs = caller[t].refs /\ number = caller[t].number
      OBVIOUS
    <3>4. AllHold(g, refs, number) /\ g \in 1 .. Gen /\ refs \in Seq(RefType)
      BY <1>4, <2>2, <3>2, <3>3
    <3>5. AllHold(g, refs, number)'
      BY <1>3, <3>4
    <3>6. g = Gen' /\ refs = caller'[t].refs /\ number = caller'[t].number
      BY <2>2, <3>2, <3>3
    <3>7. QED
      BY <3>5, <3>6 DEF AllHold, RefHolds
  <2>3. CASE /\ BurstPublished
             /\ caller'[t].refs = writer.refs /\ caller'[t].number = bursts
    <3>1. writer.active /\ hub = "ready" /\ writer.refs \in Seq(RefType)
      BY <1>1, <2>3, RefsPublished
    <3>3. Gen' = Gen /\ Gen \in 1 .. Gen
      BY <1>1, <2>3, <3>1 DEF BurstPublished, Gen, HubInv
    <3>4. AllHold(Gen, writer.refs, bursts)
      BY <3>1 DEF SeqInv, WriterRefsHold
    <3>5. PICK g, refs, number : g = Gen /\ refs = writer.refs /\ number = bursts
      OBVIOUS
    <3>6. AllHold(g, refs, number)'
      BY <1>3, <3>1, <3>3, <3>4, <3>5
    <3>7. g = Gen' /\ refs = caller'[t].refs /\ number = caller'[t].number
      BY <2>3, <3>3, <3>5
    <3>8. QED
      BY <3>6, <3>7 DEF AllHold, RefHolds
  <2>4. QED
    BY <1>1, <1>5, <2>2, <2>3, CallerOrigin
<1>6. ASSUME NEW h \in Handlers, handler'[h].pc # "idle", handler'[h].asked # 0
      PROVE  AllHold(handler[h].asked, handler[h].refs, handler[h].number)'
  <2>1. ASSUME NEW g \in 1 .. Gen, NEW refs \in Seq(RefType), NEW number,
               AllHold(g, refs, number), g = handler'[h].asked, refs = handler'[h].refs,
               number = handler'[h].number
        PROVE  AllHold(handler[h].asked, handler[h].refs, handler[h].number)'
    <3>1. AllHold(g, refs, number)'
      BY <1>3, <2>1
    <3>2. QED
      BY <2>1, <3>1 DEF AllHold, RefHolds
  <2>2. CASE /\ ~Is(h, "idle")
             /\ handler'[h].refs = handler[h].refs /\ handler'[h].number = handler[h].number
             /\ handler'[h].asked = handler[h].asked
    <3>1. handler[h] \in Request
      BY <1>1
    <3>2. /\ handler[h].asked \in 1 .. Gen /\ handler[h].refs \in Seq(RefType)
          /\ AllHold(handler[h].asked, handler[h].refs, handler[h].number)
      BY <1>1, <1>6, <2>2, <3>1, SMTT(20) DEF SeqInv, LoopbackInv, RequestInv, Request, Is
    <3>3. PICK g, refs, number :
             g = handler[h].asked /\ refs = handler[h].refs /\ number = handler[h].number
      OBVIOUS
    <3>4. QED
      BY <2>1, <2>2, <3>2, <3>3
  <2>3. ASSUME handler'[h].asked = Gen, Gen' = Gen, NEW t \in Threads, caller[t].pc = "build",
               handler'[h].refs = caller[t].refs, handler'[h].number = caller[t].number
        PROVE  AllHold(handler[h].asked, handler[h].refs, handler[h].number)'
    <3>1. /\ AllHold(Gen, caller[t].refs, caller[t].number)
          /\ Gen \in 1 .. Gen /\ caller[t].refs \in Seq(RefType)
      BY <1>4, <2>3
    <3>2. PICK g, refs, number :
             g = Gen /\ refs = caller[t].refs /\ number = caller[t].number
      OBVIOUS
    <3>3. QED
      BY <2>1, <2>3, <3>1, <3>2
  <2>4. QED
    BY <1>1, <1>6, <2>2, <2>3, RequestOrigin
<1>7. SeqInv'
  BY <1>2, <1>5, <1>6 DEF SeqInv, Is
<1>8. QED
  BY <1>2, <1>7

\* What a step does to the rings and the requests while a request is under way.
EchoStays == UNCHANGED <<handler, echo_regions, echo_cursor, echoed>>

LEMMA BesideRequest ==
  ASSUME HubTypeOK, HubInv, LoopbackTypeOK, LoopbackInv, [Next]_vars,
         NEW h \in Handlers, ~Is(h, "idle")
  PROVE  \/ Disturbed /\ UNCHANGED <<echo_regions, echo_cursor, echoed>>
         \/ EchoStays /\ SlotCopyEnds
         \/ /\ EchoStays /\ SlotsKept
            /\ writer'.copying => writer.copying
            /\ hub # "down" => hub' # "down" /\ Gen' = Gen
         \/ /\ UNCHANGED reconHubVars
            /\ \/ \E t \in Threads : BuildsSlots(t)
               \/ \E g \in Handlers : HandlerStep(g)
<1>2. regions' = regions => SlotsKept /\ Gen' = Gen
  BY DEF SlotsKept, Gen
<1>3. UNCHANGED loopbackVars => EchoStays
  BY DEF loopbackVars, EchoStays
<1>4. UNCHANGED reconHubVars =>
           SlotsKept /\ Gen' = Gen /\ UNCHANGED <<hub, writer>>
  BY <1>2 DEF reconHubVars
<1>5. CASE UNCHANGED vars
  BY <1>3, <1>4, <1>5 DEF vars
<1>6. CASE HubStep
  <2>1. CASE HubStarts /\ UNCHANGED loopbackVars
    <3>1. SlotsKept
      BY <2>1, NewRegion, CursorTyped DEF HubStarts, SlotsKept, Gen
    <3>2. QED
      BY <1>3, <2>1, <3>1 DEF HubStarts
  <2>2. CASE SessionReopens /\ UNCHANGED loopbackVars
    BY <1>2, <1>3, <2>2 DEF SessionReopens
  <2>3. CASE Captures /\ UNCHANGED loopbackVars
    <3>1. PICK thread, id, rec : Writes(thread, id, rec)
      BY <2>3 DEF Captures, BurstBegins, InlineBegins
    <3>2. regions' = regions /\ hub' = hub /\ ~writer'.copying
      BY <3>1 DEF Writes, NotWriting
    <3>3. QED
      BY <1>2, <1>3, <2>3, <3>2
  <2>4. CASE HubProcessStops
    BY <2>4 DEF HubProcessStops
  <2>5. CASE PublishesOnly \/ LoopbackBegins
    BY <1>2, <2>5 DEF PublishesOnly, LoopbackBegins, BurstPublished, NotWriting, EchoStays
  <2>6. CASE SessionClosesUnder
    BY <1>2, <2>6 DEF SessionClosesUnder, SessionCloses, EchoStays
  <2>7. CASE CopyBeginsBeside
    BY <2>7 DEF CopyBeginsBeside
  <2>8. CASE SlotCopyEnds /\ UNCHANGED loopbackVars
    BY <1>3, <2>8
  <2>9. QED
    BY <1>6, <2>1, <2>2, <2>3, <2>4, <2>5, <2>6, <2>7, <2>8 DEF HubStep, BurstWrite
<1>7. CASE \E t \in Threads : CallGivesUp(t)
  BY <1>4, <1>7 DEF CallGivesUp, EchoStays
<1>8. CASE \E t \in Threads : BuildsSlots(t)
  BY <1>8 DEF BuildsSlots
<1>9. CASE \E g \in Handlers : HandlerStep(g)
  BY <1>9, ReaderLeavesHub
<1>10. CASE (WatcherStep \/ WatcherFailure \/ PollerStep) /\ UNCHANGED loopbackVars
  <2>1. HubReady \/ UNCHANGED reconHubVars
    BY <1>10, WatcherLeavesHub
  <2>2. QED
    BY <1>2, <1>3, <1>4, <1>10, <2>1 DEF HubReady
<1>11. QED
  BY <1>5, <1>6, <1>7, <1>8, <1>9, <1>10 DEF Next, LoopbackStep

\* Only a torn slot changes.
LEMMA GoodSlotKept ==
  ASSUME HubTypeOK, HubInv, TornInv, SlotCopyEnds \/ SlotsKept,
         NEW g \in 1 .. Gen, NEW s \in Slots, regions[g][s].data # Torn
  PROVE  regions'[g][s].data = regions[g][s].data
<1>1. CASE SlotsKept
  BY <1>1 DEF SlotsKept
<1>2. CASE SlotCopyEnds
  <2>1. writer.copying
    BY <1>2 DEF SlotCopyEnds
  <2>2. ~(g = Gen /\ s = WriterCursor)
    BY <2>1 DEF TornInv
  <2>3. QED
    BY <1>2, <2>2, PublishedInSlot
<1>3. QED
  BY <1>1, <1>2

\* A new request, or one beside it.
LEMMA RequestsBeside ==
  ASSUME LoopbackTypeOK, NEW h \in Handlers, NEW t \in Threads, BuildsSlots(t)
  PROVE  \/ /\ handler'[h].pc = "open" /\ ~handler'[h].sure
            /\ handler'[h].alone =>
                 /\ handler'[h].asked = Gen /\ NobodyElse
                 /\ \A g \in Handlers \ {h} : handler'[g] = [handler[g] EXCEPT !.alone = FALSE]
         \/ handler'[h] = [handler[h] EXCEPT !.alone = FALSE]
<1>1. PICK refs, asked : Calls(t, refs, asked) /\ (asked = 0 \/ asked = Gen)
  BY DEF BuildsSlots
<1>2. PICK g \in Handlers :
         /\ handler'[g] = Asked(t, refs, asked)
         /\ \A i \in Handlers \ {g} : handler'[i] = [handler[i] EXCEPT !.alone = FALSE]
  BY <1>1, CallFields
<1>3. CASE h = g
  BY <1>1, <1>2, <1>3, AskedFields
<1>4. CASE h # g
  BY <1>2, <1>4
<1>5. QED
  BY <1>3, <1>4

LEMMA Undisturbed ==
  ASSUME LoopbackTypeOK, Disturbed, NEW h \in Handlers, handler'[h].pc # "idle"
  PROVE  ~handler'[h].alone /\ ~handler'[h].sure
<1>1. IF Is(h, "idle") THEN handler'[h] = NoRequest
      ELSE handler'[h] = [handler[h] EXCEPT !.alone = FALSE, !.sure = FALSE]
  BY DEF Disturbed
<1>2. handler[h] \in Request
  BY LoopbackTypes
<1>3. QED
  BY <1>1, <1>2, IdleRequest DEF Request

LEMMA NewRequest ==
  ASSUME LoopbackTypeOK, [Next]_vars, NEW h \in Handlers, Is(h, "idle"), handler'[h].pc # "idle"
  PROVE  \E t \in Threads : BuildsSlots(t)
<1>1. CASE UNCHANGED loopbackVars
  BY <1>1 DEF loopbackVars, Is
<1>2. CASE HubProcessStops \/ CopyBeginsBeside
  BY <1>2, IdleRequest DEF HubProcessStops, CopyBeginsBeside, Disturbed
<1>3. CASE \/ PublishesOnly \/ LoopbackBegins \/ SessionClosesUnder
          \/ \E t \in Threads : CallGivesUp(t)
  BY <1>3 DEF PublishesOnly, LoopbackBegins, SessionClosesUnder, CallGivesUp, Is
<1>4. ASSUME NEW g \in Handlers, HandlerStep(g) PROVE FALSE
  BY <1>4, HandlerFields, IdleRequest DEF Is, Ends, Keeps
<1>5. QED
  BY <1>1, <1>2, <1>3, <1>4, LoopbackCases DEF LoopbackMoves

\* The check of a slot compares what the request knows with what the slot is.
LEMMA CheckIsSure ==
  ASSUME ReconInv, SeqInv, NEW h \in Handlers, ChecksSlot(h), handler[h].gen = handler[h].asked,
         Passes(HubSlot(h, CheckedRef(h)), CheckedRef(h)), HubSlot(h, CheckedRef(h)).data # Torn,
         NEW i, i = IF handler[h].next <= Len(handler[h].refs) THEN handler[h].next ELSE 1
  PROVE  HubSlot(h, CheckedRef(h)).data = FrameOf(handler[h].number, i)
<1>1. Is(h, "check") /\ HubTypeOK /\ LoopbackTypeOK /\ LoopbackInv
  BY DEF ChecksSlot, ReconInv, TypeOK
<1>2. handler[h] \in Request /\ RequestInv(handler[h], Gen, EchoGen) /\ Gen \in Nat
  BY <1>1, LoopbackTypes, CursorTyped DEF LoopbackInv
<1>3. /\ handler[h].asked # 0 /\ ~Is(h, "idle")
      /\ handler[h].refs \in Seq(RefType) /\ handler[h].refs # <<>>
      /\ handler[h].next \in Nat /\ handler[h].next >= 1
  BY <1>1, <1>2 DEF RequestInv, Request, Is
<1>4. AllHold(handler[h].asked, handler[h].refs, handler[h].number)
  BY <1>3 DEF SeqInv
<1>5. i \in DOMAIN handler[h].refs /\ CheckedRef(h) = handler[h].refs[i]
  <2> DEFINE n == Len(handler[h].refs)
  <2>1. n \in Nat \ {0} /\ DOMAIN handler[h].refs = 1 .. n
    BY <1>3, EmptySeq
  <2>2. CheckedRef(h) = handler[h].refs[i]
    BY DEF CheckedRef
  <2> HIDE DEF n
  <2>3. i = IF handler[h].next <= n THEN handler[h].next ELSE 1
    BY DEF n
  <2>4. QED
    BY <1>3, <2>1, <2>2, <2>3
<1>6. RefHolds(handler[h].asked, CheckedRef(h), FrameOf(handler[h].number, i))
  BY <1>4, <1>5 DEF AllHold
<1>7. QED
  BY <1>6 DEF RefHolds, HubSlot, Passes

LEMMA SureInductive ==
  ASSUME ReconInv, TornInv, SeqInv, SureInv, [Next]_vars
  PROVE  SureInv'
<1>1. /\ HubTypeOK /\ HubInv /\ LoopbackTypeOK /\ LoopbackInv
      /\ caller \in [Threads -> Call] /\ handler \in [Handlers -> Request]
      /\ Gen \in Nat
  BY LoopbackTypes, CursorTyped DEF ReconInv, TypeOK
<1> SUFFICES ASSUME NEW h \in Handlers, handler'[h].pc = "save", handler'[h].sure
             PROVE  (/\ HubSlot(h, CheckedRef(h)).data = FrameOf(handler[h].number, handler[h].next)
                     /\ HubSlot(h, CheckedRef(h)).data # Torn)'
    BY DEF SureInv, Is
\* What was sure stays so.
<1>2. ASSUME handler[h].pc = "save", handler[h].sure, SlotCopyEnds \/ SlotsKept,
             handler'[h].gen = handler[h].gen, handler'[h].next = handler[h].next,
             handler'[h].refs = handler[h].refs, handler'[h].number = handler[h].number
      PROVE  (/\ HubSlot(h, CheckedRef(h)).data = FrameOf(handler[h].number, handler[h].next)
              /\ HubSlot(h, CheckedRef(h)).data # Torn)'
  <2> DEFINE ref == CheckedRef(h)
             g == handler[h].gen
  <2>1. g \in 1 .. Gen /\ ref \in RefType
    BY <1>1, <1>2, HubSlotTyped DEF Is
  <2>2. /\ regions[g][ref.slot].data = FrameOf(handler[h].number, handler[h].next)
        /\ regions[g][ref.slot].data # Torn
    BY <1>2 DEF SureInv, HubSlot, Is
  <2>3. CheckedRef(h)' = ref
    BY <1>2 DEF CheckedRef
  <2> HIDE DEF ref
  <2>4. regions'[g][ref.slot].data = regions[g][ref.slot].data
    BY <1>1, <1>2, <2>1, <2>2, GoodSlotKept DEF RefType
  <2>5. HubSlot(h, CheckedRef(h))' = regions'[g][ref.slot]
    BY <1>2, <2>3 DEF HubSlot
  <2>6. QED
    BY <1>2, <2>2, <2>4, <2>5
<1>3. UNCHANGED reconHubVars => SlotsKept
  BY DEF reconHubVars, SlotsKept
<1>4. ~Is(h, "idle")
  <2>1. CASE Is(h, "idle")
    <3>1. PICK t \in Threads : BuildsSlots(t)
      BY <1>1, <2>1, NewRequest
    <3>2. QED
      BY <1>1, <2>1, <3>1, RequestsBeside DEF Is, Request
  <2>2. QED
    BY <2>1
<1>5. CASE Disturbed
  BY <1>1, <1>5, Undisturbed
<1>6. CASE EchoStays /\ (SlotCopyEnds \/ SlotsKept)
  BY <1>2, <1>6 DEF EchoStays
<1>7. ASSUME UNCHANGED reconHubVars, NEW t \in Threads, BuildsSlots(t)
      PROVE  (/\ HubSlot(h, CheckedRef(h)).data = FrameOf(handler[h].number, handler[h].next)
              /\ HubSlot(h, CheckedRef(h)).data # Torn)'
  <2>1. handler'[h] = [handler[h] EXCEPT !.alone = FALSE] /\ handler[h] \in Request
    BY <1>1, <1>7, RequestsBeside
  <2>2. /\ handler[h].pc = "save" /\ handler[h].sure
        /\ handler'[h].gen = handler[h].gen /\ handler'[h].next = handler[h].next
        /\ handler'[h].refs = handler[h].refs /\ handler'[h].number = handler[h].number
    BY <2>1 DEF Request
  <2>3. QED
    BY <1>2, <1>3, <1>7, <2>2
<1>8. ASSUME UNCHANGED reconHubVars, NEW g \in Handlers, HandlerStep(g)
      PROVE  (/\ HubSlot(h, CheckedRef(h)).data = FrameOf(handler[h].number, handler[h].next)
              /\ HubSlot(h, CheckedRef(h)).data # Torn)'
  <2>1. CASE g # h
    <3>1. handler'[h] = handler[h]
      BY <1>1, <1>8, <2>1, HandlerFields DEF Ends, Keeps
    <3>2. QED
      BY <1>2, <1>3, <1>8, <3>1
  <2>2. CASE ChecksSlot(h)
    <3>1. /\ Keeps(h)
          /\ Passes(HubSlot(h, CheckedRef(h)), CheckedRef(h))
          /\ handler[h].gen = handler[h].asked /\ HubSlot(h, CheckedRef(h)).data # Torn
          /\ handler[h].next <= Len(handler[h].refs)
          /\ handler'[h].gen = handler[h].gen /\ handler'[h].next = handler[h].next
      BY <1>1, <2>2, ChecksSlotMoves, IdleRequest DEF Ends
    <3>2. HubSlot(h, CheckedRef(h)).data = FrameOf(handler[h].number, handler[h].next)
      BY <2>2, <3>1, CheckIsSure
    <3>3. HubSlot(h, CheckedRef(h))' = HubSlot(h, CheckedRef(h))
      BY <1>8, <3>1 DEF HubSlot, CheckedRef, Keeps, reconHubVars
    <3>4. QED
      BY <3>1, <3>2, <3>3 DEF Keeps
  <2>3. CASE g = h /\ ~ChecksSlot(h)
    <3>1. CASE OpensHubRing(h)
      BY <1>1, <3>1, OpensHubRingMoves
    <3>2. CASE SavesSlot(h)
      BY <1>1, <3>2, SavesSlotMoves, IdleRequest DEF Ends
    <3>3. CASE OpensEcho(h)
      BY <1>1, <3>3, OpensEchoMoves
    <3>4. CASE CreatesEcho(h)
      BY <1>1, <3>4, CreatesEchoMoves
    <3>5. CASE CopiesEcho(h)
      BY <1>1, <3>5, CopiesEchoMoves
    <3>6. CASE PublishesEcho(h)
      BY <1>1, <3>6, PublishesEchoMoves
    <3>7. CASE HubSavesEcho(h)
      BY <1>1, <3>7, ReturnEnds, IdleRequest DEF HubSavesEcho, Ends
    <3>8. CASE HandlerFails(h) \/ EchoTooSmall(h)
      BY <1>1, <3>8, ReturnEnds, IdleRequest DEF HandlerFails, EchoTooSmall, Ends
    <3>9. QED
      BY <1>8, <2>3, <3>1, <3>2, <3>3, <3>4, <3>5, <3>6, <3>7, <3>8 DEF HandlerStep
  <2>4. QED
    BY <2>1, <2>2, <2>3
<1>9. QED
  BY <1>1, <1>4, <1>5, <1>6, <1>7, <1>8, BesideRequest

LEMMA SeqInitially == Init => TornInv /\ SeqInv /\ SureInv
<1> SUFFICES ASSUME Init PROVE TornInv /\ SeqInv /\ SureInv
    OBVIOUS
<1>1. \A h \in Handlers : handler[h].pc = "idle"
  BY DEF Init, LoopbackInit, NoRequest
<1>2. \A t \in Threads : caller[t].pc = "idle"
  BY DEF Init, LoopbackInit, NoCalls, NoCall
<1>3. ~writer.active /\ ~writer.copying
  BY DEF Init, HubInit, NotWriting
<1>4. QED
  BY <1>1, <1>2, <1>3 DEF TornInv, SeqInv, WriterRefsHold, SureInv, Is

LEMMA CheckedAlways == Spec => [](ReconInv /\ TornInv /\ SeqInv /\ SureInv)
<1>1. Init => ReconInv /\ TornInv /\ SeqInv /\ SureInv
  BY ReconInitial, SeqInitially
<1>2. ReconInv /\ TornInv /\ SeqInv /\ SureInv /\ [Next]_vars
        => (ReconInv /\ TornInv /\ SeqInv /\ SureInv)'
  BY ReconInductive, SeqInductive, SureInductive
<1>3. QED
  BY <1>1, <1>2, PTL DEF Spec

\* What the seq check of ProcessHubRaw is worth (recon_shm_loopback_grpc.cpp): between the check
\* and the end of the write to a file, the slot holds the frame the hub published under that seq,
\* unless the slot was torn at the check, the ring was not the one asked for, or the hub has
\* begun another slot or stopped since.  Whatever other requests, captures and restarts do.
THEOREM SeqCheckIsSound == Spec => []CheckedFrameIsRight
<1>1. SureInv => CheckedFrameIsRight
  BY DEF SureInv, CheckedFrameIsRight
<1>2. QED
  BY <1>1, CheckedAlways, PTL

-----------------------------------------------------------------------------
\* A request beside which nothing happens.

\* The echo is copied into the slot under the thread's cursor, and nowhere else.
LEMMA EchoCopied ==
  ASSUME HubTypeOK, LoopbackTypeOK, LoopbackInv, NEW h \in Handlers,
         CopiesEcho(h) \/ PublishesEcho(h)
  PROVE  /\ EchoGen' = EchoGen /\ echo_cursor' = echo_cursor
         /\ echo_regions'[handler[h].echo][echo_cursor[h]].data =
              IF CopiesEcho(h) THEN HubSlot(h, EchoedRef(h)).data
              ELSE echo_regions[handler[h].echo][echo_cursor[h]].data
<1> DEFINE e == handler[h].echo
           c == echo_cursor[h]
           data == HubSlot(h, EchoedRef(h)).data
           old == echo_regions[e][c]
           copied == [old EXCEPT !.data = data]
           published == [old EXCEPT !.seq = handler[h].seq]
<1>1. /\ echo_regions \in Seq([Slots -> Slot]) /\ EchoGen \in Nat
      /\ echo_cursor \in [Handlers -> Slots] /\ handler[h] \in Request
      /\ RequestInv(handler[h], Gen, EchoGen)
  BY LoopbackTypes DEF LoopbackInv
<1>2. /\ Is(h, "write_echo") \/ Is(h, "publish_echo")
      /\ echo_cursor' = echo_cursor
  BY DEF CopiesEcho, PublishesEcho
<1>3. e \in 1 .. EchoGen /\ c \in Slots
  BY <1>1, <1>2 DEF RequestInv, Is
<1>4. echo_regions[e] \in [Slots -> Slot] /\ old \in Slot
  BY <1>1, <1>3, ElementOfSeq DEF EchoGen
<1>5. data \in SlotData /\ handler[h].seq \in Nat
  BY <1>1, <1>2, HubSlotTyped DEF Is, Slot, Request
<1>6. copied \in Slot /\ published \in Slot /\ copied.data = data /\ published.data = old.data
  BY <1>4, <1>5 DEF Slot
<1>7. CASE CopiesEcho(h)
  <2>1. echo_regions' = [echo_regions EXCEPT ![e] = [echo_regions[e] EXCEPT ![c] = copied]]
    BY <1>7 DEF CopiesEcho
  <2> HIDE DEF copied, published, data, old, e, c
  <2>2. Len(echo_regions') = Len(echo_regions) /\ echo_regions'[e][c] = copied
    BY <1>1, <1>3, <1>6, <2>1, SlotWritten DEF EchoGen
  <2>3. QED
    BY <1>2, <1>6, <1>7, <2>2 DEF EchoGen, e, c, data
<1>8. CASE ~CopiesEcho(h)
  <2>1. echo_regions' = [echo_regions EXCEPT ![e] = [echo_regions[e] EXCEPT ![c] = published]]
    BY <1>8 DEF PublishesEcho
  <2> HIDE DEF copied, published, data, old, e, c
  <2>2. Len(echo_regions') = Len(echo_regions) /\ echo_regions'[e][c] = published
    BY <1>1, <1>3, <1>6, <2>1, SlotWritten DEF EchoGen
  <2>3. QED
    BY <1>2, <1>6, <1>8, <2>2 DEF EchoGen, e, c, old
<1>9. QED
  BY <1>7, <1>8

\* The slot of the first frame, in a step that leaves the request's references and the rings.
LEMMA EchoedSlotKept ==
  ASSUME HubTypeOK, LoopbackTypeOK, LoopbackInv, NEW h \in Handlers, ~Is(h, "idle"), ~Is(h, "open"),
         SlotsKept, handler'[h].gen = handler[h].gen, handler'[h].refs = handler[h].refs
  PROVE  HubSlot(h, EchoedRef(h)).data' = HubSlot(h, EchoedRef(h)).data
<1> DEFINE ref == EchoedRef(h)
           g == handler[h].gen
<1>1. g \in 1 .. Gen /\ ref \in RefType
  BY HubSlotTyped
<1>2. regions'[g][ref.slot].data = regions[g][ref.slot].data
  BY <1>1 DEF SlotsKept, RefType
<1>3. QED
  BY <1>2 DEF HubSlot, EchoedRef

\* The first check that passes finds the first frame.
LEMMA FirstCheck ==
  ASSUME ReconInv, SeqInv, NEW h \in Handlers, AloneHolds(h), ChecksSlot(h),
         Passes(HubSlot(h, CheckedRef(h)), CheckedRef(h))
  PROVE  HubSlot(h, EchoedRef(h)).data = FrameOf(handler[h].number, 1)
<1>1. Is(h, "check") /\ LoopbackTypeOK /\ LoopbackInv /\ HubTypeOK
  BY DEF ChecksSlot, ReconInv, TypeOK
<1>2. handler[h] \in Request /\ RequestInv(handler[h], Gen, EchoGen) /\ Gen \in Nat
  BY <1>1, LoopbackTypes, CursorTyped DEF LoopbackInv
<1>3. CASE handler[h].next > 1
  BY <1>1, <1>3 DEF AloneHolds, FirstPassed, Is
<1>4. CASE handler[h].next = 1
  <2>1. /\ handler[h].asked # 0 /\ ~Is(h, "idle")
        /\ handler[h].refs \in Seq(RefType) /\ handler[h].refs # <<>>
    BY <1>1, <1>2 DEF RequestInv, Request, Is, AloneHolds
  <2>2. 1 \in DOMAIN handler[h].refs /\ CheckedRef(h) = handler[h].refs[1]
    <3>1. Len(handler[h].refs) \in Nat \ {0} /\ DOMAIN handler[h].refs = 1 .. Len(handler[h].refs)
      BY <2>1, EmptySeq
    <3>2. QED
      BY <1>4, <3>1 DEF CheckedRef
  <2>3. RefHolds(handler[h].asked, handler[h].refs[1], FrameOf(handler[h].number, 1))
    BY <2>1, <2>2 DEF SeqInv, AllHold
  <2>4. handler[h].gen = handler[h].asked /\ handler[h].asked = Gen /\ hub # "down" /\ ~writer.copying
    BY <1>1 DEF AloneHolds, Is
  <2>5. QED
    BY <2>2, <2>3, <2>4 DEF RefHolds, HubSlot, Passes, EchoedRef
<1>5. QED
  BY <1>1, <1>2, <1>3, <1>4 DEF RequestInv, Request, Is

\* A step of the request that is alone.
LEMMA AloneStep ==
  ASSUME ReconInv, SeqInv, NEW h \in Handlers, AloneHolds(h), HandlerStep(h),
         handler'[h].pc # "idle"
  PROVE  AloneHolds(h)'
<1>1. /\ HubTypeOK /\ HubInv /\ LoopbackTypeOK /\ LoopbackInv
      /\ handler \in [Handlers -> Request] /\ handler[h] \in Request
      /\ RequestInv(handler[h], Gen, EchoGen)
      /\ UNCHANGED reconHubVars
  BY LoopbackTypes, ReaderLeavesHub DEF ReconInv, TypeOK, LoopbackInv
<1>2. SlotsKept /\ Gen' = Gen /\ hub' = hub /\ writer' = writer /\ regions' = regions
  BY <1>1 DEF reconHubVars, SlotsKept, Gen
<1>3. Keeps(h) /\ ~Is(h, "idle")
  BY <1>1, HandlerFields, IdleRequest DEF Ends
<1>4. /\ hub' # "down" /\ ~writer'.copying
      /\ handler'[h].asked = Gen'
      /\ \A g \in Handlers \ {h} : handler'[g].pc = "idle"
  BY <1>2, <1>3 DEF AloneHolds, Keeps, Is
<1>5. ASSUME handler'[h].pc # "open" => handler'[h].gen = Gen,
             ~(handler'[h].pc = "open" \/ (handler'[h].pc = "check" /\ handler'[h].next <= 1)) =>
               HubSlot(h, EchoedRef(h))'.data = FrameOf(handler[h].number, 1),
             handler'[h].pc \in {"write_echo", "publish_echo", "call_hub"} =>
               handler'[h].echo = EchoGen',
             handler'[h].pc \in {"publish_echo", "call_hub"} =>
               echo_regions'[EchoGen'][echo_cursor'[h]].data = FrameOf(handler[h].number, 1),
             handler'[h].pc = "check" => handler'[h].next \in Nat
      PROVE  AloneHolds(h)'
  <2>1. handler'[h].number = handler[h].number
    BY <1>3 DEF Keeps
  <2>2. (FirstPassed(h))' =>
          ~(handler'[h].pc = "open" \/ (handler'[h].pc = "check" /\ handler'[h].next <= 1))
    BY <1>5 DEF FirstPassed, Is
  <2>3. QED
    BY <1>2, <1>4, <1>5, <2>1, <2>2 DEF AloneHolds, Is
\* The first frame, once read, stays in its slot.
<1>6. ASSUME ~Is(h, "open"), handler'[h].gen = handler[h].gen,
             HubSlot(h, EchoedRef(h)).data = FrameOf(handler[h].number, 1)
      PROVE  HubSlot(h, EchoedRef(h))'.data = FrameOf(handler[h].number, 1)
  <2>1. HubSlot(h, EchoedRef(h)).data' = HubSlot(h, EchoedRef(h)).data
    BY <1>1, <1>2, <1>3, <1>6, EchoedSlotKept DEF Keeps
  <2>2. QED
    BY <1>6, <2>1
<1>7. CASE OpensHubRing(h)
  BY <1>1, <1>5, <1>7, OpensHubRingMoves
<1>8. CASE ChecksSlot(h)
  <2>1. /\ Is(h, "check")
        /\ Passes(HubSlot(h, CheckedRef(h)), CheckedRef(h))
        /\ handler'[h].pc \in {"save", "open_echo"} /\ handler'[h].gen = handler[h].gen
    BY <1>1, <1>8, ChecksSlotMoves, IdleRequest DEF Ends
  <2>2. HubSlot(h, EchoedRef(h)).data = FrameOf(handler[h].number, 1)
    BY <1>8, <2>1, FirstCheck
  <2>3. HubSlot(h, EchoedRef(h))'.data = FrameOf(handler[h].number, 1)
    BY <1>6, <2>1, <2>2 DEF Is
  <2>4. handler'[h].gen = Gen
    BY <2>1 DEF AloneHolds, Is
  <2>5. QED
    BY <1>5, <2>1, <2>3, <2>4
<1>9. CASE SavesSlot(h)
  <2>1. /\ Is(h, "save") /\ handler'[h].pc = "check" /\ handler'[h].gen = handler[h].gen
        /\ handler'[h].next \in Nat
    BY <1>1, <1>9, SavesSlotMoves, IdleRequest, SMTT(20) DEF Ends, Request
  <2>2. HubSlot(h, EchoedRef(h))'.data = FrameOf(handler[h].number, 1)
    BY <1>6, <2>1 DEF AloneHolds, FirstPassed, Is
  <2>3. handler'[h].gen = Gen
    BY <2>1 DEF AloneHolds, Is
  <2>4. QED
    BY <1>5, <2>1, <2>2, <2>3
<1>10. CASE OpensEcho(h)
  <2>1. /\ Is(h, "open_echo") /\ handler'[h].gen = handler[h].gen
        /\ handler'[h].pc = "create_echo" \/ (handler'[h].pc = "write_echo" /\ handler'[h].echo = EchoGen)
    BY <1>1, <1>10, OpensEchoMoves
  <2>2. HubSlot(h, EchoedRef(h))'.data = FrameOf(handler[h].number, 1)
    BY <1>6, <2>1 DEF AloneHolds, FirstPassed, Is
  <2>3. handler'[h].gen = Gen /\ EchoGen' = EchoGen
    BY <1>10, <2>1 DEF AloneHolds, Is, OpensEcho, EchoGen
  <2>4. QED
    BY <1>5, <2>1, <2>2, <2>3
<1>11. CASE CreatesEcho(h)
  <2>1. /\ Is(h, "create_echo") /\ handler'[h].gen = handler[h].gen
        /\ handler'[h].pc = "write_echo" /\ handler'[h].echo = EchoGen'
    BY <1>1, <1>11, CreatesEchoMoves
  <2>2. HubSlot(h, EchoedRef(h))'.data = FrameOf(handler[h].number, 1)
    BY <1>6, <2>1 DEF AloneHolds, FirstPassed, Is
  <2>3. handler'[h].gen = Gen
    BY <2>1 DEF AloneHolds, Is
  <2>4. QED
    BY <1>5, <2>1, <2>2, <2>3
<1>12. CASE CopiesEcho(h)
  <2>1. /\ Is(h, "write_echo") /\ handler'[h].gen = handler[h].gen
        /\ handler'[h].pc = "publish_echo" /\ handler'[h].echo = handler[h].echo
    BY <1>1, <1>12, CopiesEchoMoves
  <2>2. HubSlot(h, EchoedRef(h)).data = FrameOf(handler[h].number, 1)
    BY <2>1 DEF AloneHolds, FirstPassed, Is
  <2>3. HubSlot(h, EchoedRef(h))'.data = FrameOf(handler[h].number, 1)
    BY <1>6, <2>1, <2>2 DEF Is
  <2>4. handler'[h].gen = Gen /\ handler[h].echo = EchoGen
    BY <2>1 DEF AloneHolds, Is
  <2>5. /\ EchoGen' = EchoGen
        /\ echo_regions'[EchoGen'][echo_cursor'[h]].data = FrameOf(handler[h].number, 1)
    BY <1>1, <1>12, <2>2, <2>4, EchoCopied
  <2>6. QED
    BY <1>5, <2>1, <2>3, <2>4, <2>5
<1>13. CASE PublishesEcho(h)
  <2>1. /\ Is(h, "publish_echo") /\ handler'[h].gen = handler[h].gen
        /\ handler'[h].pc = "call_hub" /\ handler'[h].echo = handler[h].echo
    BY <1>1, <1>13, PublishesEchoMoves
  <2>2. HubSlot(h, EchoedRef(h)).data = FrameOf(handler[h].number, 1)
    BY <2>1 DEF AloneHolds, FirstPassed, Is
  <2>3. HubSlot(h, EchoedRef(h))'.data = FrameOf(handler[h].number, 1)
    BY <1>6, <2>1, <2>2 DEF Is
  <2>4. /\ handler'[h].gen = Gen /\ handler[h].echo = EchoGen
        /\ echo_regions[EchoGen][echo_cursor[h]].data = FrameOf(handler[h].number, 1)
    BY <2>1 DEF AloneHolds, Is
  <2>5. /\ EchoGen' = EchoGen
        /\ echo_regions'[EchoGen'][echo_cursor'[h]].data = FrameOf(handler[h].number, 1)
    <3>1. ~CopiesEcho(h)
      BY <2>1 DEF CopiesEcho, Is
    <3>2. QED
      BY <1>1, <1>13, <2>4, <3>1, EchoCopied
  <2>6. QED
    BY <1>5, <2>1, <2>3, <2>4, <2>5
<1>14. CASE HubSavesEcho(h)
  BY <1>1, <1>14, ReturnEnds, IdleRequest DEF HubSavesEcho, Ends
<1>15. CASE HandlerFails(h) \/ EchoTooSmall(h)
  BY <1>1, <1>15, ReturnEnds, IdleRequest DEF HandlerFails, EchoTooSmall, Ends
<1>16. QED
  BY <1>7, <1>8, <1>9, <1>10, <1>11, <1>12, <1>13, <1>14, <1>15 DEF HandlerStep

LEMMA AloneInductive ==
  ASSUME ReconInv, SeqInv, AloneInv, [Next]_vars
  PROVE  AloneInv'
<1>1. /\ HubTypeOK /\ HubInv /\ LoopbackTypeOK /\ LoopbackInv
      /\ handler \in [Handlers -> Request]
  BY LoopbackTypes DEF ReconInv, TypeOK
<1> SUFFICES ASSUME NEW h \in Handlers, handler'[h].pc # "idle", handler'[h].alone
             PROVE  AloneHolds(h)'
    BY DEF AloneInv, Is
<1>2. ASSUME NEW t \in Threads, BuildsSlots(t), UNCHANGED reconHubVars
      PROVE  AloneHolds(h)'
  <2>1. /\ handler'[h].pc = "open" /\ handler'[h].asked = Gen /\ NobodyElse
        /\ \A g \in Handlers \ {h} : handler'[g] = [handler[g] EXCEPT !.alone = FALSE]
    <3>1. handler[h] \in Request
      BY <1>1
    <3>2. ~(handler'[h] = [handler[h] EXCEPT !.alone = FALSE])
      BY <3>1 DEF Request
    <3>3. QED
      BY <1>1, <1>2, <3>2, RequestsBeside
  <2>2. hub # "down" /\ ~writer.copying
    BY <1>1, <1>2, <2>1 DEF LoopbackInv, BuildsSlots, NobodyElse
  <2>3. \A g \in Handlers \ {h} : handler'[g].pc = "idle"
    <3>1. ASSUME NEW g \in Handlers \ {h} PROVE handler'[g].pc = "idle"
      <4>1. handler[g] \in Request /\ handler[g].pc = "idle"
        BY <1>1, <2>1 DEF NobodyElse, Is
      <4>2. QED
        BY <2>1, <4>1 DEF Request
    <3>2. QED
      BY <3>1
  <2>4. Gen' = Gen /\ hub' = hub /\ writer' = writer
    BY <1>2 DEF reconHubVars, Gen
  <2>5. QED
    BY <2>1, <2>2, <2>3, <2>4 DEF AloneHolds, FirstPassed, Is
<1>3. CASE Is(h, "idle")
  <2>1. PICK t \in Threads : BuildsSlots(t)
    BY <1>1, <1>3, NewRequest
  <2>2. QED
    BY <1>2, <2>1 DEF BuildsSlots
<1>4. CASE ~Is(h, "idle")
  <2>1. CASE Disturbed
    BY <1>1, <2>1, Undisturbed
  <2>2. CASE EchoStays
             /\ \/ SlotCopyEnds
                \/ /\ SlotsKept
                   /\ writer'.copying => writer.copying
                   /\ hub # "down" => hub' # "down" /\ Gen' = Gen
    <3>1. /\ UNCHANGED <<handler, echo_regions, echo_cursor>> /\ AloneHolds(h)
          /\ EchoGen' = EchoGen
      BY <1>4, <2>2 DEF EchoStays, AloneInv, EchoGen
    <3>2. SlotsKept /\ hub' # "down" /\ Gen' = Gen /\ ~writer'.copying
      BY <2>2, <3>1 DEF AloneHolds, SlotCopyEnds
    <3>3. ~Is(h, "open") => HubSlot(h, EchoedRef(h))'.data = HubSlot(h, EchoedRef(h)).data
      BY <1>1, <1>4, <3>1, <3>2, EchoedSlotKept
    <3>4. QED
      BY <3>1, <3>2, <3>3 DEF AloneHolds, FirstPassed, Is
  <2>3. ASSUME UNCHANGED reconHubVars, NEW g \in Handlers, HandlerStep(g)
        PROVE  AloneHolds(h)'
    <3>1. CASE g = h
      <4>1. handler[h].alone
        BY <1>1, <2>3, <3>1, HandlerFields, IdleRequest DEF Ends, Keeps
      <4>2. AloneHolds(h)
        BY <1>4, <4>1 DEF AloneInv
      <4>3. QED
        BY <2>3, <3>1, <4>2, AloneStep
    <3>2. CASE g # h
      <4>1. handler'[h] = handler[h] /\ ~Is(g, "idle")
        BY <1>1, <2>3, <3>2, HandlerFields DEF Ends, Keeps
      <4>2. AloneHolds(h)
        BY <1>4, <4>1 DEF AloneInv
      <4>3. QED
        BY <3>2, <4>1, <4>2 DEF AloneHolds
    <3>3. QED
      BY <3>1, <3>2
  <2>4. QED
    BY <1>1, <1>2, <1>4, <2>1, <2>2, <2>3, BesideRequest
<1>5. QED
  BY <1>3, <1>4

LEMMA EchoInductive ==
  ASSUME ReconInv, AloneInv, EchoIsOwn, [Next]_vars
  PROVE  EchoIsOwn'
<1>1. LoopbackTypeOK
  BY DEF ReconInv, TypeOK
<1>2. echoed' = echoed => EchoIsOwn'
  BY DEF EchoIsOwn
<1>3. ASSUME NEW h \in Handlers, HubSavesEcho(h) PROVE EchoIsOwn'
  <2> DEFINE slot == echo_regions[EchoGen][echo_cursor[h]]
             save == [number |-> handler[h].number, data |-> slot.data, alone |-> handler[h].alone]
  <2>1. Is(h, "call_hub") /\ (echoed' = echoed \/ echoed' = save)
    BY <1>3 DEF HubSavesEcho
  <2>2. handler[h].alone => slot.data = FrameOf(handler[h].number, 1)
    BY <2>1 DEF AloneInv, AloneHolds, Is
  <2>3. save.alone => save.data = FrameOf(save.number, 1)
    BY <2>2
  <2> HIDE DEF save
  <2>4. QED
    BY <1>2, <2>1, <2>3 DEF EchoIsOwn
<1>4. ASSUME NEW h \in Handlers, HandlerStep(h), ~HubSavesEcho(h) PROVE echoed' = echoed
  BY <1>4 DEF HandlerStep, HandlerFails, EchoTooSmall, OpensHubRing, ChecksSlot, SavesSlot, OpensEcho, CreatesEcho,
              CopiesEcho, PublishesEcho
<1>5. CASE LoopbackMoves
  BY <1>2, <1>3, <1>4, <1>5 DEF LoopbackMoves, PublishesOnly, LoopbackBegins, SessionClosesUnder,
        CopyBeginsBeside, BuildsSlots, CallGivesUp
<1>6. QED
  BY <1>2, <1>5, LoopbackCases DEF loopbackVars, HubProcessStops

LEMMA AloneInitially == Init => AloneInv /\ EchoIsOwn
BY DEF Init, LoopbackInit, NoRequest, NoEcho, AloneInv, EchoIsOwn, Is

\* What the hub saves as the echo of a capture is the first frame of that capture, from the
\* publication through two rings without locks, as long as the request is alone
\* (hub_shm_loopback_test.cpp, recon_shm_loopback_grpc.cpp): no other request runs beside it, the
\* hub does not stop and begins no other slot.
THEOREM EchoReturnsOwnFrame == Spec => []EchoIsOwn
<1> DEFINE Inv == ReconInv /\ TornInv /\ SeqInv /\ SureInv /\ AloneInv /\ EchoIsOwn
<1>1. Init => Inv
  BY ReconInitial, SeqInitially, AloneInitially
<1>2. Inv /\ [Next]_vars => Inv'
  BY ReconInductive, SeqInductive, SureInductive, AloneInductive, EchoInductive
<1>3. Inv => EchoIsOwn
  OBVIOUS
<1> HIDE DEF Inv
<1>4. QED
  BY <1>1, <1>2, <1>3, PTL DEF Spec

-----------------------------------------------------------------------------
\* The grace of a reader.

LEMMA AheadFacts ==
  ASSUME NEW c \in Slots, NEW s \in Slots
  PROVE  /\ Ahead(c, s) \in Nat
         /\ s = c => Ahead(c, s) = 0 /\ Ahead(NextCursor(c), s) = SlotCount - 1
         /\ s # c => Ahead(NextCursor(c), s) = Ahead(c, s) - 1
BY Constants DEF Ahead, Slots, NextCursor

LEMMA EndedFacts ==
  ASSUME HubTypeOK
  PROVE  /\ Ended \in [Threads -> Int]
         /\ \A t \in Threads :
              /\ writes[t] \in Nat /\ Ended[t] <= writes[t]
              /\ Ended[t] = IF writer.copying /\ writer.thread = t THEN writes[t] - 1 ELSE writes[t]
BY DEF HubTypeOK, Ended

\* What happens to the hub between the copies.
LEMMA GraceMoves ==
  ASSUME HubTypeOK, HubInv, HubMoves
  PROVE  \/ SlotCopyBegins
         \/ SlotCopyEnds
         \/ /\ SlotsKept /\ writes' = writes
            /\ \/ HubStarts /\ Gen' = Gen + 1 /\ UNCHANGED writer
               \/ Gen' = Gen /\ hub' = "down" /\ ~writer'.copying
               \/ /\ Gen' = Gen /\ UNCHANGED cursor /\ Ended' = Ended
                  /\ hub # "down" \/ hub' = hub
            /\ \/ ~writer'.active
               \/ writer'.refs = <<>>
               \/ UNCHANGED <<writer, bursts, cursor>> /\ Gen' = Gen
            /\ latest' = latest \/ latest' = NoLatest \/ BurstPublished
<1>1. regions' = regions => SlotsKept /\ Gen' = Gen
  BY DEF SlotsKept, Gen
<1>2. ~writer.active => ~writer.copying
  BY DEF HubInv
<1>3. CASE UNCHANGED reconHubVars
  BY <1>1, <1>3 DEF reconHubVars, Ended
<1>4. CASE HubStarts
  <2>1. SlotsKept /\ Gen' = Gen + 1
    BY <1>4, NewRegion, CursorTyped DEF HubStarts, SlotsKept, Gen
  <2>2. ~writer.active
    BY <1>4 DEF HubStarts, HubInv
  <2>3. QED
    BY <1>4, <2>1, <2>2 DEF HubStarts
<1>5. CASE HubStops
  BY <1>1, <1>5 DEF HubStops, NotWriting
<1>6. CASE SessionCloses
  BY <1>1, <1>6 DEF SessionCloses, Ended
<1>7. CASE HubReady
  BY <1>1, <1>7 DEF HubReady, Ended
<1>8. CASE \E t \in Threads, id \in CaptureIds, rec \in RecModes : Writes(t, id, rec)
  <2>1. PICK t \in Threads, id \in CaptureIds, rec \in RecModes : Writes(t, id, rec)
    BY <1>8
  <2> DEFINE all == RawFrames(t) + ResultSlots(rec)
  <2>2. /\ hub = "ready" /\ ~writer.active /\ UNCHANGED <<hub, regions, latest, writes, cursor>>
        /\ writer' = [NotWriting EXCEPT !.active = TRUE, !.thread = t, !.id = id, !.next = 1,
                                        !.slots = all]
    BY <2>1 DEF Writes
  <2> HIDE DEF all
  <2>3. ~writer'.copying /\ writer'.refs = <<>>
    BY <2>2 DEF NotWriting
  <2>4. Ended' = Ended
    BY <1>2, <2>2, <2>3 DEF Ended
  <2>5. QED
    BY <1>1, <2>2, <2>3, <2>4
<1>9. CASE BurstPublished
  <2>1. ~writer'.active /\ ~writer'.copying /\ ~writer.copying
    BY <1>9 DEF BurstPublished, NotWriting
  <2>2. /\ UNCHANGED <<hub, regions, cursor, writes>> /\ Ended' = Ended
    BY <1>9, <2>1 DEF BurstPublished, Ended
  <2>3. QED
    BY <1>1, <1>9, <2>1, <2>2
<1>10. QED
  BY <1>3, <1>4, <1>5, <1>6, <1>7, <1>8, <1>9 DEF HubMoves

\* What a copy does to the counts of the threads.
LEMMA CopyCounts ==
  ASSUME HubTypeOK, HubInv
  PROVE  /\ writer.thread \in Threads
         /\ SlotCopyBegins =>
              /\ writes' = [writes EXCEPT ![writer.thread] = @ + 1] /\ Ended' = Ended
              /\ Ended[writer.thread] = writes[writer.thread]
         /\ SlotCopyEnds =>
              /\ writes' = writes /\ Ended' = writes
              /\ Ended[writer.thread] = writes[writer.thread] - 1
              /\ cursor' = [cursor EXCEPT ![writer.thread] = NextCursor(@)]
<1>1. writer.thread \in Threads /\ writes \in [Threads -> Nat]
  BY DEF HubTypeOK
<1>2. ASSUME SlotCopyBegins
      PROVE  /\ writes' = [writes EXCEPT ![writer.thread] = @ + 1] /\ Ended' = Ended
             /\ Ended[writer.thread] = writes[writer.thread]
  <2>1. /\ ~writer.copying /\ writer'.copying /\ writer'.thread = writer.thread
        /\ writes' = [writes EXCEPT ![writer.thread] = @ + 1]
    BY <1>2, CopyBeginsAt DEF SlotCopyBegins
  <2>2. Ended = writes
    BY <1>1, <2>1 DEF Ended
  <2>3. Ended' = writes
    BY <1>1, <2>1 DEF Ended
  <2>4. QED
    BY <2>1, <2>2, <2>3
<1>3. ASSUME SlotCopyEnds
      PROVE  /\ writes' = writes /\ Ended' = writes
             /\ Ended[writer.thread] = writes[writer.thread] - 1
             /\ cursor' = [cursor EXCEPT ![writer.thread] = NextCursor(@)]
  <2>1. /\ writer.copying /\ ~writer'.copying /\ writes' = writes
        /\ cursor' = [cursor EXCEPT ![writer.thread] = NextCursor(@)]
    BY <1>3, RefAppended DEF SlotCopyEnds
  <2>2. Ended' = writes
    BY <1>1, <2>1 DEF Ended
  <2>3. QED
    BY <1>1, <2>1, <2>2 DEF Ended
<1>4. QED
  BY <1>1, <1>2, <1>3

\* No write is undone.
LEMMA SinceStays ==
  ASSUME HubTypeOK, HubInv, HubMoves, NEW mark \in MarkType, Since(mark)
  PROVE  Since(mark)'
<1>1. \A t \in Threads :
        /\ mark.writes[t] \in Nat /\ mark.writes[t] <= Ended[t]
        /\ Ended[t] \in Int /\ writes[t] \in Nat /\ Ended[t] <= writes[t]
  BY EndedFacts DEF Since, MarkType
<1>2. \A t \in Threads : Ended[t] <= Ended'[t] /\ Ended'[t] \in Int
  <2>1. CASE SlotCopyBegins
    BY <1>1, <2>1, CopyCounts
  <2>2. CASE SlotCopyEnds
    BY <1>1, <2>2, CopyCounts
  <2>3. CASE writes' = writes /\ ~writer'.copying
    <3>1. Ended' = writes
      BY <2>3 DEF HubTypeOK, Ended
    <3>2. QED
      BY <1>1, <3>1
  <2>4. CASE Ended' = Ended
    BY <1>1, <2>4
  <2>5. CASE HubStarts
    <3>1. ~writer.active /\ writer' = writer /\ writes' = writes
      BY <2>5 DEF HubStarts, HubInv
    <3>2. Ended' = Ended
      BY <3>1 DEF Ended
    <3>3. QED
      BY <1>1, <3>2
  <2>6. QED
    BY <2>1, <2>2, <2>3, <2>4, <2>5, GraceMoves
<1>3. QED
  BY <1>1, <1>2 DEF Since

\* Frames that have grace keep it or stay, whatever the hub does.
LEMMA GraceStays ==
  ASSUME HubTypeOK, HubInv, HubMoves,
         NEW g \in 1 .. Gen, NEW refs \in Seq(RefType), NEW number, NEW mark \in MarkType,
         Since(mark), GraceHolds(g, refs, number, mark)
  PROVE  GraceHolds(g, refs, number, mark)' /\ Since(mark)'
<1> DEFINE t == mark.thread
           base == mark.writes[t]
           rest == SlotCount - mark.slots
<1>1. /\ Gen \in Nat /\ WriterCursor \in Slots /\ writer.thread \in Threads
      /\ cursor \in [Threads -> Slots] /\ writes \in [Threads -> Nat]
      /\ t \in Threads /\ base \in Nat /\ rest \in Int
      /\ writes[t] \in Nat /\ Ended[t] \in Int
      /\ \A u \in Threads :
           /\ mark.writes[u] \in Nat /\ writes[u] \in Nat
           /\ mark.writes[u] <= Ended[u] /\ Ended[u] <= writes[u] /\ Ended[u] \in Int
  <2>1. mark.thread \in Threads /\ mark.slots \in Nat /\ mark.writes \in [Threads -> Nat]
    BY DEF MarkType
  <2>2. \A u \in Threads : mark.writes[u] <= Ended[u]
    BY DEF Since
  <2>3. /\ Ended \in [Threads -> Int]
        /\ \A u \in Threads : writes[u] \in Nat /\ Ended[u] <= writes[u]
    BY EndedFacts
  <2>4. Gen \in Nat /\ WriterCursor \in Slots
    BY CursorTyped
  <2>5. /\ writer.thread \in Threads /\ cursor \in [Threads -> Slots] /\ writes \in [Threads -> Nat]
    BY DEF HubTypeOK
  <2>6. QED
    BY <2>1, <2>2, <2>3, <2>4, <2>5, Constants
<1>2. /\ GraceOver(mark) <=>
           writes[t] - base > rest \/ \E u \in Threads \ {t} : writes[u] # mark.writes[u]
      /\ GraceOver(mark)' <=>
           writes'[t] - base > rest \/ \E u \in Threads \ {t} : writes'[u] # mark.writes[u]
  BY DEF GraceOver
<1>3. ASSUME NEW i \in DOMAIN refs
      PROVE  refs[i].slot \in Slots /\ i \in Nat /\ i >= 1
  <2> DEFINE n == Len(refs)
  <2>1. n \in Nat /\ i \in 1 .. n
    BY <1>3
  <2>2. refs[i] \in RefType
    BY <2>1, ElementOfSeq
  <2> HIDE DEF n
  <2>3. i \in Nat /\ i >= 1
    BY <2>1
  <2>4. QED
    BY <2>2, <2>3 DEF RefType
\* What GraceHolds says, before and after.
<1>4. ASSUME ~GraceOver(mark), NEW i \in DOMAIN refs
      PROVE  /\ regions[g][refs[i].slot].data = FrameOf(number, i)
             /\ g = Gen /\ hub # "down" => Ahead(cursor[t], refs[i].slot) + (Ended[t] - base) >= rest + i - 1
  BY <1>4 DEF GraceHolds
<1>5. ASSUME ~GraceOver(mark)' =>
               \A i \in DOMAIN refs :
                 /\ regions'[g][refs[i].slot].data = FrameOf(number, i)
                 /\ g = Gen' /\ hub' # "down" =>
                      Ahead(cursor'[t], refs[i].slot) + (Ended'[t] - base) >= rest + i - 1
      PROVE  GraceHolds(g, refs, number, mark)' /\ Since(mark)'
  BY <1>5, SinceStays DEF GraceHolds
<1> HIDE DEF t, base, rest
<1>6. CASE SlotCopyBegins
  <2>1. /\ writes' = [writes EXCEPT ![writer.thread] = @ + 1] /\ Ended' = Ended
        /\ Ended[writer.thread] = writes[writer.thread]
    BY <1>6, CopyCounts
  <2>2. /\ hub' = hub /\ hub # "down" /\ UNCHANGED cursor /\ Gen' = Gen
    BY <1>6, CopyBeginsAt, TornSlot
  <2>3. CASE writer.thread # t
    <3> DEFINE u == writer.thread
    <3>1. writes'[u] = writes[u] + 1 /\ mark.writes[u] <= writes[u] /\ mark.writes[u] \in Nat
          /\ writes[u] \in Nat
      BY <1>1, <2>1
    <3>2. u \in Threads \ {t} /\ writes'[u] # mark.writes[u]
      BY <1>1, <2>3, <3>1
    <3>3. GraceOver(mark)'
      BY <1>2, <3>2
    <3>4. QED
      BY <1>5, <3>3
  <2>4. CASE writer.thread = t
    <3>1. writes'[t] = writes[t] + 1 /\ Ended[t] = writes[t] /\ WriterCursor = cursor[t]
      BY <1>1, <2>1, <2>4 DEF WriterCursor
    <3>2. ASSUME ~GraceOver(mark)'
          PROVE  ~GraceOver(mark) /\ writes[t] + 1 - base <= rest
      <4>1. \A u \in Threads \ {t} : writes'[u] = writes[u]
        BY <1>1, <2>1, <2>4
      <4>2. /\ ~(writes'[t] - base > rest)
            /\ ~\E u \in Threads \ {t} : writes'[u] # mark.writes[u]
        BY <1>2, <3>2, Zenon
      <4>3. ~(writes[t] + 1 - base > rest)
        BY <1>1, <3>1, <4>2
      <4>4. ~\E u \in Threads \ {t} : writes[u] # mark.writes[u]
        BY <4>1, <4>2
      <4>5. writes[t] + 1 - base <= rest /\ ~(writes[t] - base > rest)
        BY <1>1, <4>3
      <4>6. QED
        BY <1>2, <4>4, <4>5
    <3>3. ASSUME ~GraceOver(mark)', NEW i \in DOMAIN refs
          PROVE  /\ regions'[g][refs[i].slot].data = FrameOf(number, i)
                 /\ g = Gen' /\ hub' # "down" =>
                      Ahead(cursor'[t], refs[i].slot) + (Ended'[t] - base) >= rest + i - 1
      <4> DEFINE s == refs[i].slot
                 c == cursor[t]
      <4>1. /\ regions[g][s].data = FrameOf(number, i)
            /\ g = Gen => Ahead(c, s) + (writes[t] - base) >= rest + i - 1
        BY <1>4, <2>2, <3>1, <3>2, <3>3
      <4>2. s \in Slots /\ i \in Nat /\ i >= 1 /\ c \in Slots
        BY <1>1, <1>3
      <4>3. writes[t] + 1 - base <= rest
        BY <3>2, <3>3
      <4>4. s = c => Ahead(c, s) = 0
        BY <4>2, AheadFacts
      <4>5. WriterCursor = c
        BY <3>1
      <4> HIDE DEF s, c
      <4>6. g = Gen => s # c
        BY <1>1, <4>1, <4>2, <4>3, <4>4
      <4>7. regions'[g][s].data = regions[g][s].data
        BY <1>6, <4>2, <4>5, <4>6, TornSlot
      <4>8. QED
        BY <2>1, <2>2, <3>1, <4>1, <4>7 DEF s, c
    <3>4. QED
      BY <1>5, <3>3
  <2>5. QED
    BY <2>3, <2>4
<1>7. CASE SlotCopyEnds
  <2>1. /\ writes' = writes /\ Ended' = writes
        /\ Ended[writer.thread] = writes[writer.thread] - 1
        /\ cursor' = [cursor EXCEPT ![writer.thread] = NextCursor(@)]
    BY <1>7, CopyCounts
  <2>2. Gen' = Gen /\ hub' = hub /\ hub # "down"
    BY <1>7, PublishedInSlot, RefAppended DEF SlotCopyEnds, HubInv
  <2>3. GraceOver(mark)' <=> GraceOver(mark)
    BY <1>2, <2>1
  <2>4. CASE writer.thread # t
    <3> DEFINE u == writer.thread
    <3>1. mark.writes[u] <= writes[u] - 1 /\ mark.writes[u] \in Nat /\ writes[u] \in Nat
      BY <1>1, <2>1
    <3>2. u \in Threads \ {t} /\ writes[u] # mark.writes[u]
      BY <1>1, <2>4, <3>1
    <3>3. GraceOver(mark)'
      BY <1>2, <2>3, <3>2
    <3>4. QED
      BY <1>5, <3>3
  <2>5. CASE writer.thread = t
    <3>1. Ended[t] = writes[t] - 1 /\ cursor'[t] = NextCursor(cursor[t]) /\ WriterCursor = cursor[t]
      BY <1>1, <2>1, <2>5 DEF WriterCursor
    <3>2. ASSUME ~GraceOver(mark)', NEW i \in DOMAIN refs
          PROVE  /\ regions'[g][refs[i].slot].data = FrameOf(number, i)
                 /\ g = Gen' /\ hub' # "down" =>
                      Ahead(cursor'[t], refs[i].slot) + (Ended'[t] - base) >= rest + i - 1
      <4> DEFINE s == refs[i].slot
                 c == cursor[t]
      <4>1. /\ regions[g][s].data = FrameOf(number, i)
            /\ g = Gen => Ahead(c, s) + (writes[t] - 1 - base) >= rest + i - 1
        BY <1>4, <2>2, <2>3, <3>1, <3>2
      <4>2. s \in Slots /\ i \in Nat /\ i >= 1 /\ c \in Slots
        BY <1>1, <1>3
      <4>3. ~(writes[t] - base > rest)
        BY <1>2, <2>3, <3>2
      <4>4. s = c => Ahead(c, s) = 0
        BY <4>2, AheadFacts
      <4>5. s # c => Ahead(NextCursor(c), s) = Ahead(c, s) - 1
        BY <4>2, AheadFacts
      <4>6. Ahead(c, s) \in Nat
        BY <4>2, AheadFacts
      <4>7. WriterCursor = c /\ cursor'[t] = NextCursor(c)
        BY <3>1
      <4> HIDE DEF s, c
      <4>8. g = Gen => s # c
        BY <1>1, <4>1, <4>2, <4>3, <4>4
      <4>9. regions'[g][s].data = regions[g][s].data
        BY <1>7, <4>2, <4>7, <4>8, PublishedInSlot
      <4>10. g = Gen => Ahead(NextCursor(c), s) + (writes[t] - base) >= rest + i - 1
        BY <1>1, <4>1, <4>2, <4>5, <4>6, <4>8
      <4>11. QED
        BY <2>1, <2>2, <4>1, <4>7, <4>9, <4>10 DEF s
    <3>3. QED
      BY <1>5, <3>2
  <2>6. QED
    BY <2>4, <2>5
<1>8. CASE /\ SlotsKept /\ writes' = writes
           /\ \/ HubStarts /\ Gen' = Gen + 1 /\ UNCHANGED writer
              \/ Gen' = Gen /\ hub' = "down" /\ ~writer'.copying
              \/ /\ Gen' = Gen /\ UNCHANGED cursor /\ Ended' = Ended
                 /\ hub # "down" \/ hub' = hub
  <2>1. GraceOver(mark)' <=> GraceOver(mark)
    BY <1>2, <1>8
  <2>2. ASSUME ~GraceOver(mark)', NEW i \in DOMAIN refs
        PROVE  /\ regions'[g][refs[i].slot].data = FrameOf(number, i)
               /\ g = Gen' /\ hub' # "down" =>
                    Ahead(cursor'[t], refs[i].slot) + (Ended'[t] - base) >= rest + i - 1
    <3>1. /\ regions[g][refs[i].slot].data = FrameOf(number, i)
          /\ g = Gen /\ hub # "down" =>
               Ahead(cursor[t], refs[i].slot) + (Ended[t] - base) >= rest + i - 1
      BY <1>4, <2>1, <2>2
    <3>2. regions'[g][refs[i].slot].data = regions[g][refs[i].slot].data
      BY <1>3, <1>8 DEF SlotsKept
    <3>3. g = Gen' /\ hub' # "down" =>
            g = Gen /\ hub # "down" /\ cursor' = cursor /\ Ended' = Ended
      BY <1>1, <1>8
    <3>4. QED
      BY <3>1, <3>2, <3>3
  <2>3. QED
    BY <1>5, <2>2
<1>9. QED
  BY <1>6, <1>7, <1>8, GraceMoves

LEMMA WriterGraceInductive ==
  ASSUME HubTypeOK, HubInv, WriterGrace, HubMoves
  PROVE  WriterGrace'
<1> DEFINE n == Len(writer.refs)
           c == WriterCursor
\* The references written before the step.
<1>1. /\ Gen \in Nat /\ c \in Slots /\ writer.thread \in Threads
      /\ cursor \in [Threads -> Slots]
      /\ writer.refs \in Seq(RefType) /\ writer.next \in Nat /\ bursts \in Nat /\ n \in Nat
      /\ writer.active => hub # "down" /\ Gen \in 1 .. Gen
      /\ SlotCount \in Nat
  BY CursorTyped, Constants DEF HubTypeOK, HubInv
<1>2. DOMAIN writer.refs = 1 .. n /\ \A i \in 1 .. n : writer.refs[i].slot \in Slots
  <2>1. \A i \in 1 .. n : writer.refs[i] \in RefType
    BY <1>1, ElementOfSeq
  <2>2. QED
    BY <1>1, <2>1 DEF RefType
<1>3. writer.active => n <= writer.next - 1
  <2>1. RawFrames(writer.thread) \in Nat
    BY <1>1, RawFramesTyped
  <2>2. writer.active => n = RawWritten /\ writer.next >= 1
    BY <1>1 DEF HubInv
  <2>3. QED
    BY <1>1, <2>1, <2>2 DEF RawWritten
<1>4. writer.copying \/ SlotCopyBegins => writer.active /\ writer.next <= SlotCount
  <2>1. writer.active => writer.slots \in RawFrames(writer.thread) .. SlotCount
    BY DEF HubInv
  <2>2. RawFrames(writer.thread) \in Nat
    BY <1>1, RawFramesTyped
  <2>3. writer.copying \/ SlotCopyBegins => writer.active /\ writer.next <= writer.slots
    BY DEF HubInv, SlotCopyBegins
  <2>4. QED
    BY <1>1, <2>1, <2>2, <2>3
<1>5. ASSUME writer.active, NEW i \in 1 .. n
      PROVE  /\ regions[Gen][writer.refs[i].slot].data = FrameOf(bursts, i)
             /\ Ahead(c, writer.refs[i].slot) = SlotCount - (writer.next - i)
  BY <1>2, <1>5 DEF WriterGrace
<1>6. ASSUME writer.copying \/ SlotCopyBegins, NEW i \in 1 .. n
      PROVE  writer.refs[i].slot # c
  <2> DEFINE s == writer.refs[i].slot
  <2>1. s \in Slots
    BY <1>2
  <2>2. Ahead(c, s) = SlotCount - (writer.next - i)
    BY <1>4, <1>5, <1>6
  <2>3. s = c => Ahead(c, s) = 0
    BY <1>1, <2>1, AheadFacts
  <2>4. i \in Nat /\ i >= 1
    BY <1>1
  <2> HIDE DEF n, s, c
  <2>5. s # c
    BY <1>1, <1>4, <1>6, <2>2, <2>3, <2>4
  <2>6. QED
    BY <2>5 DEF s
<1>7. CASE SlotCopyBegins
  <2>1. /\ writer.active /\ writer'.active /\ UNCHANGED <<cursor, bursts>>
        /\ writer'.refs = writer.refs /\ writer'.next = writer.next
        /\ WriterCursor' = c
    BY <1>7, CopyBeginsAt DEF SlotCopyBegins
  <2>2. Gen' = Gen
    BY <1>7, TornSlot
  <2>3. ASSUME NEW i \in 1 .. n
        PROVE  /\ regions'[Gen][writer.refs[i].slot].data = FrameOf(bursts, i)
               /\ Ahead(c, writer.refs[i].slot) = SlotCount - (writer.next - i)
    <3> DEFINE s == writer.refs[i].slot
    <3>1. s \in Slots /\ s # WriterCursor /\ Gen \in 1 .. Gen
      BY <1>1, <1>2, <1>6, <1>7, <2>1
    <3>2. regions'[Gen][s].data = regions[Gen][s].data
      BY <1>7, <3>1, TornSlot
    <3>3. QED
      BY <1>5, <2>1, <3>2
  <2> HIDE DEF n, c
  <2>4. QED
    BY <1>2, <2>1, <2>2, <2>3 DEF WriterGrace
<1>8. CASE SlotCopyEnds
  <2>1. /\ writer.active /\ writer'.active /\ bursts' = bursts
        /\ writer'.next = writer.next + 1 /\ writer'.refs \in Seq(RefType)
        /\ \A i \in 1 .. n : i \in 1 .. Len(writer'.refs) /\ writer'.refs[i] = writer.refs[i]
        /\ \A i \in 1 .. Len(writer'.refs) :
             \/ i \in 1 .. n
             \/ /\ i = writer.next
                /\ WriterFrame = FrameOf(bursts, i)
                /\ writer'.refs[i].slot = WriterCursor
        /\ writer.copying
    <3>1. /\ writer.active /\ writer'.active /\ writer'.next = writer.next + 1
          /\ writer' \in WriteRecords
          /\ \A i \in 1 .. n : i \in 1 .. Len(writer'.refs) /\ writer'.refs[i] = writer.refs[i]
      BY <1>8, RefAppended
    <3>2. \A i \in 1 .. Len(writer'.refs) :
            \/ i \in 1 .. n
            \/ /\ i = writer.next
               /\ WriterFrame = FrameOf(bursts, i)
               /\ writer'.refs[i] = [slot |-> WriterCursor, seq |-> regions'[Gen][WriterCursor].seq]
      BY <1>8, RefAppended
    <3>3. bursts' = bursts /\ writer.copying
      BY <1>8 DEF SlotCopyEnds
    <3>4. writer'.refs \in Seq(RefType)
      BY <3>1 DEF WriteRecords
    <3> HIDE DEF n
    <3>5. QED
      BY <3>1, <3>2, <3>3, <3>4
  <2>2. WriterCursor' = NextCursor(c)
    <3>1. writer'.thread = writer.thread /\ cursor' = [cursor EXCEPT ![writer.thread] = NextCursor(@)]
      BY <1>8, CopyCounts, RefAppended
    <3>2. QED
      BY <1>1, <3>1 DEF WriterCursor
  <2>3. Gen' = Gen /\ Gen \in 1 .. Gen
    BY <1>1, <1>8, <2>1, PublishedInSlot
  <2>4. ASSUME NEW i \in 1 .. n
        PROVE  /\ regions'[Gen][writer'.refs[i].slot].data = FrameOf(bursts, i)
               /\ Ahead(NextCursor(c), writer'.refs[i].slot) = SlotCount - (writer'.next - i)
    <3> DEFINE s == writer.refs[i].slot
    <3>1. s \in Slots /\ s # WriterCursor /\ writer'.refs[i] = writer.refs[i]
      BY <1>2, <1>6, <2>1
    <3>2. regions'[Gen][s].data = regions[Gen][s].data
      BY <1>8, <2>3, <3>1, PublishedInSlot
    <3>3. Ahead(NextCursor(c), s) = Ahead(c, s) - 1
      BY <1>1, <3>1, AheadFacts
    <3>4. /\ regions[Gen][s].data = FrameOf(bursts, i)
          /\ Ahead(c, s) = SlotCount - (writer.next - i)
      BY <1>5, <2>1
    <3>5. Ahead(NextCursor(c), s) = SlotCount - (writer'.next - i)
      <4>1. i \in Nat
        BY <1>1
      <4> HIDE DEF s, n, c
      <4>2. QED
        BY <1>1, <2>1, <3>3, <3>4, <4>1
    <3>6. QED
      BY <3>1, <3>2, <3>4, <3>5
  <2>5. ASSUME NEW i \in 1 .. Len(writer'.refs), i = writer.next, WriterFrame = FrameOf(bursts, i),
               writer'.refs[i].slot = WriterCursor
        PROVE  /\ regions'[Gen][writer'.refs[i].slot].data = FrameOf(bursts, i)
               /\ Ahead(NextCursor(c), writer'.refs[i].slot) = SlotCount - (writer'.next - i)
    <3>1. regions'[Gen][WriterCursor].data = WriterFrame
      BY <1>1, <1>8, <2>3, PublishedInSlot
    <3>2. Ahead(NextCursor(c), WriterCursor) = SlotCount - 1
      BY <1>1, AheadFacts
    <3>3. writer'.next - i = 1
      BY <1>1, <2>1, <2>5
    <3> HIDE DEF n, c
    <3>4. QED
      BY <2>5, <3>1, <3>2, <3>3
  <2>6. DOMAIN writer'.refs = 1 .. Len(writer'.refs)
    BY <2>1
  <2> HIDE DEF n, c
  <2>7. \A i \in DOMAIN writer'.refs :
          /\ regions'[Gen][writer'.refs[i].slot].data = FrameOf(bursts, i)
          /\ Ahead(NextCursor(c), writer'.refs[i].slot) = SlotCount - (writer'.next - i)
    BY <2>1, <2>4, <2>5, <2>6
  <2>8. QED
    BY <2>1, <2>2, <2>3, <2>7 DEF WriterGrace
<1>9. CASE ~writer'.active
  BY <1>9 DEF WriterGrace
<1>10. CASE writer'.refs = <<>>
  BY <1>10 DEF WriterGrace
<1>11. CASE SlotsKept /\ UNCHANGED <<writer, bursts, cursor>> /\ Gen' = Gen
  <2>1. ASSUME writer.active, NEW i \in 1 .. n
        PROVE  regions'[Gen][writer.refs[i].slot].data = FrameOf(bursts, i)
    BY <1>1, <1>2, <1>5, <1>11, <2>1 DEF SlotsKept
  <2>2. WriterCursor' = c
    BY <1>11 DEF WriterCursor
  <2> HIDE DEF n, c
  <2>3. QED
    BY <1>2, <1>5, <1>11, <2>1, <2>2 DEF WriterGrace
<1>12. QED
  BY <1>7, <1>8, <1>9, <1>10, <1>11, GraceMoves

\* The publication has grace from the moment it is made.
LEMMA PublishedWithGrace ==
  ASSUME HubTypeOK, HubInv, WriterGrace, BurstPublished
  PROVE  LatestGrace'
<1> DEFINE t == writer.thread
           rest == SlotCount - writer.slots
<1>1. /\ writer.active /\ hub = "ready" /\ writer.next = writer.slots + 1
      /\ ~writer.copying /\ t \in Threads /\ writer.slots \in Nat
      /\ writer.refs \in Seq(RefType) /\ Len(writer.refs) \in Nat
      /\ writes \in [Threads -> Nat] /\ SlotCount \in Nat
      /\ latest' = Publication
  BY RefsPublished, Constants DEF HubTypeOK
<1>2. /\ latest'.number = bursts /\ latest'.refs = writer.refs
      /\ latest'.mark.thread = t /\ latest'.mark.slots = writer.slots /\ latest'.mark.writes = writes
  BY <1>1 DEF Publication
<1>3. ~writer'.copying /\ UNCHANGED <<hub, regions, cursor, writes>> /\ Gen' = Gen
  BY DEF BurstPublished, NotWriting, Gen
<1>4. Ended' = writes
  BY <1>1, <1>3 DEF Ended
<1>5. ASSUME NEW i \in DOMAIN writer.refs
      PROVE  /\ regions[Gen][writer.refs[i].slot].data = FrameOf(bursts, i)
             /\ Ahead(cursor[t], writer.refs[i].slot) + (writes[t] - writes[t]) >= rest + i - 1
  <2> DEFINE ahead == Ahead(cursor[t], writer.refs[i].slot)
  <2>1. /\ regions[Gen][writer.refs[i].slot].data = FrameOf(bursts, i)
        /\ ahead = SlotCount - (writer.next - i)
    BY <1>1, <1>5 DEF WriterGrace, WriterCursor
  <2>2. i \in Nat /\ writes[t] \in Nat
    BY <1>1, <1>5
  <2> HIDE DEF ahead
  <2>3. ahead + (writes[t] - writes[t]) >= rest + i - 1
    BY <1>1, <2>1, <2>2
  <2>4. QED
    BY <2>1, <2>3 DEF ahead
<1>6. Since(latest.mark)'
  <2>1. \A u \in Threads : writes[u] <= writes[u]
    BY <1>1
  <2>2. QED
    BY <1>2, <1>4, <2>1 DEF Since
<1> HIDE DEF t, rest
<1>7. GraceHolds(Gen, latest.refs, latest.number, latest.mark)'
  BY <1>2, <1>3, <1>4, <1>5 DEF GraceHolds, rest
<1>8. QED
  BY <1>6, <1>7 DEF LatestGrace

LEMMA LatestGraceInductive ==
  ASSUME HubTypeOK, HubInv, WriterGrace, LatestGrace, HubMoves
  PROVE  LatestGrace'
<1>1. CASE BurstPublished
  BY <1>1, PublishedWithGrace
<1>2. CASE latest' = NoLatest
  BY <1>2 DEF LatestGrace
<1>3. CASE latest' = latest /\ latest # NoLatest /\ ~BurstPublished
  <2>1. /\ latest.mark \in MarkType /\ latest.refs \in Seq(RefType) /\ Gen \in Nat /\ Gen >= 1
        /\ hub # "down" /\ Since(latest.mark)
        /\ GraceHolds(Gen, latest.refs, latest.number, latest.mark)
    BY <1>3, CursorTyped DEF HubTypeOK, HubInv, LatestGrace
  <2>2. PICK g, refs, number, mark :
           g = Gen /\ refs = latest.refs /\ number = latest.number /\ mark = latest.mark
    OBVIOUS
  <2>3. GraceHolds(g, refs, number, mark)' /\ Since(mark)'
    <3>1. /\ g \in 1 .. Gen /\ refs \in Seq(RefType) /\ mark \in MarkType /\ Since(mark)
          /\ GraceHolds(g, refs, number, mark)
      BY <2>1, <2>2
    <3>2. QED
      BY <3>1, GraceStays
  <2>4. g = Gen' /\ refs = latest'.refs /\ number = latest'.number /\ mark = latest'.mark
    <3>1. Gen' = Gen
      <4>1. CASE HubStarts
        BY <2>1, <4>1 DEF HubStarts
      <4>2. CASE ~HubStarts
        BY <4>2, GraceMoves, TornSlot, PublishedInSlot
      <4>3. QED
        BY <4>1, <4>2
    <3>2. QED
      BY <1>3, <2>2, <3>1
  <2>5. QED
    BY <2>3, <2>4 DEF LatestGrace, GraceHolds, GraceOver, Since
<1>4. CASE latest' = latest /\ latest = NoLatest
  BY <1>4 DEF LatestGrace
<1>5. latest' = latest \/ latest' = NoLatest \/ BurstPublished
  BY GraceMoves DEF SlotCopyBegins, SlotCopyEnds
<1>6. QED
  BY <1>1, <1>2, <1>3, <1>4, <1>5

\* Where what the watcher reads comes from.
LEMMA ReaderOrigin ==
  ASSUME WatcherTypeOK, [Next]_vars,
         w'.local.pc = "open" \/ (w'.local.pc = "read" /\ ~w'.local.replaced)
  PROVE  \/ /\ At("open") \/ (At("read") /\ ~w.local.replaced)
            /\ w'.local.gen = w.local.gen /\ w'.local.refs = w.local.refs
            /\ w'.local.number = w.local.number /\ w'.local.mark = w.local.mark
         \/ /\ latest # NoLatest /\ UNCHANGED reconHubVars
            /\ w'.local.gen = Gen /\ w'.local.refs = latest.refs
            /\ w'.local.number = latest.number /\ w'.local.mark = latest.mark
<1>1. w.last \in Nat /\ w.local \in Local
  BY DEF WatcherTypeOK, Local
<1>2. CASE UNCHANGED w
  BY <1>2 DEF At
<1>3. CASE WatcherConnects \/ PollLosesHub \/ DirectoryFails \/ BatchEnds
  <2>1. PICK pc \in {"connect", "poll"}, id \in SessionIds \union {0, sid, w.local.sid} :
           w'.local = [Disconnected EXCEPT !.pc = pc, !.sid = id]
    <3>1. CASE WatcherConnects
      <4>1. w'.local = [Disconnected EXCEPT !.pc = "poll", !.sid = sid]
        BY <3>1 DEF WatcherConnects, WatcherTypeOK
      <4>2. QED
        BY <4>1
    <3>2. CASE PollLosesHub
      <4>1. w'.local = [Disconnected EXCEPT !.pc = "connect", !.sid = w.local.sid]
        BY <3>2 DEF PollLosesHub, GoTo, WatcherTypeOK
      <4>2. QED
        BY <4>1
    <3>3. CASE DirectoryFails \/ BatchEnds
      <4>1. w'.local = [Disconnected EXCEPT !.pc = "poll", !.sid = w.local.sid]
        BY <3>3 DEF DirectoryFails, BatchEnds, GoTo, WatcherTypeOK
      <4>2. QED
        BY <4>1
    <3>4. QED
      BY <1>3, <3>1, <3>2, <3>3
  <2>2. w'.local.pc \notin {"open", "read"}
    BY <2>1 DEF Disconnected
  <2>3. QED
    BY <2>2
<1>4. CASE PollFindsBurst
  <2>1. /\ latest # NoLatest /\ UNCHANGED reconHubVars
        /\ w'.local = [w.local EXCEPT !.pc = "open", !.key = latest.id,
                         !.number = latest.number, !.refs = latest.refs,
                         !.mark = latest.mark, !.gen = Gen]
    BY <1>4 DEF PollFindsBurst
  <2>2. QED
    BY <1>1, <2>1 DEF Local
<1>5. CASE OpensRegion
  <2>1. /\ At("open")
        /\ w'.local = [w.local EXCEPT !.pc = "read", !.gen = Gen, !.next = 1,
                                      !.replaced = w.local.gen # Gen]
    BY <1>5 DEF OpensRegion, WatcherTypeOK
  <2>2. /\ w'.local.pc = "read" /\ w'.local.gen = Gen
        /\ w'.local.replaced <=> w.local.gen # Gen
        /\ w'.local.refs = w.local.refs /\ w'.local.number = w.local.number
        /\ w'.local.mark = w.local.mark
    <3> DEFINE replaced == w.local.gen # Gen
    <3>1. w'.local = [w.local EXCEPT !.pc = "read", !.gen = Gen, !.next = 1, !.replaced = replaced]
      BY <2>1
    <3>2. replaced <=> w.local.gen # Gen
      OBVIOUS
    <3> HIDE DEF replaced
    <3>3. QED
      BY <1>1, <3>1, <3>2 DEF Local
  <2>3. QED
    BY <2>1, <2>2
<1>6. CASE ReadsFrame \/ FrameSaveFails
  <2>1. CASE ReadsFrame
    <3> DEFINE good == w.local.good /\ regions[w.local.gen][w.local.refs[w.local.next].slot].data
                                         = ReferencedFrame(w.local.next)
    <3>1. At("read") /\ w' = [w EXCEPT !.local.next = @ + 1, !.local.ok = @ + 1, !.local.good = good]
      BY <2>1 DEF ReadsFrame
    <3> HIDE DEF good
    <3>2. w'.local = [w.local EXCEPT !.next = @ + 1, !.ok = @ + 1, !.good = good]
      BY <3>1 DEF WatcherTypeOK
    <3>3. /\ w'.local.pc = w.local.pc /\ w'.local.replaced = w.local.replaced
          /\ w'.local.gen = w.local.gen /\ w'.local.refs = w.local.refs
          /\ w'.local.number = w.local.number /\ w'.local.mark = w.local.mark
      <4> DEFINE local == w.local
                 next == local.next + 1
                 ok == local.ok + 1
      <4>1. local \in Local /\ w'.local = [local EXCEPT !.next = next, !.ok = ok, !.good = good]
        BY <1>1, <3>2
      <4> HIDE DEF next, ok
      <4>2. QED
        BY <4>1 DEF Local
    <3>4. QED
      BY <3>1, <3>3 DEF At
  <2>2. CASE FrameSaveFails
    <3>1. At("read") /\ w'.local = [w.local EXCEPT !.next = @ + 1]
      BY <2>2 DEF FrameSaveFails, WatcherTypeOK
    <3>2. QED
      BY <1>1, <3>1 DEF Local, At
  <2>3. QED
    BY <1>6, <2>1, <2>2
<1>7. QED
  <2>1. CASE PollerStep
    BY <1>2, <2>1 DEF PollerStep, PollerStarts, PollerTakes
  <2>2. QED
    BY <1>2, <1>3, <1>4, <1>5, <1>6, <2>1, WatcherCases
       DEF WatcherStep, WatcherFailure, watcherVars

LEMMA ReaderGraceInductive ==
  ASSUME HubTypeOK, HubInv, WatcherTypeOK, WatcherInv, WriterGrace, LatestGrace, ReaderGrace,
         setup \in Setups, [Next]_vars
  PROVE  ReaderGrace'
<1> SUFFICES ASSUME w'.local.pc = "open" \/ (w'.local.pc = "read" /\ ~w'.local.replaced)
             PROVE  (/\ Since(w.local.mark)
                     /\ GraceHolds(w.local.gen, w.local.refs, w.local.number, w.local.mark))'
    BY DEF ReaderGrace, At
<1>0. HubMoves
  BY HubCases
<1>1. CASE /\ At("open") \/ (At("read") /\ ~w.local.replaced)
           /\ w'.local.gen = w.local.gen /\ w'.local.refs = w.local.refs
           /\ w'.local.number = w.local.number /\ w'.local.mark = w.local.mark
  <2>1. /\ w.local.mark \in MarkType /\ w.local.refs \in Seq(RefType) /\ w.local.gen \in 1 .. Gen
        /\ Since(w.local.mark)
        /\ GraceHolds(w.local.gen, w.local.refs, w.local.number, w.local.mark)
    <3>1. w.local \in Local
      BY DEF WatcherTypeOK, Local
    <3>2. QED
      BY <1>1, <3>1 DEF Local, WatcherInv, ReaderGrace
  <2>2. PICK g, refs, number, mark :
           /\ g = w.local.gen /\ refs = w.local.refs
           /\ number = w.local.number /\ mark = w.local.mark
    OBVIOUS
  <2>3. GraceHolds(g, refs, number, mark)' /\ Since(mark)'
    <3>1. /\ g \in 1 .. Gen /\ refs \in Seq(RefType) /\ mark \in MarkType /\ Since(mark)
          /\ GraceHolds(g, refs, number, mark)
      BY <2>1, <2>2
    <3>2. QED
      BY <1>0, <3>1, GraceStays
  <2>4. /\ g = w'.local.gen /\ refs = w'.local.refs
        /\ number = w'.local.number /\ mark = w'.local.mark
    BY <1>1, <2>2
  <2>5. QED
    BY <2>3, <2>4 DEF GraceHolds, GraceOver, Since
<1>2. CASE /\ latest # NoLatest /\ UNCHANGED reconHubVars
           /\ w'.local.gen = Gen /\ w'.local.refs = latest.refs
           /\ w'.local.number = latest.number /\ w'.local.mark = latest.mark
  <2>1. LatestGrace' /\ latest' = latest /\ Gen' = Gen
    BY <1>0, <1>2, LatestGraceInductive DEF reconHubVars, Gen
  <2>2. /\ Since(latest.mark)'
        /\ GraceHolds(Gen, latest.refs, latest.number, latest.mark)'
    BY <1>2, <2>1 DEF LatestGrace
  <2>3. /\ w'.local.gen = Gen' /\ w'.local.refs = latest'.refs
        /\ w'.local.number = latest'.number /\ w'.local.mark = latest'.mark
    BY <1>2, <2>1
  <2>4. QED
    BY <2>2, <2>3 DEF GraceHolds, GraceOver, Since
<1>3. QED
  BY <1>1, <1>2, ReaderOrigin

LEMMA GraceInductive ==
  ASSUME ReconInv, GraceInv, [Next]_vars
  PROVE  GraceInv'
<1>1. HubTypeOK /\ HubInv /\ WatcherTypeOK /\ WatcherInv /\ setup \in Setups
  BY DEF ReconInv, TypeOK
<1>2. HubMoves
  BY <1>1, HubCases
<1>3. WriterGrace /\ LatestGrace /\ ReaderGrace
  BY DEF GraceInv
<1>4. WriterGrace' /\ LatestGrace' /\ ReaderGrace'
  BY <1>1, <1>2, <1>3, WriterGraceInductive, LatestGraceInductive, ReaderGraceInductive
<1>5. QED
  BY <1>4 DEF GraceInv

LEMMA GraceInitially == Init => GraceInv
<1> SUFFICES ASSUME Init PROVE GraceInv
    OBVIOUS
<1>1. ~writer.active /\ latest = NoLatest
  BY DEF Init, HubInit, NotWriting
<1>2. w.local.pc = "connect"
  BY DEF Init, WatcherInit, Disconnected
<1>3. QED
  BY <1>1, <1>2 DEF GraceInv, WriterGrace, LatestGrace, ReaderGrace, At

\* While the grace of a publication lasts, a read finds its frame.
LEMMA ReadFindsFrame ==
  ASSUME ReconInv, GraceInv, [Next]_vars
  PROVE  ReadsFrame /\ w.local.good /\ ~w'.local.good =>
           w.local.replaced \/ GraceOver(w.local.mark)
<1> SUFFICES ASSUME ReadsFrame, w.local.good, ~w'.local.good, ~w.local.replaced,
                    ~GraceOver(w.local.mark)
             PROVE  FALSE
    OBVIOUS
<1> DEFINE n == Len(w.local.refs)
           frame == regions[w.local.gen][w.local.refs[w.local.next].slot].data
           good == w.local.good /\ frame = ReferencedFrame(w.local.next)
<1>1. /\ WatcherTypeOK /\ WatcherInv /\ w.local \in Local /\ w.local.next \in Nat
      /\ At("read") /\ w.local.next <= n
  <2>1. WatcherTypeOK /\ WatcherInv
    BY DEF ReconInv, TypeOK
  <2>2. w.local \in Local
    BY <2>1 DEF WatcherTypeOK, Local
  <2>3. w.local.next \in 0 .. FramesPerBurst + 1
    BY <2>2 DEF Local
  <2>4. w.local.next \in Nat
    BY <2>3, Constants
  <2>5. At("read") /\ w.local.next <= n
    BY DEF ReadsFrame
  <2>6. QED
    BY <2>1, <2>2, <2>4, <2>5
<1>3. GraceHolds(w.local.gen, w.local.refs, w.local.number, w.local.mark)
  BY <1>1 DEF GraceInv, ReaderGrace
<1>4. w.local.next \in DOMAIN w.local.refs
  <2>1. n \in Nat /\ w.local.next >= 1 /\ DOMAIN w.local.refs = 1 .. n
    <3>1. w.local.refs \in Seq(RefType) /\ w.local.next \in 1 .. n + 1
      BY <1>1 DEF WatcherInv, Local
    <3>2. QED
      BY <3>1
  <2>2. QED
    BY <1>1, <2>1
<1>5. frame = ReferencedFrame(w.local.next)
  BY <1>3, <1>4 DEF GraceHolds, ReferencedFrame
<1>6. w' = [w EXCEPT !.local.next = @ + 1, !.local.ok = @ + 1, !.local.good = good]
  BY DEF ReadsFrame
<1>7. good
  BY <1>5
<1> HIDE DEF good
<1>8. w'.local = [w.local EXCEPT !.next = @ + 1, !.ok = @ + 1, !.good = good]
  BY <1>1, <1>6 DEF WatcherTypeOK
<1>9. w'.local.good = good
  BY <1>1, <1>8 DEF Local
<1>10. QED
  BY <1>7, <1>9

\* What the burst watcher reads without a lock and without comparing a seq
\* (recon_hub_burst_receiver.cpp) is the frame of the publication GetDepth answered with, as long
\* as no thread of the hub but the one that wrote it has begun a slot since, and that one no more
\* than SlotCount less the slots it took.  This holds whatever threads, burst lengths, result
\* slots, rings, restarts and closed sessions there are; the one other way to read a wrong frame is
\* that the region was replaced before it was opened.
THEOREM ReadersHaveGrace == Spec => ReadWithinGraceIsRight
<1>1. Init => ReconInv /\ GraceInv
  BY ReconInitial, GraceInitially
<1>2. ReconInv /\ GraceInv /\ [Next]_vars => (ReconInv /\ GraceInv)'
  BY ReconInductive, GraceInductive
<1>3. ReconInv /\ GraceInv /\ [Next]_vars =>
        [ReadsFrame /\ w.local.good /\ ~w'.local.good =>
           w.local.replaced \/ GraceOver(w.local.mark)]_vars
  BY ReadFindsFrame
<1>4. QED
  BY <1>1, <1>2, <1>3, PTL DEF Spec, ReadWithinGraceIsRight
=============================================================================
