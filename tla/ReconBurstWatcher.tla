------------------------- MODULE ReconBurstWatcher -------------------------
(***************************************************************************)
(* The two readers of recon_service: the burst watcher thread              *)
(* (recon_hub_burst_receiver.cpp, HubBurstWatcherThreadMain), which polls  *)
(* GetDepth(0) and saves the raw frames of every new capture id, and the   *)
(* poller (main.cpp, main), which takes the slot with the largest seq.     *)
(* Both read memory the hub may be writing.                                *)
(***************************************************************************)
EXTENDS ReconHub

CONSTANT
  MaxSaveFailures  \* bound: frames or directories that cannot be written to disk

ASSUME WatcherAssumption == MaxSaveFailures \in Nat

VARIABLES
  w,             \* the watcher thread's locals
  poller,        \* the main loop's locals: the region it mapped and last_seen_seq
  saved,         \* history: batches written to disk, the id in their names and the publication
  save_failures  \* history: saves that failed

watcherVars == <<w, poller, saved, save_failures>>

Disconnected == [pc |-> "connect", sid |-> 0, key |-> 0, number |-> 0, refs |-> <<>>,
                 gen |-> 0, next |-> 0, ok |-> 0, mark |-> NoMark, good |-> TRUE,
                 replaced |-> FALSE]
NotMapped == 0

WatcherInit ==
  /\ w = [local |-> Disconnected, last |-> 0]
  /\ poller = [gen |-> NotMapped, started |-> FALSE, seen |-> 0]
  /\ saved = <<>>
  /\ save_failures = 0

At(pc) == w.local.pc = pc
GoTo(pc) == w' = [w EXCEPT !.local = [Disconnected EXCEPT !.pc = pc, !.sid = w.local.sid]]

\* Connect to the hub: it restores the session if there is none.  A hub that does not answer
\* is tried again after the poll interval.
WatcherConnects ==
  /\ At("connect")
  /\ hub # "down"
  /\ hub' = "ready"
  /\ w' = [w EXCEPT !.local = [Disconnected EXCEPT !.pc = "poll", !.sid = sid]]
  /\ UNCHANGED <<sid, regions, cursor, writer, latest, bursts, writes, poller, saved, save_failures>>

\* GetDepth fails at the transport, or the session id is another one (code 3): connect again.
PollLosesHub ==
  /\ At("poll")
  /\ hub = "down" \/ (hub = "ready" /\ w.local.sid # sid)
  /\ GoTo("connect")
  /\ UNCHANGED <<reconHubVars, poller, saved, save_failures>>

\* Mutant of LastSavedFor: a smaller id is not taken for a restarted hub.
LastSavedKept(last, key) == last

\* capture_key < last_saved_capture_id: the hub restarted, forget the last id.
LastSavedFor(last, key) == IF key < last THEN 0 ELSE last

\* GetDepth answers a publication with a new id.  Codes 8 and 1011 and an id already saved
\* make the loop continue without a change.
PollFindsBurst ==
  LET last == LastSavedFor(w.last, latest.id)
  IN /\ At("poll")
     /\ hub = "ready" /\ w.local.sid = sid
     /\ ~writer.active                     \* GetDepth takes mu_, a burst write holds it
     /\ latest # NoLatest
     /\ latest.id > last
     /\ w' = [last |-> last,
              local |-> [w.local EXCEPT !.pc = "open", !.key = latest.id,
                         !.number = latest.number, !.refs = latest.refs,
                         !.mark = latest.mark, !.gen = Gen]]
     /\ UNCHANGED <<reconHubVars, poller, saved, save_failures>>

\* The region is opened by name and the batch directory made: `gen` is now what was mapped,
\* which is not the ring the answer was about if the hub restarted in between.
OpensRegion ==
  /\ At("open")
  /\ w' = [w EXCEPT !.local.pc = "read", !.local.gen = Gen, !.local.next = 1,
                    !.local.replaced = w.local.gen # Gen]
  /\ UNCHANGED <<reconHubVars, poller, saved, save_failures>>

\* create_directories throws: nothing is saved, the next poll tries again.
DirectoryFails ==
  /\ At("open")
  /\ save_failures < MaxSaveFailures
  /\ save_failures' = save_failures + 1
  /\ GoTo("poll")
  /\ UNCHANGED <<reconHubVars, poller, saved>>

ReferencedFrame(i) == FrameOf(w.local.number, i)

\* The slots of a publication are consecutive: the thread that wrote it is back at the first of
\* them after SlotCount - slots further ones.  Until then a reader has grace, unless another thread
\* writes: its cursor may be at any slot.
GraceOver(mark) ==
  \/ writes[mark.thread] - mark.writes[mark.thread] > SlotCount - mark.slots
  \/ \E t \in Threads \ {mark.thread} : writes[t] # mark.writes[t]

\* TryReadMappedRange checks the range only; whatever the range holds is written to a file.
ReadsFrame ==
  LET ref == w.local.refs[w.local.next]
      frame == regions[w.local.gen][ref.slot].data
  IN /\ At("read")
     /\ w.local.next <= Len(w.local.refs)
     /\ w' = [w EXCEPT !.local.next = @ + 1, !.local.ok = @ + 1,
                       !.local.good = @ /\ frame = ReferencedFrame(w.local.next)]
     /\ UNCHANGED <<reconHubVars, poller, saved, save_failures>>

\* A file that cannot be opened or written is skipped.
FrameSaveFails ==
  /\ At("read")
  /\ w.local.next <= Len(w.local.refs)
  /\ save_failures < MaxSaveFailures
  /\ save_failures' = save_failures + 1
  /\ w' = [w EXCEPT !.local.next = @ + 1]
  /\ UNCHANGED <<reconHubVars, poller, saved>>

\* Mutant of LastSavedAfter: the id is not remembered, so the burst is saved at every poll.
LastSavedForgotten(ok, last, key) == last

\* ok_n > 0: one frame on disk counts as saved.
LastSavedAfter(ok, last, key) == IF ok > 0 THEN key ELSE last

BatchEnds ==
  /\ At("read")
  /\ w.local.next > Len(w.local.refs)
  /\ saved' = IF w.local.ok = 0 THEN saved
              ELSE Append(saved, [id |-> w.local.key, number |-> w.local.number])
  /\ w' = [last |-> LastSavedAfter(w.local.ok, w.last, w.local.key),
           local |-> [Disconnected EXCEPT !.pc = "poll", !.sid = w.local.sid]]
  /\ UNCHANGED <<reconHubVars, poller, save_failures>>

WatcherStep ==
  \/ WatcherConnects \/ PollLosesHub \/ PollFindsBurst
  \/ OpensRegion \/ ReadsFrame \/ BatchEnds
WatcherFailure == DirectoryFails \/ FrameSaveFails

\* main maps the region once, before its loop; if the hub has not created it yet, the loop
\* runs without a region for ever.
PollerStarts ==
  /\ ~poller.started
  /\ poller' = [poller EXCEPT !.started = TRUE, !.gen = Gen]
  /\ UNCHANGED <<reconHubVars, w, saved, save_failures>>

\* Mutant of NewerSeq: the comparison skips one.
NewerSeqOffByOne(seq, seen) == seq > seen + 1

\* meta.seq_publish > last_seen_seq
NewerSeq(seq, seen) == seq > seen

PollerTakes ==
  LET ring == regions[poller.gen]
      slot == LatestSlot(ring)
  IN /\ poller.started
     /\ poller.gen # NotMapped
     /\ Readable(ring, slot)
     /\ NewerSeq(ring[slot].seq, poller.seen)
     /\ poller' = [poller EXCEPT !.seen = ring[slot].seq]
     /\ UNCHANGED <<reconHubVars, w, saved, save_failures>>

PollerStep == PollerStarts \/ PollerTakes

WatcherTypeOK ==
  /\ w \in [last : Nat,
           local : [pc : {"connect", "poll", "open", "read"}, sid : SessionIds \union {0}, key : Nat,
                    number : Nat, refs : Seq(RefType), gen : 0 .. MaxStarts,
                    next : 0 .. FramesPerBurst + 1, ok : 0 .. FramesPerBurst, mark : MarkType,
                    good : BOOLEAN, replaced : BOOLEAN]]
  /\ poller \in [gen : 0 .. MaxStarts, started : BOOLEAN, seen : Nat]
  /\ saved \in Seq([id : Nat, number : Nat])
  /\ save_failures \in 0 .. MaxSaveFailures

\* No publication is saved twice, whatever is restarted, closed or reused: last_saved_capture_id
\* keeps the watcher from taking at the next poll what it has taken at this one.
SavedOnce ==
  \A i, j \in DOMAIN saved : saved[i].number = saved[j].number => i = j
=============================================================================
