------------------------------ MODULE ShmRing ------------------------------
(***************************************************************************)
(* The shared memory ring of libs/ipc_shmem as a value: the slots of the   *)
(* region, and what one call of ShmRingBuffer does to it or returns.       *)
(*                                                                         *)
(* A slot keeps the header field seq_publish and the payload the header    *)
(* points at.  Offsets and sizes follow from the slot index (every slot    *)
(* owns a fixed part of the region), so they are not kept apart from it.   *)
(* The write cursor is `static thread_local` in the code: it belongs to a  *)
(* thread, not to the ring, and is passed in by the caller.                *)
(***************************************************************************)
EXTENDS Integers

CONSTANTS
  SlotCount,   \* ShmGlobalHeader.slot_count, kDefaultHubRingSlotCount in the code
  NoPayload    \* content of a slot that was never written (the region is zeroed)

ASSUME SlotCountAssumption == SlotCount \in Nat \ {0}

Slots == 0 .. SlotCount - 1

\* CreateOrOpen with create_if_missing: the region is removed, made anew and zeroed.
CreatedRing == [s \in Slots |-> [seq |-> 0, data |-> NoPayload]]

\* Mutant of NextCursor: the post-increment is lost.
StuckCursor(cursor) == cursor % SlotCount

\* Mutant of NextCursor: the index is not reduced by slot_count.
UnboundedCursor(cursor) == cursor + 1

\* s_next++ % slot_count; slot_count divides 2^32, so the wrap of the uint32 is unseen.
NextCursor(cursor) == IF cursor + 1 = SlotCount THEN 0 ELSE cursor + 1

\* Mutant of PublishedSlot: seq_publish is set once and then kept.
PublishedOnce(slot, payload) ==
  [seq |-> IF slot.seq = 0 THEN 1 ELSE slot.seq, data |-> payload]

\* The header update of TryWriteNextSlot: seq_publish counts the writes of this slot.
PublishedSlot(slot, payload) == [seq |-> slot.seq + 1, data |-> payload]

\* TryWriteNextSlot when the payload fits: only the slot under the cursor changes.
TryWriteNextSlot(ring, cursor, payload) ==
  [ring EXCEPT ![cursor] = PublishedSlot(@, payload)]

\* TryReadSlot: an unpublished slot is refused, otherwise header and payload are returned.
Readable(ring, slot) == slot \in Slots /\ ring[slot].seq # 0

\* MaxPublishedSeq: the largest seq_publish over the slots.
MaxPublishedSeq(ring) ==
  CHOOSE m \in {ring[s].seq : s \in Slots} : \A s \in Slots : ring[s].seq <= m

\* TryReadLatestSlot scans upwards with >=, so among equal seqs the last slot wins.
LatestSlot(ring) ==
  CHOOSE s \in Slots :
    /\ ring[s].seq = MaxPublishedSeq(ring)
    /\ \A t \in Slots : ring[t].seq = ring[s].seq => t <= s
=============================================================================
