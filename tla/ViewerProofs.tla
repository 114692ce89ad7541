----------------------------- MODULE ViewerProofs -----------------------------
(***************************************************************************)
(* Proofs about Viewer, for every ring length, number of captures, their   *)
(* lengths and the threads that write them, starts of the hub, tasks and   *)
(* entries of the combo box: whose pixels a frame holds, what the raw      *)
(* image page shows, which projector_op a capture is asked for with, and   *)
(* that nothing comes in from a stopped stream.                            *)
(***************************************************************************)
EXTENDS Viewer, SequenceTheorems, TLAPS

-----------------------------------------------------------------------------
\* The slot of the running region holds that capture, and the thread that wrote it does not come
\* back to it before it has come back to the first of the capture's slots.
InRing(slot, number) ==
  LET m == made[number]
  IN /\ memory[Starts][slot].seq # 0
     /\ memory[Starts][slot].data = number
     /\ Ahead(cursor[m.thread], slot) + (Written - m.after) >= SlotCount - m.length

SlotValue == [seq : Nat, data : (1 .. MaxCaptures) \cup {NoPayload}]
Region == [Slots -> SlotValue]
Publication == [slots : SUBSET Slots, number : 1 .. MaxCaptures]
CaptureMade == [id : 1 .. MaxCaptures, thread : Threads, length : Lengths, after : Nat]

HubTypes ==
  /\ hub \in [up : BOOLEAN, open : BOOLEAN]
  /\ memory \in Seq(Region)
  /\ cursor \in [Threads -> Slots]
  /\ made \in Seq(CaptureMade)
  /\ publications \in [DOMAIN publications -> Publication]
  /\ DOMAIN publications \subseteq 1 .. MaxCaptures

\* The control of the hub: what was published has a region, and only a hub that runs publishes.
HubControl ==
  /\ Captures <= MaxCaptures
  /\ hub.open => hub.up
  /\ hub.up => Starts >= 1
  /\ Captures > 0 => Starts >= 1
  /\ DOMAIN publications # {} => hub.up
  /\ \A s \in Slots : \A g \in 1 .. Starts :
       memory[g][s].seq # 0 => memory[g][s].data \in 1 .. MaxCaptures

\* A publication is the last capture made under its id, and is in the ring until another thread
\* writes or its own comes round.
PublicationsInv ==
  \A i \in DOMAIN publications :
    LET p == publications[i]
    IN /\ p.number <= Captures
       /\ made[p.number].id = i
       /\ \A n \in p.number + 1 .. Captures : made[n].id # i
       /\ Kept(p.number) => \A s \in p.slots : InRing(s, p.number)

HubInv == HubTypes /\ HubControl /\ PublicationsInv

WorkerPcs == {"none", "queued", "done", "looping", "ended", "capturing", "listing", "querying",
              "reading", "pushing"}
Worker == [pc : WorkerPcs, id : 0 .. MaxCaptures, own : 0 .. MaxCaptures, slot : Slots,
           frame : Frame, certain : BOOLEAN, stray : BOOLEAN]
Adapter == [sdk : [connected : BOOLEAN, last : 0 .. MaxCaptures], op : Ops, ring : Nat, since : Nat,
            stop : BOOLEAN]
Answered == {"listing", "querying", "reading"}

ViewerTypes ==
  /\ nextId \in 1 .. MaxCaptures + 1
  /\ worker \in [Workers -> Worker]
  /\ adapter \in Adapter
  /\ adapter.ring <= Starts /\ adapter.since <= Starts
  /\ combo \in Ops
  /\ held \in {"current", "destroyed"}
  /\ running \in BOOLEAN /\ panel \in BOOLEAN
  /\ latest \in Frame
  /\ pending \in 0 .. 2
  /\ album \in 0 .. MaxCaptures
  /\ enabled \subseteq Buttons

\* What an answered capture of a thread has to do with the hub: it was made under its id, and what
\* is read is that capture as long as nothing has come between.
WorkerHolds(w) ==
  /\ worker[w].pc = "capturing" => worker[w].id \in 1 .. MaxCaptures
  /\ worker[w].pc \in Answered =>
       /\ worker[w].id \in 1 .. MaxCaptures
       /\ worker[w].own \in 1 .. Captures
       /\ made[worker[w].own].id = worker[w].id
  /\ worker[w].pc = "reading" /\ Certain(w) => InRing(worker[w].slot, worker[w].own)
  /\ worker[w].pc # "pushing" => ~worker[w].certain
  /\ worker[w].certain => worker[w].frame.number = worker[w].own

WorkerInv == \A w \in Workers : WorkerHolds(w)

\* Where the main thread is says what the others can be doing, and what the adapter is: while
\* a new one is dialled nobody holds its mutex_, and the region an adapter has mapped is not
\* older than its connection.
MainInv ==
  /\ ui = "dialling" => adapter = NewAdapter /\ held = "destroyed" /\ Free
  /\ ui = "crashed" => \A w \in Workers : worker[w].pc = "none"
  /\ ui = "capture" => \E t \in Tasks : worker[t].pc = "none"
  /\ adapter.ring # 0 => adapter.since <= adapter.ring

\* The adapter has the projector_op the combo box shows, or is about to be told.
OpInv == adapter.sdk.connected /\ ui # "crashed" => adapter.op = combo \/ ui = "setting_op"

\* The stream's thread works for the adapter that AcquisitionController has, and is told to end
\* only by a handler that then waits for it.
StreamInv ==
  worker[Stream].pc \in {"looping", "capturing", "listing", "querying", "reading", "pushing"} =>
    /\ running
    /\ held = "current"
    /\ adapter.stop => ui \in {"stopping", "disconnecting", "replacing"}

ControlInv == MainInv /\ OpInv /\ StreamInv /\ AlbumInSync

ViewerInv == HubInv /\ ViewerTypes /\ WorkerInv /\ ControlInv

-----------------------------------------------------------------------------
\* Facts about the constants.
LEMMA Constants ==
  /\ SlotCount \in Nat \ {0} /\ MaxCaptures \in Nat \ {0} /\ MaxStarts \in Nat \ {0}
  /\ 0 \in Ops /\ 0 \in Slots
  /\ Stream \in Workers /\ Tasks \subseteq Workers
  <1>1. MaxCaptures \in Nat \ {0} /\ MaxStarts \in Nat \ {0}
    BY SdkClientAssumption
  <1>2. SlotCount \in Nat \ {0} /\ 0 \in Slots
    BY SlotCountAssumption DEF Slots
  <1>3. Stream \in Workers /\ Tasks \subseteq Workers
    BY DEF Workers
  <1> QED
    BY <1>1, <1>2, <1>3, ViewerAssumption

\* The stream's name is no task's.
LEMMA StreamIsNoTask == Stream \notin Tasks
BY ViewerAssumption

-----------------------------------------------------------------------------
\* What a step does to the hub.
HubMoves ==
  \/ UNCHANGED hubVars
  \/ HubStarts
  \/ HubStops
  \/ SessionOpens
  \/ SessionCloses
  \/ \E id \in 1 .. MaxCaptures : Publishes(id)

\* The environment of the viewer only moves the hub.
LEMMA EnvironmentMoves == Environment => HubMoves
BY DEF Environment, OtherClient, HubMoves

\* A start adds a region.
LEMMA RegionAdded ==
  ASSUME HubTypes, HubStarts
  PROVE  /\ Starts' = Starts + 1
         /\ memory' \in Seq(Region)
         /\ \A g \in 1 .. Starts : memory'[g] = memory[g]
         /\ memory'[Starts'] = CreatedRing
  <1>1. CreatedRing \in Region
    BY DEF CreatedRing, Region, SlotValue
  <1>2. memory \in Seq(Region) /\ memory' = Append(memory, CreatedRing)
    BY DEF HubTypes, HubStarts
  <1> QED
    BY <1>1, <1>2 DEF Starts

\* A length is a number of slots the ring has.
LEMMA LengthsTyped == ASSUME NEW l \in Lengths PROVE l \in 1 .. SlotCount
BY SdkClientAssumption

\* The counts of regions and captures are numbers.
LEMMA CountsTyped == ASSUME HubTypes PROVE Starts \in Nat /\ Captures \in Nat
BY DEF HubTypes, Starts, Captures

\* The count of the slots written is a number.
LEMMA WrittenTyped == ASSUME HubTypes PROVE Written \in Nat
  <1>1. CASE made = <<>>
    BY <1>1 DEF Written
  <1>2. CASE made # <<>>
    <2>1. Captures \in 1 .. Len(made) /\ made \in Seq(CaptureMade)
      BY <1>2, EmptySeq, LenProperties DEF HubTypes, Captures
    <2>2. made[Captures] \in CaptureMade
      BY <2>1, ElementOfSeq
    <2>3. Written = made[Captures].after
      BY <1>2 DEF Written
    <2> QED
      BY <2>2, <2>3 DEF CaptureMade
  <1> QED
    BY <1>1, <1>2

\* The cursor after a capture is a slot, the slots that are not the capture's are as many steps
\* nearer to it, and the capture's are a round less its length away.
LEMMA CursorMoves ==
  ASSUME NEW c \in Slots, NEW l \in 1 .. SlotCount
  PROVE  /\ CursorAfter(c, l) \in Slots
         /\ \A s \in Slots :
              /\ Ahead(c, s) \in Int
              /\ ~(Ahead(c, s) < l) => Ahead(CursorAfter(c, l), s) = Ahead(c, s) - l
              /\ Ahead(c, s) < l => Ahead(CursorAfter(c, l), s) >= SlotCount - l
  <1>1. c \in Int /\ l \in Int /\ SlotCount \in Int /\ 0 <= c /\ c < SlotCount /\ 1 <= l /\ l <= SlotCount
    BY SlotCountAssumption DEF Slots
  <1>2. CursorAfter(c, l) \in Slots
    BY <1>1 DEF CursorAfter, Slots
  <1>3. ASSUME NEW s \in Slots
        PROVE  /\ Ahead(c, s) \in Int
               /\ ~(Ahead(c, s) < l) => Ahead(CursorAfter(c, l), s) = Ahead(c, s) - l
               /\ Ahead(c, s) < l => Ahead(CursorAfter(c, l), s) >= SlotCount - l
    <2>1. s \in Int /\ 0 <= s /\ s < SlotCount
      BY <1>1 DEF Slots
    <2> QED
      BY <1>1, <2>1 DEF CursorAfter, Ahead
  <1> QED
    BY <1>2, <1>3

\* A capture is written to the slots from the thread's cursor on, and to no other.
LEMMA SlotsWritten ==
  ASSUME HubTypes, HubControl,
         NEW id \in 1 .. MaxCaptures, NEW t \in Threads, NEW l \in Lengths, WritesCapture(id, t, l)
  PROVE  /\ Starts' = Starts /\ Starts >= 1
         /\ memory' \in Seq(Region)
         /\ \A g \in 1 .. Starts : \A s \in Slots :
              ~(g = Starts /\ s \in SlotsFrom(cursor[t], l)) => memory'[g][s] = memory[g][s]
         /\ \A s \in SlotsFrom(cursor[t], l) :
              memory'[Starts][s].seq # 0 /\ memory'[Starts][s].data = Captures + 1
         /\ Captures' = Captures + 1 /\ Captures' <= MaxCaptures
         /\ made' \in Seq(CaptureMade)
         /\ \A n \in 1 .. Captures : made'[n] = made[n]
         /\ made'[Captures'].id = id /\ made'[Captures'].thread = t
         /\ made'[Captures'].length = l /\ made'[Captures'].after = Written'
         /\ Written' = Written + l
         /\ cursor' \in [Threads -> Slots]
         /\ cursor'[t] = CursorAfter(cursor[t], l)
  <1> USE Constants
  <1> DEFINE ring == memory[Starts]
             slots == SlotsFrom(cursor[t], l)
             number == Captures + 1
             written == [s \in Slots |-> IF s \in slots THEN PublishedSlot(ring[s], number) ELSE ring[s]]
             m == [id |-> id, thread |-> t, length |-> l, after |-> Written + l]
             after == CursorAfter(cursor[t], l)
  <1>1. /\ memory \in Seq(Region) /\ cursor \in [Threads -> Slots] /\ cursor[t] \in Slots
        /\ Starts >= 1 /\ Starts \in Nat /\ made \in Seq(CaptureMade)
        /\ Captures \in Nat /\ number \in 1 .. MaxCaptures
    BY DEF HubTypes, HubControl, WritesCapture, Starts, Captures
  <1>2. l \in 1 .. SlotCount /\ Written \in Nat
    BY LengthsTyped, WrittenTyped
  <1>3. ring \in Region
    BY <1>1, ElementOfSeq DEF Starts
  <1>4. slots \subseteq Slots
    BY DEF SlotsFrom
  <1>5. memory' = [memory EXCEPT ![Starts] = written]
    BY DEF WritesCapture
  <1>6. made' = Append(made, m) /\ cursor' = [cursor EXCEPT ![t] = after]
    BY DEF WritesCapture
  <1> HIDE DEF slots, number, after
  <1>7. ASSUME NEW s \in Slots
        PROVE  /\ PublishedSlot(ring[s], number) \in SlotValue
               /\ PublishedSlot(ring[s], number).seq # 0
               /\ PublishedSlot(ring[s], number).data = number
    <2>1. ring[s] \in SlotValue
      BY <1>3 DEF Region
    <2> QED
      BY <1>1, <2>1 DEF PublishedSlot, SlotValue
  <1>8. /\ written \in Region
        /\ \A s \in Slots : s \notin slots => written[s] = ring[s]
        /\ \A s \in slots : written[s].seq # 0 /\ written[s].data = number
    BY <1>3, <1>4, <1>7 DEF Region
  <1> HIDE DEF written
  <1>9. /\ memory' \in Seq(Region) /\ Len(memory') = Len(memory)
        /\ memory'[Starts] = written
        /\ \A g \in 1 .. Starts : g # Starts => memory'[g] = memory[g]
    BY <1>1, <1>5, <1>8, ExceptSeq DEF Starts
  <1>10. Starts' = Starts
    BY <1>9 DEF Starts
  <1>11. ASSUME NEW g \in 1 .. Starts, NEW s \in Slots, ~(g = Starts /\ s \in slots)
         PROVE  memory'[g][s] = memory[g][s]
    BY <1>8, <1>9, <1>11
  <1>12. \A s \in slots : memory'[Starts][s].seq # 0 /\ memory'[Starts][s].data = number
    BY <1>8, <1>9
  <1>13. m \in CaptureMade
    BY <1>2 DEF CaptureMade
  <1>14. m.id = id /\ m.thread = t /\ m.length = l /\ m.after = Written + l
    OBVIOUS
  <1> HIDE DEF m
  <1>15. /\ Captures' = Captures + 1
         /\ made' \in Seq(CaptureMade)
         /\ \A n \in 1 .. Captures : made'[n] = made[n]
         /\ made'[Captures + 1] = m
         /\ made' # <<>>
    BY <1>1, <1>6, <1>13 DEF Captures
  <1>16. Written' = Written + l
    BY <1>14, <1>15 DEF Written
  <1>17. /\ made'[Captures'].id = id /\ made'[Captures'].thread = t
         /\ made'[Captures'].length = l /\ made'[Captures'].after = Written'
    BY <1>14, <1>15, <1>16
  <1>18. after \in Slots
    BY <1>1, <1>2, CursorMoves DEF after
  <1>19. cursor' \in [Threads -> Slots] /\ cursor'[t] = after
    BY <1>1, <1>6, <1>18
  <1>20. Captures' <= MaxCaptures /\ number = Captures + 1
    BY <1>1, <1>15 DEF number
  <1> QED
    BY <1>1, <1>9, <1>10, <1>11, <1>12, <1>15, <1>16, <1>17, <1>19, <1>20 DEF slots, after

\* A session that ends takes its publications with it.
LEMMA NothingPublishedTyped ==
  /\ DOMAIN NothingPublished = {}
  /\ NothingPublished \in [DOMAIN NothingPublished -> Publication]
BY DEF NothingPublished

\* A capture is kept less and less.
LEMMA KeptBefore ==
  ASSUME HubTypes, HubControl, NEW id \in 1 .. MaxCaptures, NEW t \in Threads, NEW l \in Lengths,
         WritesCapture(id, t, l), NEW number \in 1 .. Captures, Kept(number)'
  PROVE  /\ Kept(number) /\ made[number].thread = t
         /\ Written + l - made[number].after <= SlotCount - made[number].length
  <1>1. /\ Captures' = Captures + 1 /\ Captures \in Nat
        /\ \A n \in 1 .. Captures : made'[n] = made[n]
        /\ made'[Captures'].thread = t
        /\ Written' = Written + l
    BY SlotsWritten, CountsTyped
  <1>2. /\ \A n \in number + 1 .. Captures' : made'[n].thread = made'[number].thread
        /\ Written' - made'[number].after <= SlotCount - made'[number].length
    BY DEF Kept
  <1>3. made'[number] = made[number]
    BY <1>1
  <1>4. made[number].thread = t
    BY <1>1, <1>2, <1>3
  <1>5. \A n \in number + 1 .. Captures : made[n].thread = made[number].thread
    <2>1. \A n \in number + 1 .. Captures : n \in number + 1 .. Captures' /\ n \in 1 .. Captures
      BY <1>1
    <2> QED
      BY <1>1, <1>2, <1>3, <2>1
  <1>6. made[number] \in CaptureMade
    BY ElementOfSeq DEF HubTypes, Captures
  <1>7. Written \in Nat /\ l \in 1 .. SlotCount
    BY WrittenTyped, LengthsTyped
  <1>8. made[number].after \in Nat /\ made[number].length \in 1 .. SlotCount
    BY <1>6, LengthsTyped DEF CaptureMade
  <1>9. Written + l - made[number].after <= SlotCount - made[number].length
    <2>1. Written' - made[number].after <= SlotCount - made[number].length
      BY <1>2, <1>3
    <2>2. Written' = Written + l
      BY <1>1
    <2> QED
      BY <1>7, <1>8, <2>1, <2>2, Constants
  <1>10. Written - made[number].after <= SlotCount - made[number].length
    BY <1>7, <1>8, <1>9, Constants
  <1> QED
    BY <1>4, <1>5, <1>9, <1>10 DEF Kept

\* A capture in the ring stays there as long as it is kept.
LEMMA StaysInRing ==
  ASSUME HubTypes, HubControl, NEW id \in 1 .. MaxCaptures, NEW t \in Threads, NEW l \in Lengths,
         WritesCapture(id, t, l),
         NEW slot \in Slots, NEW number \in 1 .. Captures, Kept(number)', InRing(slot, number)
  PROVE  InRing(slot, number)'
  <1> DEFINE c == cursor[t]
             far == Ahead(c, slot)
             length == made[number].length
             after == made[number].after
  <1>1. /\ Starts' = Starts /\ Starts \in 1 .. Starts
        /\ \A g \in 1 .. Starts : \A s \in Slots :
              ~(g = Starts /\ s \in SlotsFrom(c, l)) => memory'[g][s] = memory[g][s]
        /\ Captures' = Captures + 1 /\ Captures \in Nat
        /\ made'[number] = made[number]
        /\ Written' = Written + l
        /\ cursor'[t] = CursorAfter(c, l)
    <2> HIDE DEF c
    <2>1. Starts \in Nat /\ Captures \in Nat
      BY CountsTyped
    <2>2. /\ Starts' = Starts /\ Starts >= 1
          /\ Captures' = Captures + 1
          /\ \A n \in 1 .. Captures : made'[n] = made[n]
          /\ Written' = Written + l
          /\ cursor'[t] = CursorAfter(c, l)
      BY SlotsWritten DEF c
    <2>3. \A g \in 1 .. Starts : \A s \in Slots :
            ~(g = Starts /\ s \in SlotsFrom(c, l)) => memory'[g][s] = memory[g][s]
      BY SlotsWritten DEF c
    <2> QED
      BY <2>1, <2>2, <2>3
  <1>2. c \in Slots /\ l \in 1 .. SlotCount /\ Written \in Nat
    BY LengthsTyped, WrittenTyped DEF HubTypes
  <1>3. made[number] \in CaptureMade
    BY ElementOfSeq DEF HubTypes, Captures
  <1>4. after \in Nat /\ length \in 1 .. SlotCount
    BY <1>3, LengthsTyped DEF CaptureMade
  <1>5. made[number].thread = t /\ Written + l - after <= SlotCount - length
    BY KeptBefore
  <1>6. far \in Int /\ (~(far < l) => Ahead(cursor'[t], slot) = far - l)
    BY <1>1, <1>2, CursorMoves
  <1>7. /\ far + (Written - after) >= SlotCount - length
        /\ memory[Starts][slot].seq # 0 /\ memory[Starts][slot].data = number
    BY <1>5 DEF InRing
  <1>8. slot \in SlotsFrom(c, l) <=> far < l
    BY DEF SlotsFrom
  <1> HIDE DEF far, length, after
  <1>9. ~(far < l)
    BY <1>2, <1>4, <1>5, <1>6, <1>7, Constants
  <1>10. Ahead(cursor'[t], slot) + (Written' - after) >= SlotCount - length
    BY <1>1, <1>2, <1>4, <1>6, <1>7, <1>9, Constants
  <1>11. memory'[Starts'][slot] = memory[Starts][slot]
    BY <1>1, <1>8, <1>9
  <1> QED
    BY <1>1, <1>5, <1>7, <1>10, <1>11 DEF InRing, length, after

\* A capture is in the ring as soon as it is made.
LEMMA MadeInRing ==
  ASSUME HubTypes, HubControl, NEW id \in 1 .. MaxCaptures, NEW t \in Threads, NEW l \in Lengths,
         WritesCapture(id, t, l), NEW slot \in SlotsFrom(cursor[t], l), NEW number, number = Captures'
  PROVE  InRing(slot, number)'
  <1>1. /\ Starts' = Starts
        /\ memory'[Starts][slot].seq # 0 /\ memory'[Starts][slot].data = Captures + 1
        /\ Captures' = Captures + 1
        /\ made'[Captures'].thread = t
        /\ made'[Captures'].length = l /\ made'[Captures'].after = Written'
        /\ cursor'[t] = CursorAfter(cursor[t], l)
        /\ Written' = Written + l
    BY SlotsWritten
  <1>2. cursor[t] \in Slots /\ l \in 1 .. SlotCount /\ Written \in Nat
    BY LengthsTyped, WrittenTyped DEF HubTypes
  <1>3. slot \in Slots /\ Ahead(cursor[t], slot) < l
    BY DEF SlotsFrom
  <1>4. Ahead(cursor'[t], slot) >= SlotCount - l
    BY <1>1, <1>2, <1>3, CursorMoves
  <1>5. cursor'[t] \in Slots
    BY <1>1, <1>2, CursorMoves
  <1>6. Ahead(cursor'[t], slot) \in Int
    BY <1>3, <1>5, <1>2, CursorMoves
  <1>7. Ahead(cursor'[t], slot) + (Written' - Written') >= SlotCount - l
    BY <1>1, <1>2, <1>4, <1>6, Constants
  <1>8. made'[number].thread = t /\ made'[number].length = l /\ made'[number].after = Written'
    BY <1>1
  <1> QED
    BY <1>1, <1>7, <1>8 DEF InRing

\* The invariant of the hub holds at first.
LEMMA HubInitial == SdkInit => HubInv
  <1> SUFFICES ASSUME SdkInit PROVE HubInv
    OBVIOUS
  <1>1. HubTypes
    BY NothingPublishedTyped, Constants DEF SdkInit, HubTypes, Down, AtSlot0
  <1>2. Starts = 0 /\ Captures = 0 /\ DOMAIN publications = {}
    BY NothingPublishedTyped DEF SdkInit, Starts, Captures
  <1>3. HubControl
    BY <1>2, Constants DEF SdkInit, HubControl, Down
  <1>4. PublicationsInv
    BY <1>2 DEF PublicationsInv
  <1> QED
    BY <1>1, <1>3, <1>4 DEF HubInv

\* A step that publishes nothing and writes nothing keeps what is published in its place.
LEMMA PublicationsStay ==
  ASSUME PublicationsInv,
         DOMAIN publications' = {} \/ UNCHANGED <<memory, cursor, made, publications>>,
         UNCHANGED made
  PROVE  PublicationsInv'
  <1>1. CASE DOMAIN publications' = {}
    BY <1>1 DEF PublicationsInv
  <1>2. CASE UNCHANGED <<memory, cursor, made, publications>>
    BY <1>2 DEF PublicationsInv, InRing, Kept, Written, Captures, Starts
  <1> QED
    BY <1>1, <1>2

\* A capture is published under its id, and displaces the one published under it before.
LEMMA PublicationsGrow ==
  ASSUME HubInv, NEW id \in 1 .. MaxCaptures, NEW t \in Threads, NEW l \in Lengths,
         WritesCapture(id, t, l)
  PROVE  /\ DOMAIN publications' \subseteq 1 .. MaxCaptures
         /\ publications' \in [DOMAIN publications' -> Publication]
         /\ PublicationsInv'
  <1> DEFINE slots == SlotsFrom(cursor[t], l)
             new == [slots |-> slots, number |-> Captures + 1]
  <1>1. /\ DOMAIN publications' = DOMAIN publications \cup {id}
        /\ publications' = [i \in DOMAIN publications' |-> IF i = id THEN new ELSE publications[i]]
    BY DEF WritesCapture
  <1>2. /\ HubTypes /\ HubControl /\ PublicationsInv
        /\ Captures \in Nat
        /\ Captures' = Captures + 1 /\ Captures' <= MaxCaptures
        /\ \A n \in 1 .. Captures : made'[n] = made[n]
        /\ made'[Captures'].id = id
    <2>1. HubTypes /\ HubControl /\ PublicationsInv
      BY DEF HubInv
    <2> QED
      BY <2>1, SlotsWritten, CountsTyped
  <1>3. new \in Publication /\ new.slots = slots /\ new.number = Captures'
    BY <1>2, Constants DEF Publication, SlotsFrom
  <1> HIDE DEF new
  <1>4. publications' \in [DOMAIN publications' -> Publication]
    BY <1>1, <1>2, <1>3 DEF HubTypes
  <1>5. ASSUME NEW i \in DOMAIN publications', NEW p, p = publications'[i]
        PROVE  /\ p.number <= Captures'
               /\ made'[p.number].id = i
               /\ \A n \in p.number + 1 .. Captures' : made'[n].id # i
               /\ Kept(p.number)' => \A s \in p.slots : InRing(s, p.number)'
    <2>1. CASE i = id
      <3>1. p = new
        BY <1>1, <1>5, <2>1
      <3>2. p.number = Captures' /\ p.slots = slots
        BY <1>3, <3>1
      <3>3. \A s \in p.slots : InRing(s, p.number)'
        BY <1>2, <3>2, MadeInRing
      <3> QED
        BY <1>2, <2>1, <3>2, <3>3
    <2>2. CASE i # id
      <3>1. i \in DOMAIN publications /\ p = publications[i] /\ p \in Publication
        BY <1>1, <1>2, <1>5, <2>2 DEF HubTypes
      <3>2. /\ p.number \in 1 .. Captures /\ p.slots \subseteq Slots
            /\ made[p.number].id = i
            /\ \A n \in p.number + 1 .. Captures : made[n].id # i
            /\ Kept(p.number) => \A s \in p.slots : InRing(s, p.number)
        BY <1>2, <3>1 DEF PublicationsInv, Publication
      <3>3. ASSUME Kept(p.number)', NEW s \in p.slots
            PROVE  InRing(s, p.number)'
        <4>1. Kept(p.number)
          BY <1>2, <3>2, <3>3, KeptBefore
        <4>2. InRing(s, p.number)
          BY <3>2, <4>1
        <4> QED
          BY <1>2, <3>2, <3>3, <4>2, StaysInRing
      <3>4. ASSUME NEW n \in p.number + 1 .. Captures'
            PROVE  made'[n].id # i
        <4>1. n = Captures' \/ n \in p.number + 1 .. Captures
          BY <1>2, <3>2
        <4> QED
          BY <1>2, <2>2, <3>2, <4>1
      <3> QED
        BY <1>2, <3>2, <3>3, <3>4
    <2> QED
      BY <2>1, <2>2
  <1>6. PublicationsInv'
    BY <1>5 DEF PublicationsInv
  <1>7. DOMAIN publications' \subseteq 1 .. MaxCaptures
    BY <1>1, <1>2 DEF HubTypes
  <1> QED
    BY <1>4, <1>6, <1>7

\* The invariant of the hub is kept by everything the hub does.
LEMMA HubInductive == HubInv /\ HubMoves => HubInv'
  <1> SUFFICES ASSUME HubInv, HubMoves PROVE HubInv'
    OBVIOUS
  <1> USE DEF HubInv
  <1>1. CASE UNCHANGED hubVars
    BY <1>1 DEF hubVars, HubTypes, HubControl, PublicationsInv, InRing, Kept, Written, Starts, Captures
  <1>2. CASE HubStarts
    <2>1. /\ hub' = [up |-> TRUE, open |-> TRUE] /\ cursor' = AtSlot0 /\ ~hub.up
          /\ publications' = publications /\ made' = made
      BY <1>2 DEF HubStarts
    <2>2. /\ Starts \in Nat /\ Starts' = Starts + 1
          /\ memory' \in Seq(Region)
          /\ \A g \in 1 .. Starts : memory'[g] = memory[g]
          /\ memory'[Starts'] = CreatedRing
          /\ Captures' = Captures
      BY <1>2, <2>1, RegionAdded DEF HubTypes, Starts, Captures
    <2>3. DOMAIN publications = {}
      BY <2>1 DEF HubControl
    <2>4. HubTypes'
      BY <2>1, <2>2, Constants DEF HubTypes, AtSlot0
    <2>5. ASSUME NEW s \in Slots, NEW g \in 1 .. Starts', memory'[g][s].seq # 0
          PROVE  memory'[g][s].data \in 1 .. MaxCaptures
      <3>1. CASE g = Starts'
        BY <2>2, <2>5, <3>1 DEF CreatedRing
      <3>2. CASE g # Starts'
        <4>1. g \in 1 .. Starts
          BY <2>2, <3>2
        <4> QED
          BY <2>2, <2>5, <4>1 DEF HubControl
      <3> QED
        BY <3>1, <3>2
    <2>6. HubControl'
      BY <2>1, <2>2, <2>3, <2>5 DEF HubControl
    <2>7. PublicationsInv'
      BY <2>1, <2>3, PublicationsStay
    <2> QED
      BY <2>4, <2>6, <2>7
  <1>3. CASE HubStops
    <2>1. /\ hub' = Down /\ publications' = NothingPublished
          /\ UNCHANGED <<memory, cursor, made>>
          /\ Starts' = Starts /\ Captures' = Captures
      BY <1>3 DEF HubStops, Starts, Captures
    <2>2. HubTypes'
      BY <2>1, NothingPublishedTyped DEF HubTypes, Down
    <2>3. HubControl'
      BY <2>1, NothingPublishedTyped DEF HubControl, Down
    <2>4. PublicationsInv'
      BY <2>1, NothingPublishedTyped, PublicationsStay
    <2> QED
      BY <2>2, <2>3, <2>4
  <1>4. CASE SessionOpens
    <2>1. /\ hub' = [hub EXCEPT !.open = TRUE] /\ hub.up
          /\ UNCHANGED <<memory, cursor, made, publications>>
          /\ Starts' = Starts /\ Captures' = Captures
      BY <1>4 DEF SessionOpens, Starts, Captures
    <2>2. hub' \in [up : BOOLEAN, open : BOOLEAN] /\ hub'.up = hub.up
      BY <2>1 DEF HubTypes
    <2>3. HubTypes' /\ HubControl'
      BY <2>1, <2>2 DEF HubTypes, HubControl
    <2>4. PublicationsInv'
      BY <2>1, PublicationsStay
    <2> QED
      BY <2>3, <2>4
  <1>5. CASE SessionCloses
    <2>1. /\ hub' = [hub EXCEPT !.open = FALSE] /\ publications' = NothingPublished
          /\ UNCHANGED <<memory, cursor, made>>
          /\ Starts' = Starts /\ Captures' = Captures
      BY <1>5 DEF SessionCloses, Starts, Captures
    <2>2. hub' \in [up : BOOLEAN, open : BOOLEAN] /\ hub'.up = hub.up /\ ~hub'.open
      BY <2>1 DEF HubTypes
    <2>3. HubTypes' /\ HubControl'
      BY <2>1, <2>2, NothingPublishedTyped DEF HubTypes, HubControl
    <2>4. PublicationsInv'
      BY <2>1, NothingPublishedTyped, PublicationsStay
    <2> QED
      BY <2>3, <2>4
  <1>6. ASSUME NEW id \in 1 .. MaxCaptures, NEW t \in Threads, NEW l \in Lengths,
               WritesCapture(id, t, l)
        PROVE  HubInv'
    <2> DEFINE slots == SlotsFrom(cursor[t], l)
    <2>1. /\ Starts' = Starts /\ Starts >= 1 /\ Starts \in Nat
          /\ memory' \in Seq(Region)
          /\ \A g \in 1 .. Starts : \A s \in Slots :
               ~(g = Starts /\ s \in slots) => memory'[g][s] = memory[g][s]
          /\ \A s \in slots : memory'[Starts][s].data = Captures + 1
          /\ Captures' = Captures + 1 /\ Captures' <= MaxCaptures
          /\ made' \in Seq(CaptureMade)
          /\ cursor' \in [Threads -> Slots]
          /\ Captures \in Nat
      <3>1. Starts \in Nat /\ Captures \in Nat
        BY CountsTyped
      <3> QED
        BY <1>6, <3>1, SlotsWritten
    <2>2. hub' = hub /\ hub.open
      BY <1>6 DEF WritesCapture
    <2> HIDE DEF slots
    <2>3. /\ DOMAIN publications' \subseteq 1 .. MaxCaptures
          /\ publications' \in [DOMAIN publications' -> Publication]
          /\ PublicationsInv'
      BY <1>6, PublicationsGrow
    <2>4. HubTypes'
      BY <2>1, <2>2, <2>3 DEF HubTypes
    <2>5. ASSUME NEW s \in Slots, NEW g \in 1 .. Starts', memory'[g][s].seq # 0
          PROVE  memory'[g][s].data \in 1 .. MaxCaptures
      <3>1. CASE g = Starts /\ s \in slots
        BY <2>1, <3>1, Constants
      <3>2. CASE ~(g = Starts /\ s \in slots)
        BY <2>1, <2>5, <3>2 DEF HubControl
      <3> QED
        BY <3>1, <3>2
    <2>6. HubControl'
      BY <2>1, <2>2, <2>5 DEF HubControl
    <2> QED
      BY <2>3, <2>4, <2>6
  <1>7. CASE \E id \in 1 .. MaxCaptures : Publishes(id)
    BY <1>6, <1>7 DEF Publishes
  <1> QED
    BY <1>1, <1>2, <1>3, <1>4, <1>5, <1>7 DEF HubMoves

\* What the hub does to what the threads know of it: captures are added, regions are added, and
\* what is in the ring of a region stays there as long as it is kept.
LEMMA HubEffects ==
  ASSUME HubInv, HubMoves
  PROVE  /\ Starts \in Nat /\ Starts' \in Nat /\ Starts <= Starts'
         /\ Captures \in Nat /\ Captures' \in Nat /\ Captures <= Captures'
         /\ Captures' <= MaxCaptures
         /\ \A n \in 1 .. Captures : made'[n] = made[n]
         /\ \A number \in 1 .. Captures :
              /\ Kept(number)' => Kept(number)
              /\ Starts' = Starts /\ Kept(number)' =>
                   \A slot \in Slots : InRing(slot, number) => InRing(slot, number)'
  <1>1. HubInv'
    BY HubInductive
  <1>2. /\ Starts \in Nat /\ Captures \in Nat /\ Starts' \in Nat /\ Captures' \in Nat
        /\ Captures' <= MaxCaptures
    BY <1>1 DEF HubInv, HubTypes, HubControl, Starts, Captures
  <1>3. CASE UNCHANGED <<memory, cursor, made>>
    BY <1>2, <1>3 DEF InRing, Kept, Written, Starts, Captures
  <1>4. CASE HubStarts
    <2>1. Starts' = Starts + 1 /\ made' = made /\ Captures' = Captures
      BY <1>4, RegionAdded DEF HubInv, HubStarts, Captures
    <2>2. \A number \in 1 .. Captures : Kept(number)' => Kept(number)
      BY <2>1 DEF Kept, Written
    <2> QED
      BY <1>2, <2>1, <2>2
  <1>5. ASSUME NEW id \in 1 .. MaxCaptures, NEW t \in Threads, NEW l \in Lengths,
               WritesCapture(id, t, l)
        PROVE  /\ Starts' = Starts /\ Captures' = Captures + 1
               /\ \A n \in 1 .. Captures : made'[n] = made[n]
               /\ \A number \in 1 .. Captures :
                    /\ Kept(number)' => Kept(number)
                    /\ Starts' = Starts /\ Kept(number)' =>
                         \A slot \in Slots : InRing(slot, number) => InRing(slot, number)'
    <2>1. /\ Starts' = Starts /\ Captures' = Captures + 1
          /\ \A n \in 1 .. Captures : made'[n] = made[n]
          /\ HubTypes /\ HubControl
      BY <1>5, SlotsWritten DEF HubInv
    <2>2. ASSUME NEW number \in 1 .. Captures, Kept(number)'
          PROVE  /\ Kept(number)
                 /\ \A slot \in Slots : InRing(slot, number) => InRing(slot, number)'
      BY <1>5, <2>1, <2>2, KeptBefore, StaysInRing
    <2> QED
      BY <2>1, <2>2
  <1>6. UNCHANGED hubVars \/ HubStops \/ SessionOpens \/ SessionCloses
          => UNCHANGED <<memory, cursor, made>>
    BY DEF hubVars, HubStops, SessionOpens, SessionCloses
  <1>7. CASE \E id \in 1 .. MaxCaptures : Publishes(id)
    <2>1. PICK id \in 1 .. MaxCaptures, t \in Threads, l \in Lengths : WritesCapture(id, t, l)
      BY <1>7 DEF Publishes
    <2> QED
      BY <1>2, <1>5, <2>1
  <1> QED
    BY <1>3, <1>4, <1>6, <1>7 DEF HubMoves

-----------------------------------------------------------------------------
\* What a step does to the threads that capture.

\* At most one thread goes on.
Only(w) ==
  /\ worker' \in [Workers -> Worker]
  /\ \A v \in Workers : v # w => worker'[v] = worker[v]

\* A thread that has no capture.
Parked(w) == worker[w].pc \notin Answered \cup {"capturing"} /\ ~worker[w].certain

\* Every thread keeps its record, but for those that have no capture afterwards.
Rest == \A w \in Workers : worker'[w] = worker[w] \/ Parked(w)'

\* A thread at rest, and the three kinds it can go on from.
LEMMA RestingTyped ==
  /\ Resting \in Worker
  /\ Resting.pc = "none" /\ Resting.certain = FALSE /\ Resting.stray = FALSE
  /\ \A pc \in WorkerPcs :
       /\ [Resting EXCEPT !.pc = pc] \in Worker
       /\ [Resting EXCEPT !.pc = pc].pc = pc
       /\ [Resting EXCEPT !.pc = pc].certain = FALSE
  <1>1. NoFrame \in Frame
    BY Constants DEF NoFrame, Frame
  <1>2. Resting \in Worker
    BY <1>1, Constants DEF Resting, Worker, WorkerPcs
  <1>3. Resting.pc = "none" /\ Resting.certain = FALSE /\ Resting.stray = FALSE
    BY DEF Resting
  <1> QED
    BY <1>2, <1>3 DEF Worker

\* One record of the function of the threads.
LEMMA OneThread ==
  ASSUME worker \in [Workers -> Worker], NEW w \in Workers, NEW r \in Worker,
         worker' = [worker EXCEPT ![w] = r]
  PROVE  Only(w) /\ worker'[w] = r
BY DEF Only

\* A thread that moves on keeps the rest of its record.
LEMMA ThreadMoves ==
  ASSUME worker \in [Workers -> Worker], NEW w \in Workers, NEW pc \in WorkerPcs, Moves(w, pc)
  PROVE  /\ Only(w)
         /\ worker'[w].pc = pc
         /\ worker'[w].id = worker[w].id /\ worker'[w].own = worker[w].own
         /\ worker'[w].slot = worker[w].slot /\ worker'[w].frame = worker[w].frame
         /\ worker'[w].certain = worker[w].certain
  <1> DEFINE r == [worker[w] EXCEPT !.pc = pc]
  <1>1. worker[w] \in Worker
    OBVIOUS
  <1>2. /\ r \in Worker /\ r.pc = pc
        /\ r.id = worker[w].id /\ r.own = worker[w].own /\ r.slot = worker[w].slot
        /\ r.frame = worker[w].frame /\ r.certain = worker[w].certain
    BY <1>1 DEF Worker
  <1>3. worker' = [worker EXCEPT ![w] = r]
    BY DEF Moves
  <1> HIDE DEF r
  <1> QED
    BY <1>2, <1>3, OneThread

\* A capture that fails leaves the thread without one.
LEMMA ThreadFails ==
  ASSUME worker \in [Workers -> Worker], NEW w \in Workers, Failed(w)
  PROVE  /\ Only(w)
         /\ worker'[w].pc = IF w = Stream THEN "looping" ELSE "done"
         /\ ~worker'[w].certain
  <1>1. CASE w = Stream
    <2> DEFINE r == [Resting EXCEPT !.pc = "looping"]
    <2>1. r \in Worker /\ r.pc = "looping" /\ ~r.certain
      BY RestingTyped DEF WorkerPcs
    <2>2. worker' = [worker EXCEPT ![w] = r]
      BY <1>1 DEF Failed
    <2> HIDE DEF r
    <2> QED
      BY <1>1, <2>1, <2>2, OneThread
  <1>2. CASE w # Stream
    <2> DEFINE r == [Resting EXCEPT !.pc = "done"]
    <2>1. r \in Worker /\ r.pc = "done" /\ ~r.certain
      BY RestingTyped DEF WorkerPcs
    <2>2. worker' = [worker EXCEPT ![w] = r]
      BY <1>2 DEF Failed
    <2> HIDE DEF r
    <2> QED
      BY <1>2, <2>1, <2>2, OneThread
  <1> QED
    BY <1>1, <1>2

\* A push leaves the thread where a capture that failed leaves it.
LEMMA PushEnds ==
  ASSUME NEW w \in Workers, Pushes(w)
  PROVE  Failed(w)
BY DEF Pushes, Failed

\* A capture begins with an id of its own, on an adapter that is connected, or fails at once.
LEMMA CaptureBegins ==
  ASSUME ViewerTypes, WorkerInv, NEW w \in Workers, BeginCapture(w)
  PROVE  /\ Only(w)
         /\ nextId' \in 1 .. MaxCaptures + 1
         /\ worker[w].pc = IF w = Stream THEN "looping" ELSE "queued"
         /\ \/ /\ worker'[w].pc = "capturing"
               /\ worker'[w].id \in 1 .. MaxCaptures
               /\ ~worker'[w].certain
               /\ adapter.sdk.connected
            \/ worker'[w].pc = (IF w = Stream THEN "looping" ELSE "done") /\ ~worker'[w].certain
  <1>1. worker \in [Workers -> Worker] /\ nextId \in 1 .. MaxCaptures + 1 /\ worker[w] \in Worker
    BY DEF ViewerTypes
  <1>2. worker[w].pc = IF w = Stream THEN "looping" ELSE "queued"
    BY DEF BeginCapture, Begins
  <1>3. ~worker[w].certain
    BY <1>2 DEF WorkerInv, WorkerHolds
  <1>4. CASE adapter.sdk.connected /\ nextId <= MaxCaptures /\ nextId' = nextId + 1
             /\ worker' = [worker EXCEPT ![w].pc = "capturing", ![w].id = nextId]
    <2> DEFINE r == [worker[w] EXCEPT !.pc = "capturing", !.id = nextId]
    <2>1. nextId \in 1 .. MaxCaptures /\ nextId' \in 1 .. MaxCaptures + 1
      BY <1>1, <1>4, Constants
    <2>2. nextId \in 0 .. MaxCaptures /\ "capturing" \in WorkerPcs
      BY <2>1, Constants DEF WorkerPcs
    <2>3. r \in Worker /\ r.pc = "capturing" /\ r.id = nextId /\ r.certain = worker[w].certain
      BY <1>1, <2>2 DEF Worker
    <2>4. worker' = [worker EXCEPT ![w] = r]
      BY <1>1, <1>4
    <2> HIDE DEF r
    <2> QED
      BY <1>1, <1>2, <1>3, <1>4, <2>1, <2>3, <2>4, OneThread
  <1>5. CASE Failed(w) /\ UNCHANGED nextId
    BY <1>1, <1>2, <1>5, ThreadFails
  <1> QED
    BY <1>4, <1>5 DEF BeginCapture

\* A thread's call leaves the adapter's connection, projector_op and stop flag alone.
AdapterServes ==
  /\ adapter' \in Adapter
  /\ adapter'.sdk.connected = adapter.sdk.connected
  /\ adapter'.op = adapter.op /\ adapter'.since = adapter.since /\ adapter'.stop = adapter.stop

\* An adapter that is left alone.
LEMMA AdapterRests == ASSUME ViewerTypes, UNCHANGED adapter PROVE AdapterServes
BY DEF ViewerTypes, AdapterServes

\* A capture that is answered is the last one made, under the id it was asked for with.
LEMMA CaptureEnds ==
  ASSUME HubInv, ViewerTypes, WorkerInv, NEW w \in Workers, CaptureReturns(w)
  PROVE  /\ HubMoves
         /\ Only(w)
         /\ worker[w].pc = "capturing"
         /\ AdapterServes /\ adapter'.ring = adapter.ring
         /\ \/ /\ worker'[w].pc = "listing"
               /\ worker'[w].id \in 1 .. MaxCaptures
               /\ worker'[w].own \in 1 .. Captures'
               /\ made'[worker'[w].own].id = worker'[w].id
               /\ ~worker'[w].certain
            \/ worker'[w].pc = (IF w = Stream THEN "looping" ELSE "done") /\ ~worker'[w].certain
  <1>1. worker \in [Workers -> Worker] /\ adapter \in Adapter /\ worker[w] \in Worker
    BY DEF ViewerTypes
  <1>2. worker[w].pc = "capturing" /\ worker[w].id \in 1 .. MaxCaptures /\ ~worker[w].certain
    BY DEF CaptureReturns, WorkerInv, WorkerHolds
  <1>3. HubMoves
    BY <1>2 DEF CaptureReturns, CaptureAnswered, CaptureFailed, HubMoves
  <1>4. CASE /\ Publishes(worker[w].id)
             /\ worker' = [worker EXCEPT ![w].pc = "listing", ![w].own = Captures + 1]
             /\ adapter' = [adapter EXCEPT !.sdk.last = worker[w].id]
    <2> DEFINE r == [worker[w] EXCEPT !.pc = "listing", !.own = Captures + 1]
               sdk == [adapter.sdk EXCEPT !.last = worker[w].id]
    <2>1. /\ Captures' = Captures + 1 /\ Captures' <= MaxCaptures /\ Captures \in Nat
          /\ made'[Captures'].id = worker[w].id
      <3>1. PICK t \in Threads, l \in Lengths : WritesCapture(worker[w].id, t, l)
        BY <1>4 DEF Publishes
      <3> QED
        BY <1>2, <3>1, SlotsWritten, CountsTyped DEF HubInv
    <2>2. Captures + 1 \in 0 .. MaxCaptures /\ "listing" \in WorkerPcs
      BY <2>1, Constants DEF WorkerPcs
    <2>3. /\ r \in Worker /\ r.pc = "listing" /\ r.id = worker[w].id /\ r.own = Captures + 1
          /\ r.certain = worker[w].certain
      BY <1>1, <2>2 DEF Worker
    <2>4. worker' = [worker EXCEPT ![w] = r]
      BY <1>1, <1>4
    <2>5. /\ sdk \in [connected : BOOLEAN, last : 0 .. MaxCaptures]
          /\ sdk.connected = adapter.sdk.connected
      BY <1>1, <1>2, Constants DEF Adapter
    <2>6. adapter' = [adapter EXCEPT !.sdk = sdk]
      BY <1>1, <1>4
    <2> HIDE DEF r, sdk
    <2>7. AdapterServes /\ adapter'.ring = adapter.ring
      BY <1>1, <2>5, <2>6 DEF Adapter, AdapterServes
    <2>8. Only(w) /\ worker'[w] = r
      BY <1>1, <2>3, <2>4, OneThread
    <2>9. worker'[w].own \in 1 .. Captures'
      BY <2>1, <2>3, <2>8
    <2> QED
      BY <1>2, <1>3, <2>1, <2>3, <2>7, <2>8, <2>9
  <1>5. CASE Failed(w) /\ UNCHANGED adapter
    BY <1>1, <1>2, <1>3, <1>5, ThreadFails, AdapterRests
  <1> QED
    BY <1>4, <1>5 DEF CaptureReturns, CaptureAnswered

\* A publication that answers for an id is the last capture made under it.
LEMMA AnswersForId ==
  ASSUME HubInv, NEW id \in 1 .. MaxCaptures, NEW sdk, NEW p \in Depth(sdk, id)
  PROVE  /\ p \in Publication
         /\ p.number \in 1 .. Captures
         /\ made[p.number].id = id
         /\ \A n \in p.number + 1 .. Captures : made[n].id # id
         /\ Kept(p.number) => \A s \in p.slots : InRing(s, p.number)
  <1>1. id # 0
    OBVIOUS
  <1>2. p \in HubDepth(id)
    BY <1>1 DEF Depth
  <1>3. PICK i \in DOMAIN publications : p = publications[i] /\ i = id
    BY <1>1, <1>2 DEF HubDepth
  <1>4. p \in Publication /\ p.number \in Nat \ {0}
    BY <1>3 DEF HubInv, HubTypes, Publication
  <1>5. Captures \in Nat
    BY DEF HubInv, HubTypes, Captures
  <1> QED
    BY <1>3, <1>4, <1>5 DEF HubInv, PublicationsInv

\* What a thread is about to read, is its own capture unless something came between.
LEMMA AnswerIsOwn ==
  ASSUME HubInv, ViewerTypes, WorkerInv, NEW w \in Workers, worker[w].pc \in Answered, Certain(w),
         NEW sdk, NEW p \in Depth(sdk, worker[w].id), NEW slot \in p.slots
  PROVE  InRing(slot, worker[w].own)
  <1>1. /\ worker[w].id \in 1 .. MaxCaptures
        /\ worker[w].own \in 1 .. Captures
        /\ made[worker[w].own].id = worker[w].id
    BY DEF WorkerInv, WorkerHolds
  <1>2. /\ p.number \in 1 .. Captures
        /\ made[p.number].id = worker[w].id
        /\ \A n \in p.number + 1 .. Captures : made[n].id # worker[w].id
        /\ Kept(p.number) => InRing(slot, p.number)
    BY <1>1, AnswersForId
  <1>3. Captures \in Nat
    BY DEF HubInv, HubTypes, Captures
  <1>4. /\ \A n \in worker[w].own + 1 .. Captures : made[n].id # worker[w].id
        /\ Kept(worker[w].own)
    BY DEF Certain
  <1>5. ~(p.number > worker[w].own)
    BY <1>1, <1>2, <1>3, <1>4
  <1>6. ~(p.number < worker[w].own)
    BY <1>1, <1>2, <1>3
  <1>7. p.number = worker[w].own
    BY <1>1, <1>2, <1>5, <1>6
  <1> QED
    BY <1>2, <1>4, <1>7

\* A thread that has an answer keeps the capture it is about, whatever it goes on to.
LEMMA AnswerTaken ==
  ASSUME ViewerTypes, NEW w \in Workers, NEW slot \in Slots, NEW raw \in BOOLEAN,
         worker' = [worker EXCEPT ![w].pc = "reading", ![w].slot = slot, ![w].frame.raw = raw]
  PROVE  /\ Only(w)
         /\ worker'[w].pc = "reading" /\ worker'[w].slot = slot
         /\ worker'[w].id = worker[w].id /\ worker'[w].own = worker[w].own
         /\ worker'[w].certain = worker[w].certain
  <1> DEFINE frame == [worker[w].frame EXCEPT !.raw = raw]
             r == [worker[w] EXCEPT !.pc = "reading", !.slot = slot, !.frame = frame]
  <1>1. worker \in [Workers -> Worker] /\ worker[w] \in Worker
    BY DEF ViewerTypes
  <1>2. frame \in Frame
    BY <1>1 DEF Worker, Frame
  <1>3. worker' = [worker EXCEPT ![w] = r]
    BY <1>1
  <1> HIDE DEF frame
  <1>4. "reading" \in WorkerPcs /\ slot \in Slots
    BY DEF WorkerPcs
  <1>5. /\ r \in Worker /\ r.pc = "reading" /\ r.slot = slot
        /\ r.id = worker[w].id /\ r.own = worker[w].own /\ r.certain = worker[w].certain
    BY <1>1, <1>2, <1>4 DEF Worker
  <1> HIDE DEF r
  <1> QED
    BY <1>1, <1>3, <1>5, OneThread

\* A list or a query goes on to read, or to the other question, or fails; what it reads is the
\* thread's capture unless something came between.
LEMMA AnswerFound ==
  ASSUME HubInv, ViewerTypes, WorkerInv, NEW w \in Workers, Lists(w) \/ Queries(w)
  PROVE  /\ Only(w)
         /\ worker[w].pc \in Answered
         /\ \/ /\ worker'[w].pc \in {"querying", "reading"}
               /\ worker'[w].id = worker[w].id /\ worker'[w].own = worker[w].own
               /\ ~worker'[w].certain
               /\ worker'[w].pc = "reading" /\ Certain(w) => InRing(worker'[w].slot, worker[w].own)
            \/ worker'[w].pc = (IF w = Stream THEN "looping" ELSE "done") /\ ~worker'[w].certain
  <1>1. worker \in [Workers -> Worker] /\ worker[w] \in Worker
    BY DEF ViewerTypes
  <1>2. worker[w].pc \in Answered /\ worker[w].pc # "pushing" /\ ~worker[w].certain
        /\ worker[w].id \in 1 .. MaxCaptures
    BY DEF Lists, Queries, Answered, WorkerInv, WorkerHolds
  <1>3. CASE Moves(w, "querying")
    <2>1. "querying" \in WorkerPcs
      BY DEF WorkerPcs
    <2> QED
      BY <1>1, <1>2, <1>3, <2>1, ThreadMoves
  <1>4. CASE Failed(w)
    BY <1>1, <1>2, <1>4, ThreadFails
  <1>5. ASSUME NEW p \in Depth(adapter.sdk, worker[w].id), NEW slot \in p.slots, NEW raw \in BOOLEAN,
               worker' = [worker EXCEPT ![w].pc = "reading", ![w].slot = slot, ![w].frame.raw = raw]
        PROVE  /\ Only(w)
               /\ worker'[w].pc = "reading"
               /\ worker'[w].id = worker[w].id /\ worker'[w].own = worker[w].own
               /\ ~worker'[w].certain
               /\ Certain(w) => InRing(worker'[w].slot, worker[w].own)
    <2>1. slot \in Slots
      BY <1>2, AnswersForId DEF Publication
    <2>2. Certain(w) => InRing(slot, worker[w].own)
      BY <1>2, AnswerIsOwn
    <2> QED
      BY <1>2, <1>5, <2>1, <2>2, AnswerTaken
  <1>6. CASE Lists(w) /\ \E p \in Depth(adapter.sdk, worker[w].id) : \E slot \in p.slots :
               worker' = [worker EXCEPT ![w].pc = "reading", ![w].slot = slot,
                                        ![w].frame.raw = TRUE]
    BY <1>2, <1>5, <1>6
  <1>7. CASE Queries(w) /\ \E p \in Depth(adapter.sdk, worker[w].id) : \E slot \in p.slots :
               worker' = [worker EXCEPT ![w].pc = "reading", ![w].slot = slot]
    <2>1. PICK p \in Depth(adapter.sdk, worker[w].id) : \E slot \in p.slots :
            worker' = [worker EXCEPT ![w].pc = "reading", ![w].slot = slot]
      BY <1>7
    <2>2. worker[w].frame.raw \in BOOLEAN
      BY <1>1 DEF Worker, Frame
    <2>3. PICK slot \in p.slots :
            worker' = [worker EXCEPT ![w].pc = "reading", ![w].slot = slot]
      BY <2>1
    <2>4. worker' = [worker EXCEPT ![w].pc = "reading", ![w].slot = slot,
                                   ![w].frame.raw = worker[w].frame.raw]
      <3> DEFINE r == [worker[w] EXCEPT !.pc = "reading", !.slot = slot]
      <3>1. r = [r EXCEPT !.frame.raw = worker[w].frame.raw]
        BY <1>1 DEF Worker, Frame
      <3>2. worker' = [worker EXCEPT ![w] = r]
        BY <1>1, <2>3
      <3>3. [worker EXCEPT ![w].pc = "reading", ![w].slot = slot,
                           ![w].frame.raw = worker[w].frame.raw]
              = [worker EXCEPT ![w] = [r EXCEPT !.frame.raw = worker[w].frame.raw]]
        BY <1>1
      <3> QED
        BY <3>1, <3>2, <3>3
    <2> QED
      BY <1>2, <1>5, <2>2, <2>3, <2>4
  <1> QED
    BY <1>3, <1>4, <1>6, <1>7 DEF Lists, Queries

\* A read takes what is in the slot, of the region mapped or of the running hub's, and when
\* nothing came between, that is the thread's capture.
LEMMA FrameRead ==
  ASSUME HubInv, ViewerTypes, WorkerInv, MainInv, NEW w \in Workers, ReadsFrame(w)
  PROVE  /\ Only(w)
         /\ worker[w].pc = "reading" /\ worker'[w].pc = "pushing"
         /\ worker'[w].certain => worker'[w].frame.number = worker'[w].own
         /\ AdapterServes
         /\ adapter'.ring \in 1 .. Starts /\ adapter.since <= adapter'.ring
  <1> DEFINE region == IF adapter.ring = 0 THEN Starts ELSE adapter.ring
             slot == worker[w].slot
             number == IF Readable(memory[region], slot) THEN memory[region][slot].data ELSE 0
             frame == [worker[w].frame EXCEPT !.number = number]
             r == [worker[w] EXCEPT !.pc = "pushing", !.certain = Certain(w), !.frame = frame]
  <1>1. /\ worker \in [Workers -> Worker] /\ adapter \in Adapter /\ worker[w] \in Worker
        /\ adapter.ring <= Starts /\ adapter.since <= Starts
    BY DEF ViewerTypes
  <1>2. /\ worker[w].pc = "reading"
        /\ worker' = [worker EXCEPT ![w].pc = "pushing", ![w].certain = Certain(w),
                                    ![w].frame.number = number]
        /\ adapter' = [adapter EXCEPT !.ring = region]
    BY DEF ReadsFrame
  <1>3. /\ worker[w].own \in 1 .. Captures
        /\ Certain(w) => InRing(slot, worker[w].own)
    BY <1>2 DEF WorkerInv, WorkerHolds, Answered
  <1>4. /\ Starts \in Nat /\ Starts >= 1
        /\ adapter.ring \in Nat /\ adapter.since \in Nat
    BY <1>1, <1>3 DEF HubInv, HubTypes, HubControl, Starts, Captures, Adapter
  <1>5. region \in 1 .. Starts /\ adapter.since <= region
    BY <1>1, <1>4 DEF MainInv
  <1>6. number \in 0 .. MaxCaptures
    BY <1>5, Constants DEF HubInv, HubControl, Readable
  <1>7. ASSUME Certain(w) PROVE number = worker[w].own
    <2>1. region = Starts
      BY <1>4, <1>5, <1>7 DEF Certain
    <2>2. slot \in Slots
      BY <1>1 DEF Worker
    <2> QED
      BY <1>3, <1>7, <2>1, <2>2 DEF InRing, Readable
  <1> HIDE DEF region, number
  <1>8. frame \in Frame /\ frame.number = number
    BY <1>1, <1>6 DEF Worker, Frame
  <1>9. worker' = [worker EXCEPT ![w] = r]
    BY <1>1, <1>2
  <1> HIDE DEF frame
  <1>10. "pushing" \in WorkerPcs /\ Certain(w) \in BOOLEAN
    BY DEF WorkerPcs, Certain
  <1>11. r \in Worker /\ r.pc = "pushing" /\ r.certain = Certain(w) /\ r.frame = frame
         /\ r.own = worker[w].own
    <2> DEFINE c == Certain(w)
    <2> HIDE DEF c
    <2>1. c \in BOOLEAN
      BY <1>10 DEF c
    <2>2. LET q == [worker[w] EXCEPT !.pc = "pushing", !.certain = c, !.frame = frame]
          IN q \in Worker /\ q.pc = "pushing" /\ q.certain = c /\ q.frame = frame
             /\ q.own = worker[w].own
      BY <1>1, <1>8, <1>10, <2>1 DEF Worker
    <2> QED
      BY <2>2 DEF c
  <1>12. AdapterServes /\ adapter'.ring = region
    <2>1. region \in Nat
      BY <1>4, <1>5
    <2> QED
      BY <1>1, <1>2, <2>1 DEF AdapterServes, Adapter
  <1> HIDE DEF r
  <1>13. Only(w) /\ worker'[w] = r
    BY <1>1, <1>9, <1>11, OneThread
  <1> QED
    BY <1>2, <1>5, <1>7, <1>8, <1>11, <1>12, <1>13

-----------------------------------------------------------------------------
\* The steps of the main thread, of the world, and of the threads that have no capture: they
\* leave every capture alone, and the adapter's connection while somebody has its mutex_.
Leaves ==
  /\ HubMoves
  /\ Rest
  /\ adapter'.since = adapter.since \/ Free
  /\ ViewerTypes'
  /\ ControlInv'

\* A hub that is left alone.
LEMMA HubRests == ASSUME UNCHANGED hubVars PROVE HubMoves /\ Starts' = Starts
BY DEF HubMoves, hubVars, Starts

\* The regions there are.
LEMMA StartsTyped == HubInv => Starts \in Nat /\ Captures \in Nat
BY DEF HubInv, HubTypes, Starts, Captures

\* A handler that begins, or changes the windows.
LEMMA QuietSteps ==
  ASSUME ViewerInv,
         ClickCapture \/ ClickStart \/ (\E host \in {"hub", "dead"} : ClickConnect(host))
           \/ (\E op \in Ops : ChooseOp(op)) \/ ChangeParameter \/ SetParameter \/ FrameReady
           \/ UNCHANGED vars
  PROVE  Leaves
  <1>1. /\ UNCHANGED <<hubVars, nextId, adapter, held, running, worker, latest>>
        /\ HubMoves /\ Starts' = Starts /\ Rest
    <2>1. UNCHANGED <<hubVars, nextId, adapter, held, running, worker, latest>>
      BY DEF ClickCapture, ClickStart, ClickConnect, ChooseOp, ChangeParameter, SetParameter,
             FrameReady, vars, windows
    <2> QED
      BY <2>1, HubRests DEF Rest
  <1>2. ViewerTypes /\ MainInv /\ OpInv /\ StreamInv /\ AlbumInSync
    BY DEF ViewerInv, ControlInv
  <1>3. ViewerTypes'
    <2>1. /\ combo' \in Ops /\ panel' \in BOOLEAN /\ pending' \in 0 .. 2
          /\ album' \in 0 .. MaxCaptures /\ enabled' \subseteq Buttons
      <3>1. CASE FrameReady
        <4>1. UNCHANGED <<combo, panel, enabled>> /\ pending' = pending - 1 /\ pending > 0
              /\ album' \in {latest.number, 0}
          BY <3>1 DEF FrameReady, AlbumOf
        <4>2. latest.number \in 0 .. MaxCaptures
          BY <1>2 DEF ViewerTypes, Frame
        <4> QED
          BY <1>2, <4>1, <4>2, Constants DEF ViewerTypes
      <3>2. CASE ~FrameReady
        <4>1. /\ UNCHANGED <<panel, pending, album>>
              /\ combo' = combo \/ combo' \in Ops
              /\ enabled' = enabled \/ enabled' = enabled \ {"capture"}
          BY <3>2 DEF ClickCapture, ClickStart, ClickConnect, ChooseOp, ChangeParameter,
               SetParameter, vars, windows
        <4> QED
          BY <1>2, <4>1 DEF ViewerTypes
      <3> QED
        BY <3>1, <3>2
    <2> QED
      BY <1>1, <1>2, <2>1 DEF ViewerTypes
  <1>4. MainInv'
    <2>1. ui' # "dialling" \/ ui' = ui
      BY DEF ClickCapture, ClickStart, ClickConnect, ChooseOp, ChangeParameter, SetParameter,
             FrameReady, vars
    <2>2. ui' # "crashed" \/ ui' = ui
      BY DEF ClickCapture, ClickStart, ClickConnect, ChooseOp, ChangeParameter, SetParameter,
             FrameReady, vars
    <2>3. ui' = "capture" => ui' = ui \/ \E t \in Tasks : worker[t].pc = "none"
      BY DEF ClickCapture, ClickStart, ClickConnect, ChooseOp, ChangeParameter, SetParameter,
             FrameReady, vars
    <2> QED
      BY <1>1, <1>2, <2>1, <2>2, <2>3 DEF MainInv, Free, Holds
  <1>5. OpInv'
    BY <1>1, <1>2 DEF OpInv, ClickCapture, ClickStart, ClickConnect, ChooseOp, ChangeParameter,
         SetParameter, FrameReady, vars, windows
  <1>6. StreamInv'
    BY <1>1, <1>2 DEF StreamInv, ClickCapture, ClickStart, ClickConnect, ChooseOp, ChangeParameter,
         SetParameter, FrameReady, vars
  <1>7. AlbumInSync'
    BY <1>1, <1>2 DEF AlbumInSync, AlbumOf, ClickCapture, ClickStart, ClickConnect, ChooseOp,
         ChangeParameter, SetParameter, FrameReady, vars, windows
  <1> QED
    BY <1>1, <1>3, <1>4, <1>5, <1>6, <1>7 DEF Leaves, ControlInv

\* A process that ends takes its threads with it.
LEMMA CrashLeaves == ASSUME ViewerInv, Crash PROVE Leaves
  <1>1. /\ UNCHANGED <<hubVars, nextId, adapter, held, running, latest, pending, album, enabled,
                       combo, panel>>
        /\ ui' = "crashed" /\ worker' = [w \in Workers |-> Resting]
    BY DEF Crash, windows
  <1>2. HubMoves /\ Starts' = Starts
    BY <1>1, HubRests
  <1>3. /\ worker' \in [Workers -> Worker]
        /\ \A w \in Workers : worker'[w].pc = "none" /\ ~worker'[w].certain
    BY <1>1, RestingTyped
  <1>4. ViewerTypes /\ MainInv /\ OpInv /\ StreamInv /\ AlbumInSync
    BY DEF ViewerInv, ControlInv
  <1>5. Rest
    BY <1>3 DEF Rest, Parked, Answered
  <1>6. ViewerTypes'
    BY <1>1, <1>2, <1>3, <1>4 DEF ViewerTypes
  <1>7. ControlInv'
    BY <1>1, <1>3, <1>4, Constants DEF ControlInv, MainInv, OpInv, StreamInv, AlbumInSync
  <1> QED
    BY <1>1, <1>2, <1>5, <1>6, <1>7 DEF Leaves

\* A new process.
LEMMA FreshProcess ==
  /\ NewAdapter \in Adapter
  /\ NewAdapter.ring = 0 /\ NewAdapter.since = 0 /\ ~NewAdapter.sdk.connected
  /\ NoFrame \in Frame /\ FirstId \in 1 .. MaxCaptures + 1
  <1>1. NoSdk \in [connected : BOOLEAN, last : 0 .. MaxCaptures] /\ ~NoSdk.connected
    BY Constants DEF NoSdk
  <1> QED
    BY <1>1, Constants DEF NewAdapter, Adapter, NoFrame, Frame, FirstId

LEMMA RelaunchLeaves == ASSUME ViewerInv, Relaunch PROVE Leaves
  <1>1. /\ UNCHANGED hubVars /\ ui = "crashed" /\ ui' = "idle"
        /\ nextId' = FirstId /\ adapter' = NewAdapter /\ held' = "current" /\ running' = FALSE
        /\ latest' = NoFrame /\ pending' = 0 /\ album' = 0 /\ enabled' = {"capture", "start"}
        /\ combo' = 0 /\ panel' = FALSE
        /\ worker' = [w \in Workers |-> Resting]
    BY DEF Relaunch
  <1>2. HubMoves /\ Starts' = Starts /\ Starts \in Nat
    BY <1>1, HubRests, StartsTyped DEF ViewerInv
  <1>3. /\ worker' \in [Workers -> Worker]
        /\ \A w \in Workers : worker'[w].pc = "none" /\ ~worker'[w].certain
    BY <1>1, RestingTyped
  <1>4. Rest
    BY <1>3 DEF Rest, Parked, Answered
  <1>5. ViewerTypes'
    <2>1. adapter' \in Adapter /\ adapter'.ring <= Starts' /\ adapter'.since <= Starts'
      BY <1>1, <1>2, FreshProcess
    <2>2. /\ nextId' \in 1 .. MaxCaptures + 1 /\ combo' \in Ops /\ pending' \in 0 .. 2
          /\ album' \in 0 .. MaxCaptures /\ latest' \in Frame
      BY <1>1, FreshProcess, Constants
    <2>3. /\ enabled' \subseteq Buttons /\ held' \in {"current", "destroyed"}
          /\ running' \in BOOLEAN /\ panel' \in BOOLEAN
      BY <1>1 DEF Buttons
    <2> QED
      BY <1>3, <2>1, <2>2, <2>3 DEF ViewerTypes
  <1>6. ControlInv'
    BY <1>1, <1>3, FreshProcess, Constants
       DEF ControlInv, MainInv, OpInv, StreamInv, AlbumInSync
  <1>7. Free
    BY <1>1 DEF ViewerInv, ControlInv, MainInv, Free, Holds
  <1> QED
    BY <1>2, <1>4, <1>5, <1>6, <1>7 DEF Leaves

\* The stop flag and the projector_op of an adapter.
LEMMA AdapterFields ==
  ASSUME NEW a \in Adapter
  PROVE  /\ \A stop \in BOOLEAN :
              LET b == [a EXCEPT !.stop = stop]
              IN /\ b \in Adapter /\ b.stop = stop /\ b.op = a.op /\ b.ring = a.ring
                 /\ b.since = a.since /\ b.sdk = a.sdk
         /\ \A op \in Ops :
              LET b == [a EXCEPT !.op = op]
              IN /\ b \in Adapter /\ b.op = op /\ b.stop = a.stop /\ b.ring = a.ring
                 /\ b.since = a.since /\ b.sdk = a.sdk
BY DEF Adapter

\* A handler that asks the stream to end waits for it, or asks nobody.
LEMMA StopLeaves ==
  ASSUME ViewerInv, ClickStop \/ ClickDisconnect \/ ConnectDevice
  PROVE  Leaves
  <1>1. /\ UNCHANGED <<hubVars, nextId, held, worker, latest, pending, album, combo, panel>>
        /\ HubMoves /\ Starts' = Starts /\ Rest
    <2>1. UNCHANGED <<hubVars, nextId, held, worker, latest, pending, album, combo, panel>>
      BY DEF ClickStop, ClickDisconnect, ConnectDevice, windows
    <2> QED
      BY <2>1, HubRests DEF Rest
  <1>2. ViewerTypes /\ MainInv /\ OpInv /\ StreamInv /\ AlbumInSync /\ adapter \in Adapter
    BY DEF ViewerInv, ControlInv, ViewerTypes
  <1>3. CASE /\ adapter' = [adapter EXCEPT !.stop = TRUE]
             /\ ui' \in {"stopping", "disconnecting", "replacing"}
             /\ ui \in {"idle", "connecting"}
             /\ UNCHANGED <<running, enabled>>
    <2>1. /\ adapter' \in Adapter /\ adapter'.ring = adapter.ring /\ adapter'.since = adapter.since
          /\ adapter'.sdk = adapter.sdk /\ adapter'.op = adapter.op
      BY <1>2, <1>3, AdapterFields
    <2>2. ViewerTypes'
      BY <1>1, <1>2, <1>3, <2>1 DEF ViewerTypes
    <2>3. ControlInv'
      BY <1>1, <1>2, <1>3, <2>1 DEF ControlInv, MainInv, OpInv, StreamInv, AlbumInSync
    <2> QED
      BY <1>1, <2>1, <2>2, <2>3 DEF Leaves
  <1>4. CASE /\ held = "destroyed" /\ running' = FALSE
             /\ enabled' = (enabled \ {"stop"}) \cup {"start"}
             /\ UNCHANGED <<adapter, ui>>
    <2>1. ViewerTypes'
      BY <1>1, <1>2, <1>4 DEF ViewerTypes, Buttons
    <2>2. ControlInv'
      BY <1>1, <1>2, <1>4 DEF ControlInv, MainInv, OpInv, StreamInv, AlbumInSync, Free, Holds
    <2> QED
      BY <1>1, <1>4, <2>1, <2>2 DEF Leaves
  <1> QED
    BY <1>3, <1>4 DEF ClickStop, ClickDisconnect, ConnectDevice, windows

\* The adapter is told the projector_op shown.
LEMMA SetOpLeaves == ASSUME ViewerInv, SetCaptureProjectorOp PROVE Leaves
  <1>1. /\ UNCHANGED <<hubVars, nextId, held, running, worker, latest, pending, windows>>
        /\ HubMoves /\ Starts' = Starts /\ Rest
        /\ ui = "setting_op" /\ ui' = "idle" /\ adapter' = [adapter EXCEPT !.op = combo]
    <2>1. UNCHANGED <<hubVars, nextId, held, running, worker, latest, pending, windows>>
      BY DEF SetCaptureProjectorOp
    <2> QED
      BY <2>1, HubRests DEF Rest, SetCaptureProjectorOp
  <1>2. /\ ViewerTypes /\ MainInv /\ OpInv /\ StreamInv /\ AlbumInSync
        /\ adapter \in Adapter /\ combo \in Ops
    BY DEF ViewerInv, ControlInv, ViewerTypes
  <1>3. /\ adapter' \in Adapter /\ adapter'.ring = adapter.ring /\ adapter'.since = adapter.since
        /\ adapter'.sdk = adapter.sdk /\ adapter'.op = combo /\ adapter'.stop = adapter.stop
    BY <1>1, <1>2, AdapterFields
  <1>4. ViewerTypes'
    BY <1>1, <1>2, <1>3 DEF ViewerTypes, windows
  <1>5. ControlInv'
    BY <1>1, <1>2, <1>3 DEF ControlInv, MainInv, OpInv, StreamInv, AlbumInSync, windows
  <1> QED
    BY <1>1, <1>3, <1>4, <1>5 DEF Leaves

\* A task that was free is queued.
LEMMA CaptureOnceLeaves == ASSUME ViewerInv, CaptureOnce PROVE Leaves
  <1>1. /\ ViewerTypes /\ MainInv /\ OpInv /\ StreamInv /\ AlbumInSync
        /\ adapter \in Adapter /\ worker \in [Workers -> Worker]
    BY DEF ViewerInv, ControlInv, ViewerTypes
  <1> DEFINE t == CHOOSE t \in Tasks : worker[t].pc = "none"
             r == [Resting EXCEPT !.pc = "queued"]
  <1>2. ui = "capture" /\ t \in Tasks
    BY <1>1 DEF CaptureOnce, MainInv
  <1>3. CASE /\ worker' = [worker EXCEPT ![t] = r] /\ ui' = "idle"
             /\ UNCHANGED <<hubVars, nextId, dialled, adapter, held, running, latest, pending, windows>>
    <2>1. r \in Worker /\ r.pc = "queued" /\ ~r.certain
      BY RestingTyped DEF WorkerPcs
    <2> HIDE DEF r, t
    <2>2. Only(t) /\ worker'[t] = r /\ t \in Workers /\ t # Stream
      BY <1>1, <1>2, <1>3, <2>1, OneThread, Constants, StreamIsNoTask
    <2>3. HubMoves /\ Starts' = Starts
      BY <1>3, HubRests
    <2>4. Rest
      BY <2>1, <2>2 DEF Rest, Parked, Answered, Only
    <2>5. worker'[Stream] = worker[Stream]
      BY <2>2, Constants DEF Only
    <2>6. ViewerTypes'
      BY <1>1, <1>3, <2>2, <2>3 DEF ViewerTypes, Only, windows
    <2>7. ControlInv'
      BY <1>1, <1>2, <1>3, <2>5 DEF ControlInv, MainInv, OpInv, StreamInv, AlbumInSync, windows
    <2> QED
      BY <1>3, <2>3, <2>4, <2>6, <2>7 DEF Leaves
  <1>4. CASE /\ ui' = "idle" /\ enabled' = enabled \cup {"capture"}
             /\ UNCHANGED <<hubVars, nextId, dialled, adapter, held, running, worker, latest, pending,
                            album, combo, panel>>
    <2>1. HubMoves /\ Starts' = Starts
      BY <1>4, HubRests
    <2>2. ViewerTypes'
      BY <1>1, <1>4, <2>1 DEF ViewerTypes, Buttons
    <2>3. ControlInv'
      BY <1>1, <1>2, <1>4 DEF ControlInv, MainInv, OpInv, StreamInv, AlbumInSync
    <2> QED
      BY <1>4, <2>1, <2>2, <2>3 DEF Leaves, Rest
  <1>5. CASE Crash
    BY <1>5, CrashLeaves
  <1> QED
    BY <1>3, <1>4, <1>5 DEF CaptureOnce

\* A thread that has no capture goes on without one; nothing else changes but, perhaps, a button.
LEMMA ThreadLeaves ==
  ASSUME ViewerInv, NEW w \in Workers, Only(w), Parked(w)', worker[w].pc # "none",
         w = Stream =>
           worker'[w].pc = "ended"
             \/ worker[w].pc \in {"looping", "capturing", "listing", "querying", "reading", "pushing"},
         UNCHANGED <<hubVars, nextId, ui, adapter, held, running, latest, pending, album, combo,
                     panel>>,
         enabled' \subseteq Buttons
  PROVE  Leaves
  <1>1. ViewerTypes /\ MainInv /\ OpInv /\ StreamInv /\ AlbumInSync
    BY DEF ViewerInv, ControlInv
  <1>2. HubMoves /\ Starts' = Starts
    BY HubRests
  <1>3. Rest
    BY DEF Rest, Only
  <1>4. ViewerTypes'
    BY <1>1, <1>2 DEF ViewerTypes, Only
  <1>5. MainInv'
    <2>1. ui = "dialling" => Free'
      BY <1>1 DEF MainInv, Free, Holds, Only, Parked, Answered
    <2>2. ui # "crashed"
      BY <1>1 DEF MainInv
    <2>3. ui = "capture" => \E t \in Tasks : worker'[t].pc = "none"
      <3>1. SUFFICES ASSUME ui = "capture" PROVE \E t \in Tasks : worker'[t].pc = "none"
        OBVIOUS
      <3>2. PICK t \in Tasks : worker[t].pc = "none"
        BY <1>1, <3>1 DEF MainInv
      <3>3. t \in Workers /\ worker'[t] = worker[t]
        BY <3>2, Constants DEF Only
      <3> QED
        BY <3>2, <3>3
    <2> QED
      BY <1>1, <2>1, <2>2, <2>3 DEF MainInv
  <1>6. StreamInv'
    <2>1. CASE w = Stream
      BY <1>1, <2>1 DEF StreamInv
    <2>2. CASE w # Stream
      <3>1. worker'[Stream] = worker[Stream]
        BY <2>2, Constants DEF Only
      <3> QED
        BY <1>1, <3>1 DEF StreamInv
    <2> QED
      BY <2>1, <2>2
  <1>7. OpInv' /\ AlbumInSync'
    BY <1>1 DEF OpInv, AlbumInSync
  <1> QED
    BY <1>2, <1>3, <1>4, <1>5, <1>6, <1>7 DEF Leaves, ControlInv

LEMMA CaptureFinishedLeaves ==
  ASSUME ViewerInv, NEW t \in Tasks, CaptureFinished(t)
  PROVE  Leaves
  <1>1. worker \in [Workers -> Worker] /\ t \in Workers /\ t # Stream
    BY Constants, StreamIsNoTask DEF ViewerInv, ViewerTypes
  <1>2. Only(t) /\ worker'[t] = Resting
    BY <1>1, RestingTyped, OneThread DEF CaptureFinished
  <1>3. Parked(t)' /\ worker[t].pc # "none"
    BY <1>2, RestingTyped DEF Parked, Answered, CaptureFinished
  <1>4. enabled' \subseteq Buttons
    BY DEF ViewerInv, ViewerTypes, Buttons, CaptureFinished
  <1> QED
    BY <1>1, <1>2, <1>3, <1>4, ThreadLeaves DEF CaptureFinished

LEMMA StreamEndsLeaves == ASSUME ViewerInv, StreamEnds PROVE Leaves
  <1>1. worker \in [Workers -> Worker] /\ Stream \in Workers /\ "ended" \in WorkerPcs
    BY Constants DEF ViewerInv, ViewerTypes, WorkerPcs
  <1>2. worker[Stream].pc = "looping" /\ ~worker[Stream].certain
    BY <1>1 DEF ViewerInv, WorkerInv, WorkerHolds, StreamEnds
  <1>3. Only(Stream) /\ worker'[Stream].pc = "ended" /\ ~worker'[Stream].certain
    BY <1>1, <1>2, ThreadMoves DEF StreamEnds
  <1>4. Parked(Stream)'
    BY <1>3 DEF Parked, Answered
  <1>5. enabled' \subseteq Buttons
    BY DEF ViewerInv, ViewerTypes, StreamEnds, windows
  <1> QED
    BY <1>1, <1>2, <1>3, <1>4, <1>5, ThreadLeaves DEF StreamEnds, windows

LEMMA StrayTaskLeaves == ASSUME ViewerInv, NEW t \in Tasks, StrayTask(t) PROVE Leaves
  <1>1. worker \in [Workers -> Worker] /\ t \in Workers /\ t # Stream
    BY Constants, StreamIsNoTask DEF ViewerInv, ViewerTypes
  <1>2. worker[t].pc = "queued"
    BY DEF StrayTask
  <1>3. CASE Crash
    BY <1>3, CrashLeaves
  <1>4. CASE /\ Failed(t)
             /\ UNCHANGED <<hubVars, nextId, ui, dialled, adapter, held, running, latest, pending,
                            windows>>
    <2>1. Only(t) /\ worker'[t].pc = "done" /\ ~worker'[t].certain
      BY <1>1, <1>4, ThreadFails
    <2>2. Parked(t)'
      BY <2>1 DEF Parked, Answered
    <2>3. enabled' \subseteq Buttons
      BY <1>4 DEF ViewerInv, ViewerTypes, windows
    <2> QED
      BY <1>1, <1>2, <1>4, <2>1, <2>2, <2>3, ThreadLeaves DEF windows
  <1> QED
    BY <1>3, <1>4 DEF StrayTask

\* The join leaves no thread of the stream, and the tasks as they are.
LEMMA StreamJoined ==
  ASSUME worker \in [Workers -> Worker], Joined
  PROVE  /\ AfterJoin \in [Workers -> Worker]
         /\ AfterJoin[Stream].pc = "none"
         /\ \A w \in Workers : AfterJoin[w] = worker[w] \/ AfterJoin[w] = Resting
         /\ \A t \in Tasks : AfterJoin[t] = worker[t]
  <1> DEFINE r == IF worker[Stream].pc = "ended" THEN Resting ELSE worker[Stream]
  <1>1. Stream \in Workers /\ Resting \in Worker /\ Resting.pc = "none" /\ Tasks \subseteq Workers
        /\ Stream \notin Tasks
    BY Constants, RestingTyped, StreamIsNoTask
  <1>2. r \in Worker /\ r.pc = "none" /\ (r = worker[Stream] \/ r = Resting)
    BY <1>1 DEF Joined
  <1>3. AfterJoin = [worker EXCEPT ![Stream] = r]
    BY DEF AfterJoin
  <1> HIDE DEF r
  <1> QED
    BY <1>1, <1>2, <1>3

LEMMA StartContinuousLeaves == ASSUME ViewerInv, StartContinuous PROVE Leaves
  <1>1. /\ ViewerTypes /\ MainInv /\ OpInv /\ StreamInv /\ AlbumInSync
        /\ adapter \in Adapter /\ worker \in [Workers -> Worker]
    BY DEF ViewerInv, ControlInv, ViewerTypes
  <1>2. CASE Crash
    BY <1>2, CrashLeaves
  <1>3. CASE ~Crash
    <2>1. /\ ui = "starting" /\ ui' = "idle"
          /\ enabled' = (enabled \ {"start"}) \cup {"stop"}
          /\ UNCHANGED <<hubVars, nextId, dialled, held, latest, pending, album, combo, panel>>
      BY <1>3 DEF StartContinuous
    <2>2. HubMoves /\ Starts' = Starts /\ enabled' \subseteq Buttons
      BY <1>1, <2>1, HubRests DEF ViewerTypes, Buttons
    <2>3. CASE held = "current" /\ worker[Stream].pc = "none"
               /\ worker' = [worker EXCEPT ![Stream].pc = "looping"]
               /\ adapter' = [adapter EXCEPT !.stop = FALSE] /\ running' = TRUE
      <3>1. Only(Stream) /\ worker'[Stream].pc = "looping" /\ ~worker'[Stream].certain
        <4>1. "looping" \in WorkerPcs /\ Stream \in Workers /\ Moves(Stream, "looping")
          BY <2>3, Constants DEF WorkerPcs, Moves
        <4>2. ~worker[Stream].certain
          BY <2>3, <4>1 DEF ViewerInv, WorkerInv, WorkerHolds
        <4> QED
          BY <1>1, <4>1, <4>2, ThreadMoves
      <3>2. /\ adapter' \in Adapter /\ adapter'.ring = adapter.ring
            /\ adapter'.since = adapter.since /\ adapter'.sdk = adapter.sdk
            /\ adapter'.op = adapter.op /\ ~adapter'.stop
        BY <1>1, <2>3, AdapterFields
      <3>3. Rest
        BY <3>1 DEF Rest, Only, Parked, Answered
      <3>4. ViewerTypes'
        BY <1>1, <2>1, <2>2, <2>3, <3>1, <3>2 DEF ViewerTypes, Only
      <3>5. ControlInv'
        BY <1>1, <2>1, <2>3, <3>1, <3>2 DEF ControlInv, MainInv, OpInv, StreamInv, AlbumInSync
      <3> QED
        BY <2>2, <3>2, <3>3, <3>4, <3>5 DEF Leaves
    <2>4. CASE worker' = worker /\ adapter' = adapter /\ running' = running
      <3>1. ViewerTypes'
        BY <1>1, <2>1, <2>2, <2>4 DEF ViewerTypes
      <3>2. ControlInv'
        BY <1>1, <2>1, <2>4 DEF ControlInv, MainInv, OpInv, StreamInv, AlbumInSync
      <3> QED
        BY <2>2, <2>4, <3>1, <3>2 DEF Leaves, Rest
    <2>5. running \in BOOLEAN
      BY <1>1 DEF ViewerTypes
    <2> QED
      BY <1>3, <2>3, <2>4, <2>5 DEF StartContinuous
  <1> QED
    BY <1>2, <1>3

LEMMA StopContinuousLeaves == ASSUME ViewerInv, StopContinuous PROVE Leaves
  <1>1. /\ ViewerTypes /\ MainInv /\ OpInv /\ StreamInv /\ AlbumInSync
        /\ adapter \in Adapter /\ worker \in [Workers -> Worker]
    BY DEF ViewerInv, ControlInv, ViewerTypes
  <1>2. /\ ui = "stopping" /\ ui' = "idle" /\ running' = FALSE /\ worker' = AfterJoin /\ Joined
        /\ enabled' = (enabled \ {"stop"}) \cup {"start"}
        /\ UNCHANGED <<hubVars, nextId, dialled, adapter, held, latest, pending, album, combo, panel>>
    BY DEF StopContinuous
  <1>3. HubMoves /\ Starts' = Starts /\ enabled' \subseteq Buttons
    BY <1>1, <1>2, HubRests DEF ViewerTypes, Buttons
  <1>4. /\ worker' \in [Workers -> Worker] /\ worker'[Stream].pc = "none"
        /\ \A w \in Workers : worker'[w] = worker[w] \/ worker'[w] = Resting
    BY <1>1, <1>2, StreamJoined
  <1>5. Rest
    BY <1>4, RestingTyped DEF Rest, Parked, Answered
  <1>6. ViewerTypes'
    BY <1>1, <1>2, <1>3, <1>4 DEF ViewerTypes
  <1>7. ControlInv'
    BY <1>1, <1>2, <1>4 DEF ControlInv, MainInv, OpInv, StreamInv, AlbumInSync
  <1> QED
    BY <1>2, <1>3, <1>5, <1>6, <1>7 DEF Leaves

\* What the SDK asks of the hub.
LEMMA SdkMoves ==
  /\ \A sdk : SdkDisconnect(sdk) => HubMoves
  /\ \A reachable \in BOOLEAN : ConnectAnswered(reachable) => HubMoves
  /\ \A reachable \in BOOLEAN : ConnectFailed(reachable) => HubMoves
BY DEF SdkDisconnect, ConnectAnswered, ConnectFailed, HubMoves

LEMMA DisconnectLeaves == ASSUME ViewerInv, Disconnect PROVE Leaves
  <1>1. /\ ViewerTypes /\ MainInv /\ OpInv /\ StreamInv /\ AlbumInSync
        /\ adapter \in Adapter /\ worker \in [Workers -> Worker]
    BY DEF ViewerInv, ControlInv, ViewerTypes
  <1>2. /\ ui = "disconnecting" /\ ui' = "idle" /\ worker' = AfterJoin /\ Joined /\ Free
        /\ enabled' = {} /\ album' = 0 /\ panel' = adapter'.sdk.connected
        /\ adapter' = [adapter EXCEPT !.sdk = NoSdk, !.ring = 0, !.since = 0]
        /\ UNCHANGED <<nextId, dialled, held, running, latest, pending, combo>>
    BY DEF Disconnect, RefreshParameterList
  <1>3. HubMoves
    BY SdkMoves DEF Disconnect
  <1>4. Starts' \in Nat
    BY <1>3, HubEffects DEF ViewerInv
  <1>5. /\ worker' \in [Workers -> Worker] /\ worker'[Stream].pc = "none"
        /\ \A w \in Workers : worker'[w] = worker[w] \/ worker'[w] = Resting
    BY <1>1, <1>2, StreamJoined
  <1>6. Rest
    BY <1>5, RestingTyped DEF Rest, Parked, Answered
  <1>7. /\ adapter' \in Adapter /\ adapter'.ring = 0 /\ adapter'.since = 0
        /\ adapter'.sdk.connected = FALSE
    <2>1. NoSdk \in [connected : BOOLEAN, last : 0 .. MaxCaptures] /\ NoSdk.connected = FALSE
      BY Constants DEF NoSdk
    <2> QED
      BY <1>1, <1>2, <2>1 DEF Adapter
  <1>8. ViewerTypes'
    <2>1. panel' = FALSE
      BY <1>2, <1>7, Zenon
    <2>2. adapter'.ring <= Starts' /\ adapter'.since <= Starts'
      BY <1>4, <1>7
    <2>3. album' \in 0 .. MaxCaptures /\ enabled' \subseteq Buttons
      BY <1>2, Constants
    <2> QED
      BY <1>1, <1>2, <1>5, <1>7, <2>1, <2>2, <2>3 DEF ViewerTypes
  <1>9. ControlInv'
    BY <1>1, <1>2, <1>5, <1>7 DEF ControlInv, MainInv, OpInv, StreamInv, AlbumInSync
  <1> QED
    BY <1>2, <1>3, <1>6, <1>8, <1>9 DEF Leaves

\* The adapter that is replaced has no capture running, the new one none yet.
LEMMA ReplaceAdapterLeaves == ASSUME ViewerInv, ReplaceAdapter PROVE Leaves
  <1>1. /\ ViewerTypes /\ MainInv /\ OpInv /\ StreamInv /\ AlbumInSync /\ WorkerInv
        /\ adapter \in Adapter /\ worker \in [Workers -> Worker]
    BY DEF ViewerInv, ControlInv, ViewerTypes
  <1>2. /\ ui = "replacing" /\ ui' = "dialling" /\ Joined /\ Free
        /\ worker' = [w \in Workers |-> IF AfterJoin[w].pc = "queued"
                                        THEN [AfterJoin[w] EXCEPT !.stray = TRUE] ELSE AfterJoin[w]]
        /\ adapter' = NewAdapter /\ held' = "destroyed"
        /\ UNCHANGED <<nextId, dialled, running, latest, pending, windows>>
    BY DEF ReplaceAdapter
  <1>3. HubMoves
    BY SdkMoves DEF ReplaceAdapter
  <1>4. Starts' \in Nat
    BY <1>3, HubEffects DEF ViewerInv
  <1>5. /\ AfterJoin \in [Workers -> Worker] /\ AfterJoin[Stream].pc = "none"
        /\ \A w \in Workers : AfterJoin[w] = worker[w] \/ AfterJoin[w] = Resting
    BY <1>1, <1>2, StreamJoined
  <1>6. ASSUME NEW w \in Workers
        PROVE  /\ worker'[w] \in Worker
               /\ worker'[w] = worker[w] \/ Parked(w)'
               /\ worker'[w].pc = AfterJoin[w].pc
               /\ ~Holds(w)'
    <2> DEFINE r == [AfterJoin[w] EXCEPT !.stray = TRUE]
    <2>1. AfterJoin[w] \in Worker
      BY <1>5
    <2>2. r \in Worker /\ r.pc = AfterJoin[w].pc /\ r.certain = AfterJoin[w].certain
      BY <2>1 DEF Worker
    <2>3. worker'[w] = IF AfterJoin[w].pc = "queued" THEN r ELSE AfterJoin[w]
      BY <1>2
    <2> HIDE DEF r
    <2>4. worker'[w] \in Worker /\ worker'[w].pc = AfterJoin[w].pc
      BY <2>1, <2>2, <2>3
    <2>5. ~Holds(w)'
      <3>1. AfterJoin[w].pc \in {worker[w].pc, "none"}
        BY <1>5, RestingTyped
      <3>2. ~Holds(w)
        BY <1>2 DEF Free
      <3> QED
        BY <2>4, <3>1, <3>2 DEF Holds
    <2>6. CASE AfterJoin[w] = Resting
      BY <2>3, <2>4, <2>5, <2>6, RestingTyped DEF Parked, Answered
    <2>7. CASE AfterJoin[w] = worker[w] /\ worker[w].pc # "queued"
      BY <2>3, <2>4, <2>5, <2>7
    <2>8. CASE AfterJoin[w] = worker[w] /\ worker[w].pc = "queued"
      <3>1. ~worker[w].certain
        BY <1>1, <2>8 DEF WorkerInv, WorkerHolds
      <3>2. worker'[w] = r
        BY <2>3, <2>8
      <3>3. worker'[w].pc = "queued"
        BY <2>4, <2>8
      <3>4. worker'[w].certain = worker[w].certain
        BY <2>2, <2>8, <3>2
      <3> QED
        BY <2>4, <2>5, <3>1, <3>3, <3>4 DEF Parked, Answered
    <2> QED
      BY <1>5, <2>4, <2>5, <2>6, <2>7, <2>8
  <1>7. worker' \in [Workers -> Worker]
    BY <1>2, <1>6
  <1>8. worker'[Stream].pc = "none" /\ Free' /\ Rest
    BY <1>5, <1>6, Constants DEF Free, Rest
  <1>9. ViewerTypes'
    BY <1>1, <1>2, <1>4, <1>7, FreshProcess DEF ViewerTypes, windows
  <1>10. ControlInv'
    BY <1>1, <1>2, <1>8, FreshProcess
       DEF ControlInv, MainInv, OpInv, StreamInv, AlbumInSync, windows
  <1> QED
    BY <1>2, <1>3, <1>8, <1>9, <1>10 DEF Leaves

\* A connection is made on a fresh adapter, which nobody captures with yet.
LEMMA ConnectedLeaves == ASSUME ViewerInv, Connected PROVE Leaves
  <1>1. /\ ViewerTypes /\ MainInv /\ OpInv /\ StreamInv /\ AlbumInSync
        /\ adapter \in Adapter /\ worker \in [Workers -> Worker]
    BY DEF ViewerInv, ControlInv, ViewerTypes
  <1>2. CASE Crash
    BY <1>2, CrashLeaves
  <1>3. CASE ~Crash
    <2>1. /\ ui = "dialling" /\ ui' = "idle" /\ held' = "current" /\ running' = FALSE
          /\ ConnectAnswered(dialled = "hub")
          /\ adapter' = [adapter EXCEPT !.sdk.connected = TRUE, !.since = Starts, !.op = combo]
          /\ enabled' = enabled \cup {"disconnect", "capture", "start"}
          /\ panel' = adapter'.sdk.connected
          /\ UNCHANGED <<nextId, worker, latest, pending, album, combo>>
      BY <1>3 DEF Connected, OpShown, RefreshParameterList
    <2>2. adapter = NewAdapter /\ held = "destroyed" /\ Free
      BY <1>1, <2>1 DEF MainInv
    <2>3. HubMoves /\ Starts' = Starts /\ Starts \in Nat
      BY <2>1, StartsTyped DEF ConnectAnswered, SessionOpens, HubMoves, Starts, ViewerInv
    <2>4. /\ adapter' \in Adapter /\ adapter'.ring = 0 /\ adapter'.since = Starts
          /\ adapter'.op = combo /\ adapter'.sdk.connected = TRUE
      <3> DEFINE sdk == [adapter.sdk EXCEPT !.connected = TRUE]
      <3>1. sdk \in [connected : BOOLEAN, last : 0 .. MaxCaptures] /\ sdk.connected = TRUE
        BY <1>1 DEF Adapter
      <3>2. adapter' = [adapter EXCEPT !.sdk = sdk, !.since = Starts, !.op = combo]
        BY <1>1, <2>1
      <3>3. combo \in Ops /\ adapter.ring = 0
        BY <1>1, <2>2, FreshProcess DEF ViewerTypes
      <3> HIDE DEF sdk
      <3> QED
        BY <1>1, <2>3, <3>1, <3>2, <3>3 DEF Adapter
    <2>5. panel' = TRUE
      BY <2>1, <2>4, Zenon
    <2>6. ViewerTypes'
      <3>1. adapter'.ring <= Starts' /\ adapter'.since <= Starts'
        BY <2>3, <2>4
      <3>2. enabled' \subseteq Buttons
        BY <1>1, <2>1 DEF ViewerTypes, Buttons
      <3> QED
        BY <1>1, <2>1, <2>4, <2>5, <3>1, <3>2 DEF ViewerTypes
    <2>7. ~(worker[Stream].pc \in {"looping", "capturing", "listing", "querying", "reading", "pushing"})
      BY <1>1, <2>2 DEF StreamInv
    <2>8. ControlInv'
      BY <1>1, <2>1, <2>4, <2>7 DEF ControlInv, MainInv, OpInv, StreamInv, AlbumInSync
    <2> QED
      BY <2>1, <2>2, <2>3, <2>6, <2>8 DEF Leaves, Rest
  <1> QED
    BY <1>2, <1>3

LEMMA ConnectionFailedLeaves == ASSUME ViewerInv, ConnectionFailed PROVE Leaves
  <1>1. ViewerTypes /\ MainInv /\ OpInv /\ StreamInv /\ AlbumInSync
    BY DEF ViewerInv, ControlInv
  <1>2. /\ ui = "dialling" /\ ui' = "idle" /\ enabled' = enabled \ {"disconnect"}
        /\ UNCHANGED <<nextId, adapter, held, running, worker, latest, pending, album, combo, panel>>
    BY DEF ConnectionFailed
  <1>3. HubMoves
    BY SdkMoves DEF ConnectionFailed
  <1>4. /\ Starts \in Nat /\ Starts' \in Nat /\ Starts <= Starts'
        /\ adapter.ring \in Nat /\ adapter.since \in Nat
    BY <1>1, <1>3, HubEffects DEF ViewerInv, ViewerTypes, Adapter
  <1>5. ViewerTypes'
    BY <1>1, <1>2, <1>4 DEF ViewerTypes
  <1>6. adapter = NewAdapter
    BY <1>1, <1>2 DEF MainInv
  <1>7. ControlInv'
    BY <1>1, <1>2, <1>6, FreshProcess DEF ControlInv, MainInv, OpInv, StreamInv, AlbumInSync
  <1> QED
    BY <1>2, <1>3, <1>5, <1>7 DEF Leaves, Rest

LEMMA WorldLeaves == ASSUME ViewerInv, World PROVE Leaves
  <1>1. ViewerTypes /\ MainInv /\ OpInv /\ StreamInv /\ AlbumInSync
    BY DEF ViewerInv, ControlInv
  <1>2. UNCHANGED <<nextId, ui, dialled, adapter, held, running, worker, latest, pending, windows>>
        /\ HubMoves
    BY EnvironmentMoves DEF World
  <1>3. /\ Starts \in Nat /\ Starts' \in Nat /\ Starts <= Starts'
        /\ adapter.ring \in Nat /\ adapter.since \in Nat
    BY <1>1, <1>2, HubEffects DEF ViewerInv, ViewerTypes, Adapter
  <1>4. ViewerTypes'
    BY <1>1, <1>2, <1>3 DEF ViewerTypes, windows
  <1>5. ControlInv'
    BY <1>1, <1>2
       DEF ControlInv, MainInv, OpInv, StreamInv, AlbumInSync, Free, Holds, windows
  <1> QED
    BY <1>2, <1>4, <1>5 DEF Leaves, Rest

\* All of them.
LEMMA OtherSteps ==
  ASSUME ViewerInv, [Next]_vars, ~(\E w \in Workers : Working(w))
  PROVE  Leaves
  <1>1. CASE UNCHANGED vars
    BY <1>1, QuietSteps
  <1>2. CASE User
    BY <1>2, QuietSteps, StopLeaves, CrashLeaves, RelaunchLeaves DEF User, ClickStopCrashes
  <1>3. CASE Handler
    BY <1>3, QuietSteps, StopLeaves, SetOpLeaves, CaptureOnceLeaves, StartContinuousLeaves,
       StopContinuousLeaves, DisconnectLeaves, ReplaceAdapterLeaves, ConnectedLeaves,
       ConnectionFailedLeaves DEF Handler
  <1>4. CASE FrameReady
    BY <1>4, QuietSteps
  <1>5. CASE \E t \in Tasks : StrayTask(t) \/ CaptureFinished(t)
    BY <1>5, StrayTaskLeaves, CaptureFinishedLeaves
  <1>6. CASE StreamEnds
    BY <1>6, StreamEndsLeaves
  <1>7. CASE World
    BY <1>7, WorldLeaves
  <1> QED
    BY <1>1, <1>2, <1>3, <1>4, <1>5, <1>6, <1>7 DEF Next

-----------------------------------------------------------------------------
\* The invariant.

\* A capture is left as it was by a step that leaves its thread alone, and its connection.
LEMMA CaptureStays ==
  ASSUME ViewerInv, HubMoves, NEW w \in Workers, worker'[w] = worker[w],
         worker[w].pc = "reading" => adapter'.since = adapter.since
  PROVE  WorkerHolds(w)'
  <1>1. /\ Starts \in Nat /\ Starts' \in Nat /\ Starts <= Starts'
        /\ Captures \in Nat /\ Captures' \in Nat /\ Captures <= Captures'
        /\ \A n \in 1 .. Captures : made'[n] = made[n]
        /\ \A number \in 1 .. Captures :
             /\ Kept(number)' => Kept(number)
             /\ Starts' = Starts /\ Kept(number)' =>
                  \A slot \in Slots : InRing(slot, number) => InRing(slot, number)'
    BY HubEffects DEF ViewerInv
  <1>2. WorkerHolds(w) /\ worker[w] \in Worker /\ adapter.since <= Starts
    BY DEF ViewerInv, WorkerInv, ViewerTypes
  <1>3. ASSUME worker[w].pc \in Answered
        PROVE  /\ worker[w].own \in 1 .. Captures /\ worker[w].own \in 1 .. Captures'
               /\ made'[worker[w].own].id = worker[w].id
    <2>1. worker[w].own \in 1 .. Captures /\ made[worker[w].own].id = worker[w].id
      BY <1>2, <1>3 DEF WorkerHolds
    <2> QED
      BY <1>1, <2>1
  <1>4. ASSUME worker[w].pc = "reading", Certain(w)'
        PROVE  InRing(worker[w].slot, worker[w].own)'
    <2>1. PICK own : own = worker[w].own /\ own = worker'[w].own
      OBVIOUS
    <2>2. PICK slot : slot = worker[w].slot /\ slot = worker'[w].slot
      OBVIOUS
    <2>3. /\ adapter'.since = Starts' /\ adapter'.since = adapter.since
          /\ \A n \in own + 1 .. Captures' : made'[n].id # worker[w].id
          /\ Kept(own)'
      BY <1>4, <2>1 DEF Certain, Kept
    <2>4. own \in 1 .. Captures /\ slot \in Slots
      BY <1>2, <1>3, <1>4, <2>1, <2>2 DEF Answered, Worker
    <2>5. Starts' = Starts
      BY <1>1, <1>2, <2>3
    <2>6. Certain(w)
      <3>1. ASSUME NEW n \in own + 1 .. Captures PROVE made[n].id # worker[w].id
        <4>1. n \in 1 .. Captures /\ n \in own + 1 .. Captures'
          BY <1>1, <2>4
        <4> QED
          BY <1>1, <2>3, <4>1
      <3>2. Kept(own)
        BY <1>1, <2>3, <2>4
      <3> QED
        BY <2>1, <2>3, <2>5, <3>1, <3>2 DEF Certain
    <2>7. InRing(slot, own)
      BY <1>2, <1>4, <2>1, <2>2, <2>6 DEF WorkerHolds
    <2>8. InRing(slot, own)'
      BY <1>1, <2>3, <2>4, <2>5, <2>7
    <2> QED
      BY <2>1, <2>2, <2>8 DEF InRing
  <1> QED
    BY <1>2, <1>3, <1>4 DEF WorkerHolds

\* A thread without a capture has nothing to keep.
LEMMA NothingToKeep == ASSUME NEW w \in Workers, Parked(w)' PROVE WorkerHolds(w)'
BY DEF Parked, WorkerHolds, Answered

\* A step of one thread leaves the control alone, whatever it does to its capture, if the main
\* thread is not affected and the thread does not take up work while none may.
LEMMA ControlKept ==
  ASSUME ViewerInv, NEW w \in Workers, Only(w), worker[w].pc # "none", AdapterServes,
         adapter'.ring # 0 => adapter'.since <= adapter'.ring,
         ui = "dialling" => adapter' = adapter /\ ~Holds(w)',
         w = Stream =>
           worker[w].pc \in {"looping", "capturing", "listing", "querying", "reading", "pushing"},
         UNCHANGED <<ui, held, running, combo>>, AlbumInSync'
  PROVE  ControlInv'
  <1>1. ViewerTypes /\ MainInv /\ OpInv /\ StreamInv /\ AlbumInSync
    BY DEF ViewerInv, ControlInv
  <1>2. MainInv'
    <2>1. ui = "dialling" => Free' /\ adapter' = adapter
      BY <1>1 DEF MainInv, Free, Holds, Only
    <2>2. ui # "crashed"
      BY <1>1 DEF MainInv
    <2>3. ASSUME ui = "capture" PROVE \E t \in Tasks : worker'[t].pc = "none"
      <3>1. PICK t \in Tasks : worker[t].pc = "none"
        BY <1>1, <2>3 DEF MainInv
      <3>2. t \in Workers /\ worker'[t] = worker[t]
        BY <3>1, Constants DEF Only
      <3> QED
        BY <3>1, <3>2
    <2> QED
      BY <1>1, <2>1, <2>2, <2>3 DEF MainInv
  <1>3. OpInv'
    BY <1>1 DEF OpInv, AdapterServes
  <1>4. StreamInv'
    <2>1. CASE w = Stream
      BY <1>1, <2>1 DEF StreamInv, AdapterServes
    <2>2. CASE w # Stream
      <3>1. worker'[Stream] = worker[Stream]
        BY <2>2, Constants DEF Only
      <3> QED
        BY <1>1, <3>1 DEF StreamInv, AdapterServes
    <2> QED
      BY <2>1, <2>2
  <1> QED
    BY <1>2, <1>3, <1>4 DEF ControlInv

\* A thread's step keeps its capture's promise.
LEMMA WorkingKeeps ==
  ASSUME ViewerInv, NEW w \in Workers, Working(w)
  PROVE  /\ HubMoves
         /\ Only(w)
         /\ worker[w].pc # "none"
         /\ w = Stream =>
              worker[w].pc \in {"looping", "capturing", "listing", "querying", "reading", "pushing"}
         /\ AdapterServes
         /\ adapter'.ring # 0 => adapter'.since <= adapter'.ring
         /\ adapter'.ring <= Starts'
         /\ ui = "dialling" => adapter' = adapter /\ ~Holds(w)'
         /\ UNCHANGED <<ui, held, running, album, enabled, combo, panel>>
         /\ nextId' \in 1 .. MaxCaptures + 1
         /\ latest' \in Frame /\ pending' \in 0 .. 2
         /\ AlbumInSync'
         /\ WorkerHolds(w)'
  <1>1. /\ HubInv /\ ViewerTypes /\ WorkerInv /\ MainInv /\ AlbumInSync /\ WorkerHolds(w)
        /\ worker \in [Workers -> Worker] /\ adapter \in Adapter /\ worker[w] \in Worker
        /\ nextId \in 1 .. MaxCaptures + 1 /\ latest \in Frame /\ pending \in 0 .. 2
        /\ adapter.ring <= Starts
    BY DEF ViewerInv, ControlInv, ViewerTypes, WorkerInv
  <1>2. /\ Starts \in Nat
        /\ adapter.ring # 0 => adapter.since <= adapter.ring
        /\ ui = "dialling" => adapter = NewAdapter /\ ~Holds(w)
    BY <1>1, StartsTyped DEF MainInv, Free
  <1>3. CASE BeginCapture(w)
    <2>1. /\ UNCHANGED <<hubVars, ui, adapter, held, running, latest, pending, album, enabled, combo,
                         panel>>
      BY <1>3 DEF BeginCapture, windows
    <2>2. HubMoves /\ Starts' = Starts /\ AdapterServes
      BY <1>1, <2>1, HubRests, AdapterRests
    <2>3. /\ Only(w)
          /\ nextId' \in 1 .. MaxCaptures + 1
          /\ worker[w].pc = IF w = Stream THEN "looping" ELSE "queued"
          /\ \/ /\ worker'[w].pc = "capturing"
                /\ worker'[w].id \in 1 .. MaxCaptures
                /\ ~worker'[w].certain
                /\ adapter.sdk.connected
             \/ worker'[w].pc = (IF w = Stream THEN "looping" ELSE "done") /\ ~worker'[w].certain
      BY <1>1, <1>3, CaptureBegins
    <2>4. WorkerHolds(w)'
      BY <2>3 DEF WorkerHolds, Answered
    <2>5. ui = "dialling" => ~Holds(w)'
      BY <1>2, <2>3, FreshProcess DEF Holds
    <2>6. AlbumInSync'
      BY <1>1, <2>1 DEF AlbumInSync
    <2> QED
      BY <1>1, <1>2, <2>1, <2>2, <2>3, <2>4, <2>5, <2>6
  <1>4. CASE CaptureReturns(w)
    <2>1. /\ UNCHANGED <<nextId, ui, held, running, latest, pending, album, enabled, combo, panel>>
      BY <1>4 DEF CaptureReturns, windows
    <2>2. /\ HubMoves
          /\ Only(w)
          /\ worker[w].pc = "capturing"
          /\ AdapterServes /\ adapter'.ring = adapter.ring
          /\ \/ /\ worker'[w].pc = "listing"
                /\ worker'[w].id \in 1 .. MaxCaptures
                /\ worker'[w].own \in 1 .. Captures'
                /\ made'[worker'[w].own].id = worker'[w].id
                /\ ~worker'[w].certain
             \/ worker'[w].pc = (IF w = Stream THEN "looping" ELSE "done") /\ ~worker'[w].certain
      BY <1>1, <1>4, CaptureEnds
    <2>3. WorkerHolds(w)'
      BY <2>2 DEF WorkerHolds, Answered
    <2>4. ui # "dialling"
      BY <1>2, <2>2 DEF Holds
    <2>5. AlbumInSync'
      BY <1>1, <2>1 DEF AlbumInSync
    <2>6. adapter'.since = adapter.since
      BY <2>2 DEF AdapterServes
    <2>7. adapter'.ring <= Starts'
      <3>1. Starts \in Nat /\ Starts' \in Nat /\ Starts <= Starts' /\ adapter.ring \in Nat
        BY <1>1, <2>2, HubEffects DEF Adapter
      <3> QED
        BY <1>1, <2>2, <3>1
    <2> QED
      BY <1>1, <1>2, <2>1, <2>2, <2>3, <2>4, <2>5, <2>6, <2>7
  <1>5. CASE Lists(w) \/ Queries(w)
    <2>1. UNCHANGED <<hubVars, nextId, ui, adapter, held, running, latest, pending, album, enabled,
                      combo, panel>>
      BY <1>5 DEF Lists, Queries, windows
    <2>2. HubMoves /\ Starts' = Starts /\ AdapterServes
      BY <1>1, <2>1, HubRests, AdapterRests
    <2>3. /\ Only(w)
          /\ worker[w].pc \in Answered
          /\ \/ /\ worker'[w].pc \in {"querying", "reading"}
                /\ worker'[w].id = worker[w].id /\ worker'[w].own = worker[w].own
                /\ ~worker'[w].certain
                /\ worker'[w].pc = "reading" /\ Certain(w) => InRing(worker'[w].slot, worker[w].own)
             \/ worker'[w].pc = (IF w = Stream THEN "looping" ELSE "done") /\ ~worker'[w].certain
      BY <1>1, <1>5, AnswerFound
    <2>4. ASSUME worker'[w].pc \in {"querying", "reading"} PROVE WorkerHolds(w)'
      <3>1. /\ worker'[w].id = worker[w].id /\ worker'[w].own = worker[w].own
            /\ ~worker'[w].certain
            /\ worker'[w].pc = "reading" /\ Certain(w) => InRing(worker'[w].slot, worker[w].own)
        BY <2>3, <2>4
      <3>2. /\ worker[w].id \in 1 .. MaxCaptures
            /\ worker[w].own \in 1 .. Captures
            /\ made[worker[w].own].id = worker[w].id
        BY <1>1, <2>3 DEF WorkerHolds
      <3>3. Captures' = Captures /\ UNCHANGED <<memory, cursor, made, adapter>> /\ Starts' = Starts
        BY <2>1, <2>2 DEF hubVars, Captures
      <3>4. Certain(w)' => Certain(w)
        BY <3>1, <3>3 DEF Certain, Kept, Written
      <3>5. worker'[w].pc = "reading" /\ Certain(w)' => InRing(worker'[w].slot, worker[w].own)
        BY <3>1, <3>4
      <3>6. InRing(worker'[w].slot, worker[w].own) => InRing(worker[w].slot, worker[w].own)'
        BY <3>1, <3>3 DEF InRing, Written, Captures, Starts
      <3> QED
        BY <2>4, <3>1, <3>2, <3>3, <3>5, <3>6 DEF WorkerHolds
    <2>5. ASSUME worker'[w].pc \notin {"querying", "reading"} PROVE WorkerHolds(w)'
      BY <2>3, <2>5 DEF WorkerHolds, Answered
    <2>6. ui # "dialling"
      BY <1>2, <2>3 DEF Holds, Answered
    <2>7. AlbumInSync'
      BY <1>1, <2>1 DEF AlbumInSync
    <2>8. worker[w].pc \in {"listing", "querying", "reading"}
      BY <2>3 DEF Answered
    <2> QED
      BY <1>1, <1>2, <2>1, <2>2, <2>3, <2>4, <2>5, <2>6, <2>7, <2>8
  <1>6. CASE ReadsFrame(w)
    <2>1. UNCHANGED <<hubVars, nextId, ui, held, running, latest, pending, album, enabled, combo,
                      panel>>
      BY <1>6 DEF ReadsFrame, windows
    <2>2. HubMoves /\ Starts' = Starts
      BY <2>1, HubRests
    <2>3. /\ Only(w)
          /\ worker[w].pc = "reading" /\ worker'[w].pc = "pushing"
          /\ worker'[w].certain => worker'[w].frame.number = worker'[w].own
          /\ AdapterServes
          /\ adapter'.ring \in 1 .. Starts /\ adapter.since <= adapter'.ring
      BY <1>1, <1>6, FrameRead
    <2>4. WorkerHolds(w)'
      BY <2>3 DEF WorkerHolds, Answered
    <2>5. ui # "dialling"
      BY <1>2, <2>3 DEF Holds
    <2>6. AlbumInSync'
      BY <1>1, <2>1 DEF AlbumInSync
    <2>7. adapter'.since <= adapter'.ring /\ adapter'.ring <= Starts'
      BY <1>2, <2>2, <2>3 DEF AdapterServes
    <2> QED
      BY <1>1, <2>1, <2>2, <2>3, <2>4, <2>5, <2>6, <2>7
  <1>7. CASE Pushes(w)
    <2>1. /\ UNCHANGED <<hubVars, nextId, ui, adapter, held, running, album, enabled, combo, panel>>
          /\ worker[w].pc = "pushing" /\ latest' = worker[w].frame
          /\ pending' = IF pending < 2 THEN pending + 1 ELSE pending
      BY <1>7 DEF Pushes, windows
    <2>2. HubMoves /\ Starts' = Starts /\ AdapterServes
      BY <1>1, <2>1, HubRests, AdapterRests
    <2>3. /\ Only(w)
          /\ worker'[w].pc = IF w = Stream THEN "looping" ELSE "done"
          /\ ~worker'[w].certain
      BY <1>1, <1>7, PushEnds, ThreadFails
    <2>4. WorkerHolds(w)' /\ ~Holds(w)'
      BY <2>3 DEF WorkerHolds, Answered, Holds
    <2>5. latest' \in Frame /\ pending' \in 0 .. 2 /\ pending' # 0
      BY <1>1, <2>1 DEF Worker
    <2>6. AlbumInSync'
      BY <2>5 DEF AlbumInSync
    <2> QED
      BY <1>1, <1>2, <2>1, <2>2, <2>3, <2>4, <2>5, <2>6
  <1> QED
    BY <1>3, <1>4, <1>5, <1>6, <1>7 DEF Working

LEMMA ViewerInitial == Init => ViewerInv
  <1> SUFFICES ASSUME Init PROVE ViewerInv
    OBVIOUS
  <1>1. SdkInit /\ ViewerInit
    BY DEF Init
  <1>2. HubInv
    BY <1>1, HubInitial
  <1>3. /\ ui = "idle" /\ adapter = NewAdapter /\ held = "current" /\ running = FALSE
        /\ worker = [w \in Workers |-> Resting] /\ latest = NoFrame /\ pending = 0 /\ album = 0
        /\ enabled = {"capture", "start"} /\ combo = 0 /\ panel = FALSE /\ nextId = FirstId
    BY <1>1 DEF ViewerInit, SdkInit
  <1>4. /\ worker \in [Workers -> Worker]
        /\ \A w \in Workers : worker[w].pc = "none" /\ ~worker[w].certain
    BY <1>3, RestingTyped
  <1>5. ViewerTypes
    <2>1. adapter \in Adapter /\ adapter.ring <= Starts /\ adapter.since <= Starts
      BY <1>2, <1>3, FreshProcess, StartsTyped
    <2>2. /\ nextId \in 1 .. MaxCaptures + 1 /\ combo \in Ops /\ pending \in 0 .. 2
          /\ album \in 0 .. MaxCaptures /\ latest \in Frame
      BY <1>3, FreshProcess, Constants
    <2>3. /\ enabled \subseteq Buttons /\ held \in {"current", "destroyed"}
          /\ running \in BOOLEAN /\ panel \in BOOLEAN
      BY <1>3 DEF Buttons
    <2> QED
      BY <1>4, <2>1, <2>2, <2>3 DEF ViewerTypes
  <1>6. WorkerInv
    BY <1>4 DEF WorkerInv, WorkerHolds, Answered
  <1>7. ControlInv
    BY <1>3, <1>4, FreshProcess, Constants
       DEF ControlInv, MainInv, OpInv, StreamInv, AlbumInSync
  <1> QED
    BY <1>2, <1>5, <1>6, <1>7 DEF ViewerInv

LEMMA ViewerInductive == ViewerInv /\ [Next]_vars => ViewerInv'
  <1> SUFFICES ASSUME ViewerInv, [Next]_vars PROVE ViewerInv'
    OBVIOUS
  <1>1. ASSUME NEW w \in Workers, Working(w) PROVE ViewerInv'
    <2>1. /\ HubMoves
          /\ Only(w)
          /\ worker[w].pc # "none"
          /\ w = Stream =>
               worker[w].pc \in {"looping", "capturing", "listing", "querying", "reading", "pushing"}
          /\ AdapterServes
          /\ adapter'.ring # 0 => adapter'.since <= adapter'.ring
          /\ adapter'.ring <= Starts'
          /\ ui = "dialling" => adapter' = adapter /\ ~Holds(w)'
          /\ UNCHANGED <<ui, held, running, album, enabled, combo, panel>>
          /\ nextId' \in 1 .. MaxCaptures + 1
          /\ latest' \in Frame /\ pending' \in 0 .. 2
          /\ AlbumInSync'
          /\ WorkerHolds(w)'
      BY <1>1, WorkingKeeps
    <2>2. HubInv'
      BY <2>1, HubInductive DEF ViewerInv
    <2>3. ControlInv'
      BY <2>1, ControlKept
    <2>4. ViewerTypes'
      <3>1. adapter'.since <= Starts'
        <4>1. /\ adapter.since <= Starts /\ Starts \in Nat /\ Starts' \in Nat /\ Starts <= Starts'
              /\ adapter.since \in Nat /\ adapter'.since = adapter.since
          BY <2>1, HubEffects DEF ViewerInv, ViewerTypes, AdapterServes, Adapter
        <4> QED
          BY <4>1
      <3> QED
        BY <2>1, <3>1 DEF ViewerInv, ViewerTypes, AdapterServes, Only
    <2>5. WorkerInv'
      <3>1. ASSUME NEW v \in Workers, v # w PROVE WorkerHolds(v)'
        <4>1. worker'[v] = worker[v] /\ adapter'.since = adapter.since
          BY <2>1, <3>1 DEF Only, AdapterServes
        <4> QED
          BY <2>1, <4>1, CaptureStays
      <3> QED
        BY <2>1, <3>1 DEF WorkerInv
    <2> QED
      BY <2>2, <2>3, <2>4, <2>5 DEF ViewerInv
  <1>2. CASE ~(\E w \in Workers : Working(w))
    <2>1. Leaves
      BY <1>2, OtherSteps
    <2>2. HubInv' /\ ViewerTypes' /\ ControlInv'
      BY <2>1, HubInductive DEF Leaves, ViewerInv
    <2>3. ASSUME NEW w \in Workers PROVE WorkerHolds(w)'
      <3>1. CASE Parked(w)'
        BY <3>1, NothingToKeep
      <3>2. CASE worker'[w] = worker[w]
        <4>1. worker[w].pc = "reading" => adapter'.since = adapter.since
          BY <2>1 DEF Leaves, Free, Holds
        <4> QED
          BY <2>1, <3>2, <4>1, CaptureStays DEF Leaves
      <3> QED
        BY <2>1, <3>1, <3>2 DEF Leaves, Rest
    <2> QED
      BY <2>2, <2>3 DEF ViewerInv, WorkerInv
  <1> QED
    BY <1>1, <1>2

LEMMA ViewerAlways == Spec => []ViewerInv
  <1> QED
    BY ViewerInitial, ViewerInductive, PTL DEF Spec

-----------------------------------------------------------------------------
\* The theorems.

\* The variables keep their types, for every ring, number of captures and starts, set of tasks and
\* entries of the combo box (the values the viewer's classes hold).
THEOREM TypeCorrect == Spec => []TypeOK
  <1>1. ViewerInv => TypeOK
    <2> SUFFICES ASSUME ViewerInv PROVE TypeOK
      OBVIOUS
    <2>1. ViewerTypes /\ HubTypes /\ Starts \in Nat
      BY StartsTyped DEF ViewerInv, HubInv
    <2>2. adapter \in Adapter /\ adapter.ring <= Starts /\ adapter.since <= Starts
      BY <2>1 DEF ViewerTypes
    <2>3. /\ adapter.ring \in 0 .. Starts /\ adapter.since \in 0 .. Starts
          /\ adapter.op \in Ops
      BY <2>1, <2>2 DEF Adapter
    <2>4. \A w \in Workers : worker[w].frame \in Frame
      BY <2>1 DEF ViewerTypes, Worker
    <2> QED
      BY <2>1, <2>3, <2>4 DEF TypeOK, ViewerTypes, HubTypes
  <1> QED
    BY <1>1, ViewerAlways, PTL

\* A frame handed on holds the pixels of the capture it was asked of, whichever of its slots is
\* read, unless another client used its id, another thread of the hub has written a capture since,
\* the thread that wrote it has come round to the first of its slots, or the hub was restarted
\* since the viewer connected (PopulateUnifiedFrameAfterCaptureLocked under mutex_).
THEOREM FramesAreOwn == Spec => []FrameIsOwn
  <1>1. ViewerInv => FrameIsOwn
    BY DEF ViewerInv, WorkerInv, WorkerHolds, FrameIsOwn
  <1> QED
    BY <1>1, ViewerAlways, PTL

\* With no event left to handle, the raw image page shows the data centre's frame or nothing
\* (MainWindow::OnFrameReady takes the latest frame, whichever one it was posted for).
THEOREM AlbumFollowsDataCenter == Spec => []AlbumInSync
  <1>1. ViewerInv => AlbumInSync
    BY DEF ViewerInv, ControlInv
  <1> QED
    BY <1>1, ViewerAlways, PTL

\* No frame of the stream comes in once "stop" or "disconnect" has returned (StopAsyncCapture joins
\* the thread before the handler goes on).
THEOREM StopIsQuiet == Spec => QuietAfterStop
  <1>1. ViewerInv =>
          (worker[Stream].pc = "pushing" /\ latest' # latest /\ worker'[Stream].pc = "looping"
             => running /\ held = "current"
                /\ (adapter.stop => ui \in {"stopping", "disconnecting", "replacing"}))
    BY DEF ViewerInv, ControlInv, StreamInv
  <1> QED
    BY <1>1, ViewerAlways, PTL DEF QuietAfterStop

\* A capture is asked for with the projector_op the combo box shows
\* (SyncCaptureProjectorOpToAdapter after every connect and every choice).
THEOREM CapturesUseShownOp == Spec => CaptureUsesShownOp
  <1>1. ViewerInv /\ [Next]_vars =>
          [\A w \in Workers :
             worker[w].pc # "capturing" /\ worker'[w].pc = "capturing"
               => adapter.op = combo \/ ui = "setting_op"]_vars
    <2> SUFFICES ASSUME ViewerInv, [Next]_vars, NEW w \in Workers, worker[w].pc # "capturing",
                        worker'[w].pc = "capturing"
                 PROVE  adapter.op = combo \/ ui = "setting_op"
      OBVIOUS
    <2>1. ViewerTypes /\ WorkerInv /\ HubInv /\ MainInv /\ OpInv
      BY DEF ViewerInv, ControlInv
    <2>2. \E v \in Workers : Working(v)
      <3>1. SUFFICES ASSUME ~(\E v \in Workers : Working(v)) PROVE FALSE
        OBVIOUS
      <3>2. worker'[w] = worker[w] \/ Parked(w)'
        BY <3>1, OtherSteps DEF Leaves, Rest
      <3> QED
        BY <3>2 DEF Parked
    <2>3. PICK v \in Workers : Working(v)
      BY <2>2
    <2>4. Only(v)
      BY <2>3, WorkingKeeps
    <2>5. v = w
      BY <2>4 DEF Only
    <2>6. CASE BeginCapture(w)
      <3>1. adapter.sdk.connected /\ worker[w].pc # "none"
        BY <2>1, <2>6, CaptureBegins
      <3>2. ui # "crashed"
        BY <2>1, <3>1 DEF MainInv
      <3> QED
        BY <2>1, <3>1, <3>2 DEF OpInv
    <2>7. CASE Pushes(w)
      BY <2>1, <2>7, PushEnds, ThreadFails DEF ViewerTypes
    <2>8. CASE CaptureReturns(w)
      BY <2>8 DEF CaptureReturns
    <2>9. CASE Lists(w) \/ Queries(w)
      BY <2>1, <2>9, AnswerFound
    <2>10. CASE ReadsFrame(w)
      BY <2>1, <2>10, FrameRead
    <2> QED
      BY <2>3, <2>5, <2>6, <2>7, <2>8, <2>9, <2>10 DEF Working
  <1> QED
    BY <1>1, ViewerAlways, PTL DEF Spec, CaptureUsesShownOp
=============================================================================
