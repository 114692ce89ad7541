------------------------------ MODULE SdkClient -----------------------------
(***************************************************************************)
(* The camera SDK (IDeveloperCameraSdk over gRPC, wrapped by BestCamera3D) *)
(* and the hub and the shared memory as its process sees them: a hub that  *)
(* may stop and start, a session every client shares (its id is the name   *)
(* of the first camera, the same after every start), captures published    *)
(* under ids, and other processes' clients, whose ids count from 1 too.    *)
(*                                                                         *)
(* A call of the SDK holds mu_ for the whole RPC.  An RPC is answered,     *)
(* refused, or broken; a broken one may have taken effect at the hub.      *)
(* Captures are in HubCapture, the torn read of a slot in ReconHub; here a *)
(* capture writes all its slots, the raw frames and the result, in one     *)
(* step.  The thread that writes them is the callback thread of whichever  *)
(* camera completes the burst, or a gRPC thread for a test image; every    *)
(* thread counts slots for itself, from 0.                                 *)
(***************************************************************************)
EXTENDS ShmRing, Sequences

CONSTANTS
  Threads,     \* threads of the hub that write captures
  Lengths,     \* slots a capture takes: cameras x frames, and the result
  MaxCaptures, \* bound: captures the hub makes, and the ids of one process
  MaxStarts    \* bound: starts of the hub

\* What a capture takes fits the ring (the startup does not check it).
ASSUME SdkClientAssumption ==
  /\ Lengths \subseteq 1 .. SlotCount
  /\ {MaxCaptures, MaxStarts} \subseteq Nat \ {0}

VARIABLES
  hub,          \* the hub process runs; its session is open
  memory,       \* one shared memory region per start of the hub
  cursor,       \* s_next of every thread: the slot its next capture begins at
  publications, \* publications_: the slots and the number of a capture, by id
  made,         \* history: the captures made
  nextId        \* DoCapture's generator, one for the process

hubVars == <<hub, memory, cursor, publications, made>>

Down == [up |-> FALSE, open |-> FALSE]
NothingPublished == <<>>
Starts == Len(memory)
Captures == Len(made)
AtSlot0 == [t \in Threads |-> 0]

\* Slots written by all captures so far.
Written == IF made = <<>> THEN 0 ELSE made[Captures].after

\* Steps of the cursor c until the slot s is written.
Ahead(c, s) == IF s >= c THEN s - c ELSE s + SlotCount - c

\* TryWriteNextSlot `length` times: the slots, and the cursor afterwards.
SlotsFrom(c, length) == {s \in Slots : Ahead(c, s) < length}
CursorAfter(c, length) == IF c + length < SlotCount THEN c + length ELSE c + length - SlotCount

\* Mutant: the generator starts with the value that means "no id".
GeneratorFromZero == 0

\* static std::atomic<std::uint64_t> gen{1}.
FirstId == 1

SdkInit ==
  /\ hub = Down
  /\ memory = <<>>
  /\ cursor = AtSlot0
  /\ publications = NothingPublished
  /\ made = <<>>
  /\ nextId = FirstId

-----------------------------------------------------------------------------
\* The hub.

\* A start creates the region anew and opens the session.
HubStarts ==
  /\ ~hub.up
  /\ Starts < MaxStarts
  /\ hub' = [up |-> TRUE, open |-> TRUE]
  /\ memory' = Append(memory, CreatedRing)
  /\ cursor' = AtSlot0
  /\ UNCHANGED <<publications, made>>

HubStops ==
  /\ hub.up
  /\ hub' = Down
  /\ publications' = NothingPublished
  /\ UNCHANGED <<memory, cursor, made>>

\* Connect at the hub: a closed session is resumed, an open one confirmed.
SessionOpens ==
  /\ hub.up
  /\ hub' = [hub EXCEPT !.open = TRUE]
  /\ UNCHANGED <<memory, cursor, publications, made>>

\* Disconnect at the hub, whoever sends it: the session and its publications go.
SessionCloses ==
  /\ hub.open
  /\ hub' = [hub EXCEPT !.open = FALSE]
  /\ publications' = NothingPublished
  /\ UNCHANGED <<memory, cursor, made>>

\* Capture at the hub, up to the publication under the caller's id.
WritesCapture(id, t, length) ==
  LET number == Captures + 1
      slots == SlotsFrom(cursor[t], length)
  IN /\ hub.open
     /\ Captures < MaxCaptures
     /\ made' = Append(made, [id |-> id, thread |-> t, length |-> length, after |-> Written + length])
     /\ memory' = [memory EXCEPT ![Starts] =
                     [s \in Slots |-> IF s \in slots THEN PublishedSlot(@[s], number) ELSE @[s]]]
     /\ cursor' = [cursor EXCEPT ![t] = CursorAfter(@, length)]
     /\ publications' = [i \in DOMAIN publications \cup {id} |->
                           IF i = id THEN [slots |-> slots, number |-> number] ELSE publications[i]]
     /\ UNCHANGED hub

Publishes(id) == \E t \in Threads, length \in Lengths : WritesCapture(id, t, length)

\* Clients in other processes.
OtherClient ==
  \/ SessionOpens
  \/ SessionCloses
  \/ \E id \in 1 .. MaxCaptures : Publishes(id)

Environment == HubStarts \/ HubStops \/ OtherClient

-----------------------------------------------------------------------------
\* The SDK object, as a value: connected means a stub and a session id.

NoSdk == [connected |-> FALSE, last |-> 0]

\* Connect ends at its deadline; one that fails leaves no stub behind.
ConnectAnswered(reachable) == reachable /\ SessionOpens
ConnectFailed(reachable) == UNCHANGED hubVars \/ (reachable /\ SessionOpens)

\* DisconnectUnlocked: the RPC is sent if there is a session, and its outcome ignored.
SdkDisconnect(sdk) == UNCHANGED hubVars \/ (sdk.connected /\ SessionCloses)

\* DoCapture's outcomes: answered, answered in vain, refused or broken.
CaptureAnswered(id) == Publishes(id)
CaptureFailed(id) == UNCHANGED hubVars \/ Publishes(id)

\* GetDepth at the hub, which takes 0 for the last capture of anybody: the publications that can
\* answer.
HubDepth(id) ==
  {publications[i] : i \in {j \in DOMAIN publications :
     hub.open /\ (j = id \/ (id = 0 /\ \A k \in DOMAIN publications :
                                          publications[k].number <= publications[j].number))}}

\* Mutant: the last publication answers, whatever the id.
DepthOfLast(sdk, query) == HubDepth(0)

\* GetDepthFrame and ListDepthCameraRawFrames, for an id or with 0 for this object's last capture.
Depth(sdk, query) == HubDepth(IF query # 0 THEN query ELSE sdk.last)
=============================================================================
