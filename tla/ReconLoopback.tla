--------------------------- MODULE ReconLoopback ---------------------------
(***************************************************************************)
(* The shared memory loopback compiled in by the macro                     *)
(* CAMERA3D_ENABLE_RECON_SHM_LOOPBACK_TEST: the hub's callback thread, or  *)
(* the gRPC thread of a capture of a test image, lets go of mu_ after it   *)
(* published and calls ProcessHubRaw of recon_service                      *)
(* (hub_shm_loopback_test.cpp); that handler checks and saves the frames,  *)
(* writes the first one to an echo ring of its own, and calls              *)
(* TestSaveReconEcho of the hub, which checks and saves the echo           *)
(* (recon_shm_loopback_grpc.cpp).                                          *)
(*                                                                         *)
(* A callback thread belongs to a camera, so no further burst can be       *)
(* completed until it returns: at the answer, or after its deadline of     *)
(* 60 s, when the handler in recon_service runs on.  Captures of test      *)
(* images are not held up by it.                                           *)
(***************************************************************************)
EXTENDS ReconHub

CONSTANT
  Handlers  \* threads of recon_service's gRPC server

VARIABLES
  caller,        \* the hub's threads in the loopback branch
  handler,       \* ProcessHubRaw per gRPC thread
  echo_regions,  \* the echo ring, one per creation; the last has the name
  echo_cursor,   \* s_next of the gRPC threads
  echoed         \* what TestSaveReconEcho saved last

loopbackVars == <<caller, handler, echo_regions, echo_cursor, echoed>>

NoCall == [pc |-> "idle", id |-> 0, number |-> 0, refs |-> <<>>, dropped |-> FALSE]
NoCalls == [t \in Threads |-> NoCall]
NoRequest == [pc |-> "idle", number |-> 0, refs |-> <<>>, asked |-> 0, gen |-> 0, next |-> 0,
              echo |-> 0, seq |-> 0, alone |-> TRUE, sure |-> FALSE]
NoEcho == [number |-> 0, data |-> NoPayload, alone |-> FALSE]
EchoGen == Len(echo_regions)

LoopbackInit ==
  /\ caller = NoCalls
  /\ handler = [h \in Handlers |-> NoRequest]
  /\ echo_regions = <<>>
  /\ echo_cursor = [h \in Handlers |-> 0]
  /\ echoed = NoEcho

Is(h, pc) == handler[h].pc = pc
Set(h, value) == handler' = [handler EXCEPT ![h] = value]
Move(h, pc) == handler' = [handler EXCEPT ![h].pc = pc]

\* History: what the handlers rest on is no longer theirs alone, what they checked no longer sure.
Disturbed ==
  handler' = [h \in Handlers |-> IF Is(h, "idle") THEN NoRequest
                                ELSE [handler[h] EXCEPT !.alone = FALSE, !.sure = FALSE]]

\* The reference a thread has into publications_ while its slots are built is no longer good.
Dropping(threads) ==
  [t \in Threads |->
     IF t \in threads /\ caller[t].pc = "build" THEN [caller[t] EXCEPT !.dropped = TRUE] ELSE caller[t]]

WithId(id) == {t \in Threads : caller[t].id = id}

\* A capture without test_recon_shm_loopback, or a hub without the loopback: nothing is called.
PublishesOnly ==
  /\ BurstPublished
  /\ caller' = Dropping(WithId(writer.id))
  /\ UNCHANGED <<handler, echo_regions, echo_cursor, echoed>>

\* OnCameraFrame and Capture after RememberPublicationLocked: mu_ is released with a reference
\* into publications_ in hand.  A publication under the same id replaces the other's content.
LoopbackBegins ==
  LET t == writer.thread
  IN /\ BurstPublished
     /\ caller' = [Dropping(WithId(writer.id)) EXCEPT
                     ![t] = [NoCall EXCEPT !.pc = "build", !.id = writer.id, !.number = bursts,
                                           !.refs = writer.refs]]
     /\ UNCHANGED <<handler, echo_regions, echo_cursor, echoed>>

\* A Disconnect between the two: the publications are cleared.
SessionClosesUnder ==
  /\ SessionCloses
  /\ caller' = Dropping(Threads)
  /\ UNCHANGED <<handler, echo_regions, echo_cursor, echoed>>

\* Another capture is written while handlers run.
CopyBeginsBeside ==
  /\ SlotCopyBegins
  /\ Disturbed
  /\ UNCHANGED <<caller, echo_regions, echo_cursor, echoed>>

\* Free threads; of those whose s_next is the same any one stands for the others.
FreeHandlers ==
  LET Free(c) == {h \in Handlers : Is(h, "idle") /\ echo_cursor[h] = c}
  IN {CHOOSE h \in Free(c) : TRUE : c \in {c \in Slots : Free(c) # {}}}

\* ProcessHubRaw is called with `refs` on a free thread of recon_service.
Calls(t, refs, asked) ==
  /\ \E h \in FreeHandlers :
       /\ handler' = [g \in Handlers |->
            IF g = h
            THEN [NoRequest EXCEPT !.pc = "open", !.number = caller[t].number, !.refs = refs,
                    !.asked = asked,
                    !.alone = asked # 0 /\ ~writer.copying /\ \A i \in Handlers : Is(i, "idle")]
            ELSE [handler[g] EXCEPT !.alone = FALSE]]
  /\ caller' = [caller EXCEPT ![t] = [NoCall EXCEPT !.pc = "call", !.number = caller[t].number]]

\* BuildReconLoopbackSlotsFromPublication through that reference.  If it is no longer good the
\* old entries may still be there, or other data is taken for a slot, or the process dies
\* (HubProcessStops).  It never returns an empty list.
BuildsSlots(t) ==
  /\ caller[t].pc = "build"
  /\ \/ Calls(t, caller[t].refs, Gen)
     \/ /\ caller[t].dropped
        /\ \E s \in Slots : Calls(t, <<[slot |-> s, seq |-> 1]>>, 0)
  /\ UNCHANGED <<reconHubVars, echo_regions, echo_cursor, echoed>>

\* The 60 s deadline of ProcessHubRaw.  The handler is not told.
CallGivesUp(t) ==
  /\ caller[t].pc = "call"
  /\ caller' = [caller EXCEPT ![t] = NoCall]
  /\ UNCHANGED <<reconHubVars, handler, echo_regions, echo_cursor, echoed>>

\* ProcessHubRaw returns; the thread goes on if it still waits for this capture.
Returns(h) ==
  /\ Set(h, NoRequest)
  /\ caller' = [t \in Threads |->
                  IF caller[t].pc = "call" /\ caller[t].number = handler[h].number
                  THEN NoCall ELSE caller[t]]

\* The region cannot be opened or the directory not made (codes 2 and 5), nor the echo ring opened
\* or created (code 6).
HandlerFails(h) ==
  /\ Is(h, "open") \/ Is(h, "open_echo") \/ Is(h, "create_echo")
  /\ Returns(h)
  /\ UNCHANGED <<reconHubVars, echo_regions, echo_cursor, echoed>>

OpensHubRing(h) ==
  /\ Is(h, "open")
  /\ Set(h, [handler[h] EXCEPT !.pc = "check", !.gen = Gen, !.next = 1])
  /\ UNCHANGED <<reconHubVars, caller, echo_regions, echo_cursor, echoed>>

\* The slots in the order they are checked: every frame of the burst, then the first again.
CheckedRef(h) ==
  IF handler[h].next <= Len(handler[h].refs) THEN handler[h].refs[handler[h].next]
  ELSE handler[h].refs[1]
HubSlot(h, ref) == regions[handler[h].gen][ref.slot]

\* Mutant of Passes: TryReadSlot alone, without comparing seq.
PassesUnchecked(slot, ref) == slot.seq # 0

\* TryReadSlot succeeds and seq_publish is the one in the request (codes 3 and 4 otherwise).
Passes(slot, ref) == slot.seq # 0 /\ slot.seq = ref.seq

ChecksSlot(h) ==
  LET ref == CheckedRef(h)
  IN /\ Is(h, "check")
     /\ IF Passes(HubSlot(h, ref), ref)
        THEN /\ Set(h, [handler[h] EXCEPT
                     !.sure = handler[h].gen = handler[h].asked /\ HubSlot(h, ref).data # Torn,
                     !.pc = IF handler[h].next <= Len(handler[h].refs) THEN "save" ELSE "open_echo"])
             /\ UNCHANGED caller
        ELSE Returns(h)
     /\ UNCHANGED <<reconHubVars, echo_regions, echo_cursor, echoed>>

\* The payload is written to a file from where it lies; a file error ends the call (code 5).
SavesSlot(h) ==
  /\ Is(h, "save")
  /\ \/ Set(h, [handler[h] EXCEPT !.pc = "check", !.next = @ + 1, !.sure = FALSE]) /\ UNCHANGED caller
     \/ Returns(h)
  /\ UNCHANGED <<reconHubVars, echo_regions, echo_cursor, echoed>>

OpensEcho(h) ==
  /\ Is(h, "open_echo")
  /\ IF EchoGen = 0
     THEN Set(h, [handler[h] EXCEPT !.pc = "create_echo", !.sure = FALSE])
     ELSE Set(h, [handler[h] EXCEPT !.pc = "write_echo", !.echo = EchoGen, !.sure = FALSE])
  /\ UNCHANGED <<reconHubVars, caller, echo_regions, echo_cursor, echoed>>

\* CreateOrOpen with create_if_missing, whether or not another thread created it meanwhile.
CreatesEcho(h) ==
  /\ Is(h, "create_echo")
  /\ echo_regions' = Append(echo_regions, CreatedRing)
  /\ Set(h, [handler[h] EXCEPT !.pc = "write_echo", !.echo = EchoGen + 1])
  /\ UNCHANGED <<reconHubVars, caller, echo_cursor, echoed>>

\* Mutant of EchoedRef: the payload pointer is the one of the last frame checked in the loop.
EchoedLastRef(h) == handler[h].refs[Len(handler[h].refs)]

\* The echo is the first frame of the burst, read from the hub's ring at last.
EchoedRef(h) == handler[h].refs[1]

\* TryWriteNextSlot on the echo ring up to the end of the memcpy.
CopiesEcho(h) ==
  LET slot == echo_cursor[h]
      ring == echo_regions[handler[h].echo]
  IN /\ Is(h, "write_echo")
     /\ echo_regions' =
          [echo_regions EXCEPT ![handler[h].echo][slot].data = HubSlot(h, EchoedRef(h)).data]
     /\ Set(h, [handler[h] EXCEPT !.pc = "publish_echo", !.seq = ring[slot].seq + 1])
     /\ UNCHANGED <<reconHubVars, caller, echo_cursor, echoed>>

\* The payload is larger than a slot of the echo ring (code 7): s_next has moved all the same.
EchoTooSmall(h) ==
  /\ Is(h, "write_echo")
  /\ echo_cursor' = [echo_cursor EXCEPT ![h] = NextCursor(@)]
  /\ Returns(h)
  /\ UNCHANGED <<reconHubVars, echo_regions, echoed>>

PublishesEcho(h) ==
  /\ Is(h, "publish_echo")
  /\ echo_regions' = [echo_regions EXCEPT ![handler[h].echo][echo_cursor[h]].seq = handler[h].seq]
  /\ Move(h, "call_hub")
  /\ UNCHANGED <<reconHubVars, caller, echo_cursor, echoed>>

\* TestSaveReconEcho is refused by a hub that is not ready and waits for mu_.
EchoServed == hub = "ready"

\* The hub opens the echo ring by name, checks seq and saves the payload.  A hub that is down
\* (code 9) or refuses (code 10) ends the call as well.
HubSavesEcho(h) ==
  LET slot == echo_regions[EchoGen][echo_cursor[h]]
  IN /\ Is(h, "call_hub")
     /\ ~writer.active
     /\ echoed' = IF EchoServed /\ Passes(slot, [seq |-> handler[h].seq])
                  THEN [number |-> handler[h].number, data |-> slot.data, alone |-> handler[h].alone]
                  ELSE echoed
     /\ echo_cursor' = [echo_cursor EXCEPT ![h] = NextCursor(@)]
     /\ Returns(h)
     /\ UNCHANGED <<reconHubVars, echo_regions>>

HandlerStep(h) ==
  \/ HandlerFails(h) \/ EchoTooSmall(h)
  \/ OpensHubRing(h) \/ ChecksSlot(h) \/ SavesSlot(h) \/ OpensEcho(h) \/ CreatesEcho(h)
  \/ CopiesEcho(h) \/ PublishesEcho(h) \/ HubSavesEcho(h)

LoopbackTypeOK ==
  /\ caller \in [Threads -> [pc : {"idle", "build", "call"}, id : Nat, number : Nat,
                            refs : Seq(RefType), dropped : BOOLEAN]]
  /\ handler \in [Handlers -> [pc : {"idle", "open", "check", "save", "open_echo", "create_echo",
                                     "write_echo", "publish_echo", "call_hub"},
                               number : Nat, refs : Seq(RefType), asked : Nat, gen : Nat, next : Nat,
                               echo : Nat, seq : Nat, alone : BOOLEAN, sure : BOOLEAN]]
  /\ echo_regions \in Seq([Slots -> Slot])
  /\ echo_cursor \in [Handlers -> Slots]
  /\ echoed \in [number : Nat, data : SlotData, alone : BOOLEAN]
=============================================================================
