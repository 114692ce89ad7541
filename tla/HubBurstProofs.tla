--------------------------- MODULE HubBurstProofs ---------------------------
(***************************************************************************)
(* What the hub publishes: proofs about the publication table, the replies *)
(* of a synchronous capture and the bursts of HubCapture.                  *)
(*                                                                         *)
(* Unlike those of HubCaptureProofs, these results depend on how the hub   *)
(* is used: that no capture id is used twice, that frames arrive before    *)
(* the next trigger, that there is one client, or that the ring is longer  *)
(* than a burst.  Each theorem names what it needs.                        *)
(***************************************************************************)
EXTENDS HubCaptureProofs, SequenceTheorems, FiniteSetTheorems

-----------------------------------------------------------------------------
\* The publication table, when no capture id is used twice.

\* The LRU list names the publications, each once, and id 0 finds the latest of them.
TableInv ==
  /\ \A i, j \in DOMAIN finish_lru : finish_lru[i] = finish_lru[j] => i = j
  /\ DOMAIN publications = {finish_lru[i] : i \in DOMAIN finish_lru}
  /\ latest_id # 0 => latest_id \in DOMAIN publications

\* Ids are used up when a capture is accepted, and published at most once: the capture in
\* progress, before and while its burst is written, is not in the table yet.
FreshInv ==
  /\ DOMAIN publications \subseteq used_ids
  /\ awaiting => awaiting_id \in used_ids \ DOMAIN publications
  /\ writing.active => writing.id \in used_ids \ DOMAIN publications

\* An id that may be requested was never used, and is the id of the capture.
LEMMA FreshRequest ==
  ASSUME UniqueIds, NEW req, MayRequest(req)
  PROVE  CaptureId(req) = req /\ req \notin used_ids /\ req # 0
BY DEF MayRequest, CaptureId

LEMMA FreshInit == Init => FreshInv /\ TableInv
<1> SUFFICES ASSUME Init PROVE FreshInv /\ TableInv
    OBVIOUS
<1>1. DOMAIN publications = {} /\ finish_lru = <<>> /\ latest_id = 0
  BY DEF Init, NoPublications
<1>2. ~awaiting /\ ~writing.active
  BY DEF Init, NotWriting
<1>3. QED
  BY <1>1, <1>2 DEF FreshInv, TableInv

\* A step that accepts no capture, takes no burst and publishes nothing.
LEMMA FreshFrame ==
  ASSUME FreshInv, used_ids \subseteq used_ids',
         DOMAIN publications' \subseteq DOMAIN publications,
         awaiting' => awaiting /\ awaiting_id' = awaiting_id,
         writing'.active => writing.active /\ writing'.id = writing.id
  PROVE  FreshInv'
BY DEF FreshInv

\* A new id is taken into the table, for the oldest one if the table is full.
LEMMA TableRemember ==
  ASSUME TableTypeOK, TableInv, NEW id \in Nat, id # 0, id \notin DOMAIN publications,
         NEW pub, RememberPublication(id, pub)
  PROVE  /\ TableInv'
         /\ id \in DOMAIN publications' /\ publications'[id] = pub
         /\ DOMAIN publications' \subseteq DOMAIN publications \union {id}
<1> DEFINE stored == [i \in DOMAIN publications \union {id} |->
                        IF i = id THEN pub ELSE publications[i]]
           lru == Append(finish_lru, id)
           n == Len(finish_lru)
<1>1. finish_lru \in Seq(Nat) /\ n \in Nat /\ DOMAIN finish_lru = 1 .. n
  BY DEF TableTypeOK
<1>2. /\ lru \in Seq(Nat) /\ Len(lru) = n + 1 /\ DOMAIN lru = 1 .. n + 1
      /\ \A i \in 1 .. n : lru[i] = finish_lru[i]
      /\ lru[n + 1] = id
  BY <1>1
<1>3. \A i \in 1 .. n : finish_lru[i] \in DOMAIN publications /\ finish_lru[i] # id
  BY <1>1 DEF TableInv
<1>4. \A i, j \in 1 .. n + 1 : lru[i] = lru[j] => i = j
  <2> SUFFICES ASSUME NEW i \in 1 .. n + 1, NEW j \in 1 .. n + 1, lru[i] = lru[j]
               PROVE  i = j
      OBVIOUS
  <2>1. CASE i \in 1 .. n /\ j \in 1 .. n
    BY <1>1, <1>2, <2>1 DEF TableInv
  <2>2. CASE i = n + 1 \/ j = n + 1
    <3>1. i # n + 1 => i \in 1 .. n
      BY <1>1
    <3>2. j # n + 1 => j \in 1 .. n
      BY <1>1
    <3>3. QED
      BY <1>2, <1>3, <2>2, <3>1, <3>2
  <2>3. QED
    BY <1>1, <2>1, <2>2
<1>5. {lru[i] : i \in 1 .. n + 1} = DOMAIN publications \union {id}
  <2>1. ASSUME NEW x \in DOMAIN publications PROVE \E i \in 1 .. n + 1 : x = lru[i]
    <3>1. PICK i \in DOMAIN finish_lru : x = finish_lru[i]
      BY DEF TableInv
    <3>2. i \in 1 .. n + 1 /\ x = lru[i]
      BY <1>1, <1>2, <3>1
    <3>3. QED
      BY <3>2
  <2>2. n + 1 \in 1 .. n + 1
    BY <1>1
  <2>3. ASSUME NEW i \in 1 .. n + 1 PROVE lru[i] \in DOMAIN publications \union {id}
    <3>1. i \in 1 .. n \/ i = n + 1
      BY <1>1
    <3>2. QED
      BY <1>2, <1>3, <3>1
  <2>4. QED
    BY <1>2, <2>1, <2>2, <2>3
<1>6. latest_id' = id
  BY DEF RememberPublication
<1>7. CASE Len(lru) <= MaxPublications
  <2>1. finish_lru' = lru /\ publications' = stored
    BY <1>2, <1>7, Constants DEF RememberPublication
  <2>2. DOMAIN publications' = DOMAIN publications \union {id} /\ publications'[id] = pub
    BY <2>1
  <2>3. TableInv'
    <3> HIDE DEF lru
    <3>1. DOMAIN publications' = {finish_lru'[i] : i \in DOMAIN finish_lru'}
      BY <1>2, <1>5, <2>1, <2>2, ZenonT(30)
    <3>2. \A i, j \in DOMAIN finish_lru' : finish_lru'[i] = finish_lru'[j] => i = j
      BY <1>2, <1>4, <2>1
    <3>3. QED
      BY <1>6, <2>2, <3>1, <3>2 DEF TableInv
  <2>4. QED
    BY <2>2, <2>3
<1>8. CASE Len(lru) > MaxPublications
  <2>1. /\ finish_lru' = Tail(lru)
        /\ publications' = [i \in DOMAIN stored \ {Head(lru)} |-> stored[i]]
    BY <1>8 DEF RememberPublication
  <2>2. n >= 1 /\ Head(lru) = lru[1] /\ lru[1] # id
    <3>1. n >= 1
      BY <1>1, <1>2, <1>8, Constants
    <3>2. QED
      BY <1>1, <1>2, <1>3, <3>1
  <2>3. /\ DOMAIN Tail(lru) = 1 .. n
        /\ \A i \in 1 .. n : Tail(lru)[i] = lru[i + 1]
    BY <1>1, <1>2
  <2>4. DOMAIN publications' = (DOMAIN publications \union {id}) \ {lru[1]}
    BY <2>1, <2>2
  <2>5. id \in DOMAIN publications' /\ publications'[id] = pub
    BY <2>1, <2>2, <2>4
  <2>6. \A i, j \in 1 .. n : Tail(lru)[i] = Tail(lru)[j] => i = j
    <3> SUFFICES ASSUME NEW i \in 1 .. n, NEW j \in 1 .. n, Tail(lru)[i] = Tail(lru)[j]
                 PROVE  i = j
        OBVIOUS
    <3>1. i + 1 \in 1 .. n + 1 /\ j + 1 \in 1 .. n + 1
      BY <1>1
    <3>2. i + 1 = j + 1
      BY <1>4, <2>3, <3>1
    <3>3. QED
      BY <1>1, <3>2
  <2>7. {Tail(lru)[i] : i \in 1 .. n} = (DOMAIN publications \union {id}) \ {lru[1]}
    <3>1. ASSUME NEW i \in 1 .. n
          PROVE  Tail(lru)[i] \in (DOMAIN publications \union {id}) \ {lru[1]}
      <4>1. i + 1 \in 1 .. n + 1 /\ 1 \in 1 .. n + 1 /\ i + 1 # 1
        BY <1>1
      <4>2. QED
        BY <1>4, <1>5, <2>3, <4>1
    <3>2. ASSUME NEW x \in DOMAIN publications \union {id}, x # lru[1]
          PROVE  \E i \in 1 .. n : x = Tail(lru)[i]
      <4>1. PICK j \in 1 .. n + 1 : x = lru[j]
        BY <1>5
      <4>2. j - 1 \in 1 .. n /\ (j - 1) + 1 = j
        BY <1>1, <3>2, <4>1
      <4>3. QED
        BY <2>3, <4>1, <4>2
    <3>3. QED
      BY <3>1, <3>2
  <2>8. TableInv'
    <3> HIDE DEF lru
    <3>1. DOMAIN publications' = {finish_lru'[i] : i \in DOMAIN finish_lru'}
      BY <2>1, <2>3, <2>4, <2>7
    <3>2. \A i, j \in DOMAIN finish_lru' : finish_lru'[i] = finish_lru'[j] => i = j
      BY <2>1, <2>3, <2>6
    <3>3. QED
      BY <1>6, <2>5, <3>1, <3>2 DEF TableInv
  <2>9. QED
    BY <2>4, <2>5, <2>8
<1>9. QED
  BY <1>2, <1>7, <1>8, <1>1, Constants

\* The table as Disconnect leaves it.
LEMMA TableForgotten ==
  ASSUME publications' = NoPublications, finish_lru' = <<>>, latest_id' = 0
  PROVE  TableInv' /\ DOMAIN publications' = {}
BY DEF TableInv, NoPublications

LEMMA TableFrame == TableInv /\ UNCHANGED pubVars => TableInv'
BY DEF TableInv, pubVars

\* Disconnect forgets the table and the capture in progress, or changes neither.
LEMMA FreshDisconnect ==
  ASSUME FreshInv, TableInv, NEW c \in Clients, Disconnect(c)
  PROVE  FreshInv' /\ TableInv'
<1>1. UNCHANGED <<writing, used_ids>>
  BY DEF Disconnect, ringVars
<1>2. CASE session
  <2>1. /\ publications' = NoPublications /\ finish_lru' = <<>> /\ latest_id' = 0
        /\ awaiting' = FALSE
    BY <1>2 DEF Disconnect, TeardownSession
  <2>2. TableInv' /\ DOMAIN publications' = {}
    BY <2>1, TableForgotten
  <2>3. ~writing.active
    BY DEF Disconnect, MuFree
  <2>4. QED
    BY <1>1, <2>1, <2>2, <2>3 DEF FreshInv
<1>3. CASE ~session
  <2>1. UNCHANGED <<pubVars, awaitVars>>
    BY <1>3 DEF Disconnect
  <2>2. QED
    BY <1>1, <2>1, TableFrame DEF FreshInv, pubVars, awaitVars
<1>4. QED
  BY <1>2, <1>3

\* A capture is accepted under an id of its own.
LEMMA FreshCapture ==
  ASSUME UniqueIds, TypeOK, FreshInv, NEW c \in Clients, NEW req \in CaptureIds,
         \/ CaptureInProgress(c, req)
         \/ \E rec \in RecModes : CaptureSerialFailed(c, req, rec)
         \/ \E async \in AsyncModes, rec \in RecModes : CaptureStarted(c, req, async, rec)
  PROVE  FreshInv'
<1>1. UNCHANGED <<publications, writing>> /\ ~writing.active
  BY DEF CaptureInProgress, CaptureSerialFailed, CaptureStarted, Admitted, MuFree, pubVars,
         ringVars
<1>2. CASE CaptureInProgress(c, req)
  <2>1. UNCHANGED <<awaiting, awaiting_id, used_ids>>
    BY <1>2 DEF CaptureInProgress, awaitVars
  <2>2. QED
    BY <1>1, <2>1, FreshFrame
<1>3. CASE \E rec \in RecModes : CaptureSerialFailed(c, req, rec)
  <2>1. awaiting' = awaiting /\ ~awaiting /\ used_ids \subseteq used_ids'
    BY <1>3 DEF CaptureSerialFailed
  <2>2. QED
    BY <1>1, <2>1, FreshFrame
<1>4. CASE \E async \in AsyncModes, rec \in RecModes : CaptureStarted(c, req, async, rec)
  <2>1. MayRequest(req)
    BY <1>4 DEF CaptureStarted
  <2>2. CaptureId(req) = req /\ req \notin used_ids
    BY <2>1, FreshRequest
  <2>3. awaiting_id' = req /\ used_ids' = used_ids \union {req}
    BY <1>4, <2>2 DEF CaptureStarted
  <2>4. QED
    BY <1>1, <2>2, <2>3 DEF FreshInv
<1>5. QED
  BY <1>2, <1>3, <1>4

\* The burst that is published was not in the table.
LEMMA FreshPublishBurst ==
  ASSUME TypeOK, SessionInv, FreshInv, TableInv, PublishBurst
  PROVE  FreshInv' /\ TableInv'
<1> DEFINE pub == [shot |-> writing.shot, refs |-> writing.refs, final |-> writing.final]
<1>1. writing.active /\ ~awaiting /\ ~awaiting'
  BY DEF PublishBurst, WritingDone, SessionInv, OneCapture, awaitVars
<1>2. writing.id \in Nat /\ writing.id # 0
  BY <1>1 DEF TypeOK, WritingTypeOK, SessionInv, IdsNotZero
<1>3. writing.id \in used_ids \ DOMAIN publications
  BY <1>1 DEF FreshInv
<1>4. RememberPublication(writing.id, pub) /\ writing'.active = FALSE /\ UNCHANGED used_ids
  BY DEF PublishBurst, NotWriting
<1>5. TableInv' /\ DOMAIN publications' \subseteq DOMAIN publications \union {writing.id}
  BY <1>2, <1>3, <1>4, TableRemember DEF TypeOK
<1>6. QED
  BY <1>1, <1>3, <1>4, <1>5 DEF FreshInv

LEMMA FreshNext ==
  ASSUME UniqueIds
  PROVE  TypeOK /\ SessionInv /\ FreshInv /\ TableInv /\ [Next]_vars => FreshInv' /\ TableInv'
<1> SUFFICES ASSUME TypeOK, SessionInv, FreshInv, TableInv, [Next]_vars
             PROVE  FreshInv' /\ TableInv'
    OBVIOUS
<1>1. ASSUME NEW c \in Clients, Disconnect(c) PROVE FreshInv' /\ TableInv'
  BY <1>1, FreshDisconnect
<1>2. ASSUME NEW c \in Clients, NEW req \in CaptureIds,
             \/ CaptureInProgress(c, req)
             \/ \E rec \in RecModes : CaptureSerialFailed(c, req, rec)
             \/ \E async \in AsyncModes, rec \in RecModes : CaptureStarted(c, req, async, rec)
      PROVE  FreshInv' /\ TableInv'
  <2>1. UNCHANGED pubVars
    BY <1>2 DEF CaptureInProgress, CaptureSerialFailed, CaptureStarted
  <2>2. QED
    BY <1>2, <2>1, FreshCapture, TableFrame
<1>3. CASE \/ \E c \in Clients : Connect(c) \/ CaptureRefused(c) \/ SyncReturn(c)
           \/ \E k \in Cameras : Deliver(k) \/ LoseFrame(k) \/ FrameDropped(k) \/ FrameCollected(k)
           \/ UNCHANGED vars
  <2>1. UNCHANGED <<pubVars, writing, used_ids>>
    BY <1>3 DEF Connect, CaptureRefused, SyncReturn, SyncFinished, SyncTimedOut, Deliver,
                LoseFrame, FrameDropped, FrameCollected, vars, ringVars
  <2>2. awaiting' => awaiting /\ awaiting_id' = awaiting_id
    BY <1>3 DEF Connect, CaptureRefused, SyncReturn, SyncFinished, SyncTimedOut, Deliver,
                LoseFrame, FrameDropped, FrameCollected, vars, awaitVars
  <2>3. QED
    BY <2>1, <2>2, FreshFrame, TableFrame DEF pubVars
<1>4. ASSUME NEW k \in Cameras, BurstTaken(k) PROVE FreshInv' /\ TableInv'
  <2>1. UNCHANGED <<pubVars, used_ids>>
    BY <1>4 DEF BurstTaken
  <2>2. awaiting /\ ~awaiting' /\ writing'.id = awaiting_id
    BY <1>4 DEF BurstTaken
  <2>3. QED
    BY <2>1, <2>2, TableFrame DEF FreshInv, pubVars
<1>5. CASE WriteRaw \/ WriteFinal \/ WriteFails
  <2>1. UNCHANGED <<pubVars, awaiting, awaiting_id, used_ids>>
    BY <1>5 DEF WriteRaw, WriteFinal, WriteFails, awaitVars
  <2>2. writing'.active => writing.active /\ writing'.id = writing.id
    <3>1. writing.active
      BY <1>5 DEF WriteRaw, WriteFinal, WriteFails, WritingRaw, WritingFinal
    <3>2. CASE WriteFails
      BY <3>2 DEF WriteFails, NotWriting
    <3>3. CASE WriteRaw \/ WriteFinal
      BY <3>1, <3>3 DEF WriteRaw, WriteFinal, TypeOK, WritingTypeOK
    <3>4. QED
      BY <1>5, <3>2, <3>3
  <2>3. QED
    BY <2>1, <2>2, FreshFrame, TableFrame DEF pubVars
<1>6. CASE PublishBurst
  BY <1>6, FreshPublishBurst
<1>7. QED
  BY <1>1, <1>2, <1>3, <1>4, <1>5, <1>6 DEF Next, OnCameraFrame, FinishBurst

\* The table and the ids in use, as every reachable state of the hub has them.
LEMMA FreshInvariant ==
  ASSUME UniqueIds
  PROVE  Spec => [](TypeOK /\ SessionInv /\ FreshInv /\ TableInv)
<1>1. Init => FreshInv /\ TableInv
  BY FreshInit
<1>2. TypeOK /\ SessionInv /\ FreshInv /\ TableInv /\ [Next]_vars => FreshInv' /\ TableInv'
  BY FreshNext
<1>3. QED
  BY <1>1, <1>2, TypeCorrect, SessionInvariant, PTL DEF Spec

\* A list without repetitions has as many elements as places.
LEMMA CountDistinct ==
  ASSUME NEW n \in Nat, NEW f, DOMAIN f = 1 .. n,
         \A i, j \in 1 .. n : f[i] = f[j] => i = j
  PROVE  Cardinality({f[i] : i \in 1 .. n}) = n
<1> DEFINE T == {f[i] : i \in 1 .. n}
           g == [i \in 1 .. n |-> f[i]]
<1>1. IsFiniteSet(1 .. n) /\ Cardinality(1 .. n) = n
  BY FS_Interval
<1>2. g \in Surjection(1 .. n, T)
  BY DEF Surjection
<1>3. g \in Injection(1 .. n, T)
  BY DEF Injection, IsInjective
<1>4. Cardinality(T) = Cardinality(1 .. n)
  BY <1>1, <1>2, <1>3, FS_Surjection, FS_Bijection DEF Bijection
<1>5. QED
  BY <1>1, <1>4

\* When no capture id is used twice, the LRU list names exactly the publications, each once,
\* whatever was evicted and however often the session was torn down.
THEOREM TableIsExact == UniqueIds => (Spec => []LruExact)
<1> SUFFICES ASSUME UniqueIds PROVE Spec => []LruExact
    OBVIOUS
<1>1. TypeOK /\ TableInv => LruExact
  <2> SUFFICES ASSUME TypeOK, TableInv PROVE LruExact
      OBVIOUS
  <2>1. Len(finish_lru) \in Nat /\ DOMAIN finish_lru = 1 .. Len(finish_lru)
    BY DEF TypeOK, TableTypeOK
  <2>2. Cardinality({finish_lru[i] : i \in 1 .. Len(finish_lru)}) = Len(finish_lru)
    BY <2>1, CountDistinct DEF TableInv
  <2>3. QED
    BY <2>1, <2>2 DEF TableInv, LruExact
<1>2. QED
  BY <1>1, FreshInvariant, PTL

-----------------------------------------------------------------------------
\* The replies of synchronous captures, when no capture id is used twice.

\* The id of a handler that waits names its own capture wherever it turns up: in the table, in
\* the capture in progress and in the burst being written.
OwnShots ==
  \A c \in Clients : call[c] # NotWaiting =>
    /\ call[c].id \in used_ids
    /\ call[c].id \in DOMAIN publications => publications[call[c].id].shot = call[c].shot
    /\ awaiting /\ awaiting_id = call[c].id => awaiting_shot = call[c].shot
    /\ writing.active /\ writing.id = call[c].id => writing.shot = call[c].shot

\* The entries of the table after RememberPublication.
LEMMA RememberEntries ==
  ASSUME NEW id, NEW pub, RememberPublication(id, pub), NEW i \in DOMAIN publications'
  PROVE  IF i = id THEN publications'[i] = pub
                   ELSE i \in DOMAIN publications /\ publications'[i] = publications[i]
<1> DEFINE stored == [j \in DOMAIN publications \union {id} |->
                        IF j = id THEN pub ELSE publications[j]]
<1>1. \/ publications' = stored
      \/ publications' = [j \in DOMAIN stored \ {Head(Append(finish_lru, id))} |-> stored[j]]
  BY DEF RememberPublication
<1>2. i \in DOMAIN stored /\ publications'[i] = stored[i]
  BY <1>1
<1>3. QED
  BY <1>2

LEMMA OwnInit == Init => OwnShots /\ SyncOkIsOwnBurst
<1> SUFFICES ASSUME Init PROVE OwnShots /\ SyncOkIsOwnBurst
    OBVIOUS
<1>1. OwnShots
  BY DEF Init, OwnShots
<1>2. reply.shot = 0
  BY DEF Init, NoReply
<1>3. QED
  BY <1>1, <1>2 DEF SyncOkIsOwnBurst

\* A step that wakes no handler, accepts no capture and moves no burst.
LEMMA OwnFrame ==
  ASSUME OwnShots, used_ids \subseteq used_ids', UNCHANGED writing,
         \/ UNCHANGED publications
         \/ publications' = NoPublications,
         awaiting' => UNCHANGED <<awaiting, awaiting_id, awaiting_shot>>,
         \A c \in Clients : call'[c] # NotWaiting => call'[c] = call[c]
  PROVE  OwnShots'
<1>1. DOMAIN publications' \subseteq DOMAIN publications
  BY DEF NoPublications
<1>2. \A id \in DOMAIN publications' : publications'[id] = publications[id]
  BY DEF NoPublications
<1>3. ASSUME NEW c \in Clients, call'[c] # NotWaiting
      PROVE  /\ call'[c].id \in used_ids'
             /\ call'[c].id \in DOMAIN publications' =>
                  publications'[call'[c].id].shot = call'[c].shot
             /\ awaiting' /\ awaiting_id' = call'[c].id => awaiting_shot' = call'[c].shot
             /\ writing'.active /\ writing'.id = call'[c].id => writing'.shot = call'[c].shot
  <2>1. call[c] = call'[c] /\ call[c] # NotWaiting
    BY <1>3
  <2>2. QED
    BY <1>1, <1>2, <2>1 DEF OwnShots
<1>4. QED
  BY <1>3 DEF OwnShots

\* The handler that started the capture waits for the shot it triggered.
LEMMA OwnCaptureStarted ==
  ASSUME UniqueIds, TypeOK, FreshInv, OwnShots, NEW c \in Clients, NEW req \in CaptureIds,
         NEW async \in AsyncModes, NEW rec \in RecModes, CaptureStarted(c, req, async, rec)
  PROVE  OwnShots'
<1>1. UNCHANGED <<publications, writing>> /\ ~writing.active
  BY DEF CaptureStarted, Admitted, MuFree, pubVars, ringVars
<1>2. CaptureId(req) = req /\ req \notin used_ids
  BY FreshRequest DEF CaptureStarted
<1>3. awaiting_id' = req /\ awaiting_shot' = shot + 1 /\ used_ids' = used_ids \union {req}
  BY <1>2 DEF CaptureStarted
<1>4. \/ UNCHANGED call
      \/ call' = [call EXCEPT ![c] = [id |-> req, shot |-> shot + 1]]
  BY <1>2 DEF CaptureStarted
<1>5. ASSUME NEW d \in Clients, call'[d] # NotWaiting
      PROVE  /\ call'[d].id \in used_ids'
             /\ call'[d].id \in DOMAIN publications =>
                  publications[call'[d].id].shot = call'[d].shot
             /\ awaiting_id' = call'[d].id => awaiting_shot' = call'[d].shot
  <2>1. \/ call'[d] = call[d]
        \/ call'[d] = [id |-> req, shot |-> shot + 1]
    BY <1>4 DEF TypeOK, ClientTypeOK
  <2>2. CASE call'[d] = call[d]
    BY <1>2, <1>3, <1>5, <2>2 DEF OwnShots
  <2>3. CASE call'[d] = [id |-> req, shot |-> shot + 1]
    BY <1>2, <1>3, <2>3 DEF FreshInv
  <2>4. QED
    BY <2>1, <2>2, <2>3
<1>6. QED
  BY <1>1, <1>5 DEF OwnShots

\* Burst and publication carry the shot of the capture.
LEMMA OwnBurst ==
  ASSUME TypeOK, OwnShots, UNCHANGED <<call, used_ids>>,
         \/ \E k \in Cameras : BurstTaken(k)
         \/ WriteRaw \/ WriteFinal \/ WriteFails \/ PublishBurst
  PROVE  OwnShots'
<1>1. CASE \E k \in Cameras : BurstTaken(k)
  <2>1. /\ UNCHANGED publications /\ awaiting' = FALSE /\ awaiting
        /\ writing'.id = awaiting_id /\ writing'.shot = awaiting_shot
    BY <1>1 DEF BurstTaken, pubVars
  <2>2. QED
    BY <2>1 DEF OwnShots
<1>2. CASE WriteRaw \/ WriteFinal
  <2>1. writing.active
    BY <1>2 DEF WriteRaw, WriteFinal, WritingRaw, WritingFinal
  <2>2. /\ UNCHANGED <<publications, awaiting, awaiting_id, awaiting_shot>>
        /\ writing'.id = writing.id /\ writing'.shot = writing.shot
    BY <1>2, <2>1 DEF WriteRaw, WriteFinal, TypeOK, WritingTypeOK, pubVars, awaitVars
  <2>3. QED
    BY <2>1, <2>2 DEF OwnShots
<1>3. CASE WriteFails
  <2>1. UNCHANGED <<publications, awaiting, awaiting_id, awaiting_shot>> /\ ~writing'.active
    BY <1>3 DEF WriteFails, NotWriting, pubVars, awaitVars
  <2>2. QED
    BY <2>1 DEF OwnShots
<1>4. CASE PublishBurst
  <2> DEFINE pub == [shot |-> writing.shot, refs |-> writing.refs, final |-> writing.final]
  <2>1. /\ UNCHANGED <<awaiting, awaiting_id, awaiting_shot>> /\ ~writing'.active
        /\ writing.active /\ RememberPublication(writing.id, pub)
    BY <1>4 DEF PublishBurst, WritingDone, NotWriting, awaitVars
  <2>2. ASSUME NEW i \in DOMAIN publications'
        PROVE  \/ i = writing.id /\ publications'[i].shot = writing.shot
               \/ i \in DOMAIN publications /\ publications'[i] = publications[i]
    <3>1. IF i = writing.id THEN publications'[i] = pub
                            ELSE i \in DOMAIN publications /\ publications'[i] = publications[i]
      BY <2>1, RememberEntries
    <3>2. QED
      BY <3>1
  <2>3. QED
    BY <2>1, <2>2 DEF OwnShots
<1>5. QED
  BY <1>1, <1>2, <1>3, <1>4

\* Only a handler that waited answers with a shot, that it timed out or found no publication.
LEMMA OtherReplies ==
  ASSUME [Next]_vars, \A c \in Clients : ~SyncReturn(c)
  PROVE  \/ reply'.shot = 0 /\ reply'.code \notin {CodeTimeout, CodeNoPublication}
         \/ UNCHANGED vars
<1> USE DEF CodeOk, CodeInvalidSession, CodeInProgress, CodeSerialFailed, CodeTimeout,
            CodeNoPublication, CodeOrchestratorInitFailed, CodeSessionNotEstablished
<1> DEFINE Others == {CodeOk, CodeInvalidSession, CodeInProgress, CodeSerialFailed,
                      CodeOrchestratorInitFailed, CodeSessionNotEstablished}
<1>1. ASSUME NEW c \in Clients, NEW code \in Others, NEW id, Answer(c, code, id, 0)
      PROVE  reply'.shot = 0 /\ reply'.code \notin {CodeTimeout, CodeNoPublication}
  BY <1>1 DEF Answer
<1>2. Silent => reply'.shot = 0 /\ reply'.code \notin {CodeTimeout, CodeNoPublication}
  BY DEF Silent, NoReply
<1>3. ASSUME NEW c \in Clients, Connect(c) \/ Disconnect(c) \/ CaptureRefused(c)
      PROVE  \E code \in Others : \E id : Answer(c, code, id, 0)
  <2>1. Connect(c) => Answer(c, CodeOk, 0, 0) \/ Answer(c, CodeOrchestratorInitFailed, 0, 0)
    BY DEF Connect
  <2>2. Disconnect(c) => Answer(c, CodeOk, 0, 0)
    BY DEF Disconnect
  <2>3. CaptureRefused(c) =>
          Answer(c, CodeSessionNotEstablished, 0, 0) \/ Answer(c, CodeInvalidSession, 0, 0)
    BY DEF CaptureRefused
  <2>4. QED
    BY <1>3, <2>1, <2>2, <2>3
<1>4. ASSUME NEW c \in Clients, NEW req \in CaptureIds,
             \/ CaptureInProgress(c, req)
             \/ \E rec \in RecModes : CaptureSerialFailed(c, req, rec)
             \/ \E async \in AsyncModes, rec \in RecModes : CaptureStarted(c, req, async, rec)
      PROVE  Silent \/ \E code \in Others : \E id : Answer(c, code, id, 0)
  BY <1>4 DEF CaptureInProgress, CaptureSerialFailed, CaptureStarted
<1>5. ASSUME NEW k \in Cameras, Deliver(k) \/ LoseFrame(k) \/ OnCameraFrame(k) PROVE Silent
  BY <1>5 DEF Deliver, LoseFrame, OnCameraFrame, FrameDropped, FrameCollected, BurstTaken
<1>6. FinishBurst => Silent
  BY DEF FinishBurst, WriteRaw, WriteFinal, WriteFails, PublishBurst
<1>7. QED
  BY <1>1, <1>2, <1>3, <1>4, <1>5, <1>6 DEF Next

LEMMA OwnNext ==
  ASSUME UniqueIds
  PROVE  TypeOK /\ FreshInv /\ OwnShots /\ SyncOkIsOwnBurst /\ [Next]_vars
           => OwnShots' /\ SyncOkIsOwnBurst'
<1> SUFFICES ASSUME TypeOK, FreshInv, OwnShots, SyncOkIsOwnBurst, [Next]_vars
             PROVE  OwnShots' /\ SyncOkIsOwnBurst'
    OBVIOUS
<1>1. OwnShots'
  <2>1. ASSUME NEW c \in Clients, NEW req \in CaptureIds, NEW async \in AsyncModes,
               NEW rec \in RecModes, CaptureStarted(c, req, async, rec)
        PROVE  OwnShots'
    BY <2>1, OwnCaptureStarted
  <2>2. ASSUME NEW c \in Clients, SyncReturn(c) PROVE OwnShots'
    <3>1. UNCHANGED <<publications, writing, used_ids>>
      BY <2>2 DEF SyncReturn, SyncFinished, SyncTimedOut, pubVars, ringVars
    <3>2. awaiting' => UNCHANGED <<awaiting, awaiting_id, awaiting_shot>>
      BY <2>2 DEF SyncReturn, SyncFinished, SyncTimedOut, awaitVars
    <3>3. call' = [call EXCEPT ![c] = NotWaiting]
      BY <2>2 DEF SyncReturn, SyncFinished, SyncTimedOut
    <3>4. QED
      BY <3>1, <3>2, <3>3, OwnFrame DEF TypeOK, ClientTypeOK
  <2>3. CASE \/ \E c \in Clients : Connect(c) \/ CaptureRefused(c) \/ Disconnect(c)
             \/ \E c \in Clients, req \in CaptureIds : CaptureInProgress(c, req)
             \/ \E k \in Cameras : Deliver(k) \/ LoseFrame(k) \/ FrameDropped(k) \/ FrameCollected(k)
             \/ UNCHANGED vars
    <3>1. UNCHANGED <<writing, call, used_ids>>
      BY <2>3 DEF Connect, CaptureRefused, Disconnect, CaptureInProgress, Deliver, LoseFrame,
                  FrameDropped, FrameCollected, vars, ringVars, clientVars
    <3>2. UNCHANGED publications \/ publications' = NoPublications
      BY <2>3 DEF Connect, CaptureRefused, Disconnect, TeardownSession, CaptureInProgress,
                  Deliver, LoseFrame, FrameDropped, FrameCollected, vars, pubVars
    <3>3. awaiting' => UNCHANGED <<awaiting, awaiting_id, awaiting_shot>>
      BY <2>3 DEF Connect, CaptureRefused, Disconnect, TeardownSession, CaptureInProgress,
                  Deliver, LoseFrame, FrameDropped, FrameCollected, vars, awaitVars
    <3>4. QED
      BY <3>1, <3>2, <3>3, OwnFrame
  <2>4. ASSUME NEW c \in Clients, NEW req \in CaptureIds, NEW rec \in RecModes,
               CaptureSerialFailed(c, req, rec)
        PROVE  OwnShots'
    <3>1. UNCHANGED <<publications, writing, call>> /\ used_ids \subseteq used_ids'
      BY <2>4 DEF CaptureSerialFailed, pubVars, ringVars, clientVars
    <3>2. ~awaiting'
      BY <2>4 DEF CaptureSerialFailed
    <3>3. QED
      BY <3>1, <3>2, OwnFrame
  <2>5. CASE \/ \E k \in Cameras : BurstTaken(k)
             \/ WriteRaw \/ WriteFinal \/ WriteFails \/ PublishBurst
    <3>1. UNCHANGED <<call, used_ids>>
      BY <2>5 DEF BurstTaken, WriteRaw, WriteFinal, WriteFails, PublishBurst, clientVars
    <3>2. QED
      BY <2>5, <3>1, OwnBurst
  <2>6. QED
    BY <2>1, <2>2, <2>3, <2>4, <2>5 DEF Next, OnCameraFrame, FinishBurst
<1>2. SyncOkIsOwnBurst'
  <2>1. ASSUME NEW c \in Clients, SyncFinished(c) PROVE SyncOkIsOwnBurst'
    <3>1. call[c] # NotWaiting /\ UNCHANGED publications
      BY <2>1 DEF SyncFinished, pubVars
    <3>2. \/ /\ call[c].id \in DOMAIN publications
             /\ reply'.id = call[c].id /\ reply'.shot = call[c].shot
          \/ reply'.code = CodeNoPublication
      BY <2>1 DEF SyncFinished, Answer
    <3>3. CodeNoPublication # CodeOk
      BY DEF CodeNoPublication, CodeOk
    <3>4. QED
      BY <3>1, <3>2, <3>3 DEF SyncOkIsOwnBurst, OwnShots
  <2>2. ASSUME NEW c \in Clients, SyncTimedOut(c) PROVE SyncOkIsOwnBurst'
    BY <2>2 DEF SyncTimedOut, Answer, SyncOkIsOwnBurst, CodeTimeout, CodeOk
  <2>3. CASE \A c \in Clients : ~SyncReturn(c)
    <3>1. reply'.shot = 0 \/ UNCHANGED vars
      BY <2>3, OtherReplies
    <3>2. CASE UNCHANGED vars
      BY <3>2 DEF SyncOkIsOwnBurst, vars, pubVars
    <3>3. QED
      BY <3>1, <3>2 DEF SyncOkIsOwnBurst
  <2>4. QED
    BY <2>1, <2>2, <2>3 DEF SyncReturn
<1>3. QED
  BY <1>1, <1>2

\* A synchronous capture that returns 0 left its own burst under the id it returns: no capture
\* of another client, of an earlier session or given up before can take its place.
THEOREM SyncReplyIsOwnBurst == UniqueIds => (Spec => []SyncOkIsOwnBurst)
<1> SUFFICES ASSUME UniqueIds PROVE Spec => []SyncOkIsOwnBurst
    OBVIOUS
<1>1. Init => OwnShots /\ SyncOkIsOwnBurst
  BY OwnInit
<1>2. TypeOK /\ FreshInv /\ OwnShots /\ SyncOkIsOwnBurst /\ [Next]_vars
        => OwnShots' /\ SyncOkIsOwnBurst'
  BY OwnNext
<1>3. QED
  BY <1>1, <1>2, FreshInvariant, PTL DEF Spec

-----------------------------------------------------------------------------
\* A single client: what a synchronous capture is told is what happened to its burst.

OneClient == \A c, d \in Clients : c = d

\* The shots in the hub's hands: the capture in progress is the last shot, everything else is
\* older, and with one client it is the capture its handler waits for.
ShotOrder ==
  /\ \A id \in DOMAIN publications : publications[id].shot <= shot
  /\ writing.active => writing.shot <= shot
  /\ awaiting =>
       /\ awaiting_shot = shot
       /\ \A id \in DOMAIN publications : publications[id].shot < shot
       /\ \A c \in Clients : call[c] # NotWaiting => call[c].shot = shot

LEMMA ShotInit == Init => ShotOrder /\ TimeoutMeansNoFrames
<1> SUFFICES ASSUME Init PROVE ShotOrder /\ TimeoutMeansNoFrames
    OBVIOUS
<1>1. DOMAIN publications = {} /\ ~awaiting /\ ~writing.active
  BY DEF Init, NoPublications, NotWriting
<1>2. QED
  BY <1>1 DEF ShotOrder, TimeoutMeansNoFrames

\* A step that triggers nothing, publishes nothing and starts no capture.
LEMMA ShotFrame ==
  ASSUME ShotOrder, UNCHANGED shot,
         \/ UNCHANGED publications
         \/ publications' = NoPublications,
         writing'.active => writing.active /\ writing'.shot = writing.shot,
         awaiting' => UNCHANGED <<awaiting, awaiting_shot, call>>
  PROVE  ShotOrder'
<1>1. /\ DOMAIN publications' \subseteq DOMAIN publications
      /\ \A id \in DOMAIN publications' : publications'[id] = publications[id]
  BY DEF NoPublications
<1>2. QED
  BY <1>1 DEF ShotOrder

\* A new shot is later than everything there is.
LEMMA ShotTriggered ==
  ASSUME OneClient, TypeOK, ShotOrder, NEW c \in Clients, NEW req \in CaptureIds,
         \/ \E rec \in RecModes : CaptureSerialFailed(c, req, rec)
         \/ \E async \in AsyncModes, rec \in RecModes : CaptureStarted(c, req, async, rec)
  PROVE  ShotOrder'
<1>1. UNCHANGED <<publications, writing>> /\ ~writing.active
  BY DEF CaptureSerialFailed, CaptureStarted, Admitted, MuFree, pubVars, ringVars
<1>2. shot \in Nat /\ \A id \in DOMAIN publications : publications[id].shot \in Nat
  BY DEF TypeOK, CameraTypeOK, TableTypeOK, Publication
<1>3. CASE \E rec \in RecModes : CaptureSerialFailed(c, req, rec)
  <2>1. ~awaiting' /\ (shot' = shot \/ shot' = shot + 1)
    BY <1>3 DEF CaptureSerialFailed
  <2>2. QED
    BY <1>1, <1>2, <2>1 DEF ShotOrder
<1>4. CASE \E async \in AsyncModes, rec \in RecModes : CaptureStarted(c, req, async, rec)
  <2>1. shot' = shot + 1 /\ awaiting_shot' = shot + 1 /\ call[c] = NotWaiting
    BY <1>4 DEF CaptureStarted, Admitted
  <2>2. \/ UNCHANGED call
        \/ call' = [call EXCEPT ![c] = [id |-> CaptureId(req), shot |-> shot + 1]]
    BY <1>4 DEF CaptureStarted
  <2>3. ASSUME NEW d \in Clients, call'[d] # NotWaiting PROVE call'[d].shot = shot + 1
    <3>1. d = c
      BY DEF OneClient
    <3>2. QED
      BY <2>1, <2>2, <2>3, <3>1 DEF TypeOK, ClientTypeOK
  <2>4. QED
    BY <1>1, <1>2, <2>1, <2>3 DEF ShotOrder
<1>5. QED
  BY <1>3, <1>4

LEMMA ShotNext ==
  ASSUME OneClient
  PROVE  TypeOK /\ SessionInv /\ ShotOrder /\ [Next]_vars => ShotOrder'
<1> SUFFICES ASSUME TypeOK, SessionInv, ShotOrder, [Next]_vars PROVE ShotOrder'
    OBVIOUS
<1>1. ASSUME NEW c \in Clients, NEW req \in CaptureIds,
             \/ \E rec \in RecModes : CaptureSerialFailed(c, req, rec)
             \/ \E async \in AsyncModes, rec \in RecModes : CaptureStarted(c, req, async, rec)
      PROVE  ShotOrder'
  BY <1>1, ShotTriggered
<1>2. CASE \/ \E c \in Clients : Connect(c) \/ CaptureRefused(c) \/ Disconnect(c) \/ SyncReturn(c)
           \/ \E c \in Clients, req \in CaptureIds : CaptureInProgress(c, req)
           \/ \E k \in Cameras : Deliver(k) \/ LoseFrame(k) \/ FrameDropped(k) \/ FrameCollected(k)
           \/ UNCHANGED vars
  <2>1. UNCHANGED <<writing, shot>>
    BY <1>2 DEF Connect, CaptureRefused, Disconnect, SyncReturn, SyncFinished, SyncTimedOut,
                CaptureInProgress, Deliver, LoseFrame, FrameDropped, FrameCollected, vars, ringVars
  <2>2. UNCHANGED publications \/ publications' = NoPublications
    BY <1>2 DEF Connect, CaptureRefused, Disconnect, TeardownSession, SyncReturn, SyncFinished,
                SyncTimedOut, CaptureInProgress, Deliver, LoseFrame, FrameDropped,
                FrameCollected, vars, pubVars
  <2>3. awaiting' => UNCHANGED <<awaiting, awaiting_shot, call>>
    BY <1>2 DEF Connect, CaptureRefused, Disconnect, TeardownSession, SyncReturn, SyncFinished,
                SyncTimedOut, CaptureInProgress, Deliver, LoseFrame, FrameDropped,
                FrameCollected, vars, awaitVars, clientVars
  <2>4. QED
    BY <2>1, <2>2, <2>3, ShotFrame
<1>3. ASSUME NEW k \in Cameras, BurstTaken(k) PROVE ShotOrder'
  <2>1. /\ UNCHANGED <<publications, shot>> /\ awaiting /\ awaiting' = FALSE
        /\ writing'.shot = awaiting_shot
    BY <1>3 DEF BurstTaken, pubVars
  <2>2. shot \in Nat
    BY DEF TypeOK, CameraTypeOK
  <2>3. QED
    BY <2>1, <2>2 DEF ShotOrder
<1>4. CASE FinishBurst
  <2>1. writing.active /\ ~awaiting
    BY <1>4 DEF FinishBurst, WriteRaw, WriteFinal, WriteFails, PublishBurst, WritingRaw,
                WritingFinal, WritingDone, SessionInv, OneCapture
  <2>2. ~awaiting' /\ UNCHANGED shot
    BY <1>4, <2>1 DEF FinishBurst, WriteRaw, WriteFinal, WriteFails, PublishBurst, awaitVars
  <2>3. CASE WriteRaw \/ WriteFinal
    <3>1. writing'.shot = writing.shot /\ UNCHANGED publications
      BY <2>1, <2>3 DEF WriteRaw, WriteFinal, TypeOK, WritingTypeOK, pubVars
    <3>2. QED
      BY <2>1, <2>2, <3>1 DEF ShotOrder
  <2>4. CASE WriteFails
    <3>1. ~writing'.active /\ UNCHANGED publications
      BY <2>4 DEF WriteFails, NotWriting, pubVars
    <3>2. QED
      BY <2>2, <3>1 DEF ShotOrder
  <2>5. CASE PublishBurst
    <3> DEFINE pub == [shot |-> writing.shot, refs |-> writing.refs, final |-> writing.final]
    <3>1. ~writing'.active /\ RememberPublication(writing.id, pub)
      BY <2>5 DEF PublishBurst, NotWriting
    <3>2. \A i \in DOMAIN publications' :
            \/ i \in DOMAIN publications /\ publications'[i] = publications[i]
            \/ publications'[i] = pub
      BY <3>1, RememberOrigin
    <3>3. QED
      BY <2>1, <2>2, <3>1, <3>2 DEF ShotOrder
  <2>6. QED
    BY <1>4, <2>3, <2>4, <2>5 DEF FinishBurst
<1>5. QED
  BY <1>1, <1>2, <1>3, <1>4 DEF Next, OnCameraFrame

\* With one client, "capture timeout waiting for hardware frame" is true: the burst of the
\* capture that timed out is not in the table, whatever the cameras deliver afterwards.
THEOREM TimeoutIsTrue == OneClient => (Spec => []TimeoutMeansNoFrames)
<1> SUFFICES ASSUME OneClient PROVE Spec => []TimeoutMeansNoFrames
    OBVIOUS
<1>1. Init => ShotOrder /\ TimeoutMeansNoFrames
  BY ShotInit
<1>2. TypeOK /\ SessionInv /\ ShotOrder /\ [Next]_vars => ShotOrder'
  BY ShotNext
<1>3. TypeOK /\ ShotOrder /\ TimeoutMeansNoFrames /\ [Next]_vars => TimeoutMeansNoFrames'
  <2> SUFFICES ASSUME TypeOK, ShotOrder, TimeoutMeansNoFrames, [Next]_vars
               PROVE  TimeoutMeansNoFrames'
      OBVIOUS
  <2>1. ASSUME NEW c \in Clients, SyncTimedOut(c) PROVE TimeoutMeansNoFrames'
    <3>1. /\ awaiting /\ call[c] # NotWaiting /\ reply'.shot = call[c].shot
          /\ UNCHANGED publications
      BY <2>1 DEF SyncTimedOut, Answer, pubVars
    <3>2. call[c].shot = shot /\ \A id \in DOMAIN publications : publications[id].shot < shot
      BY <3>1 DEF ShotOrder
    <3>3. shot \in Nat /\ \A id \in DOMAIN publications : publications[id].shot \in Nat
      BY DEF TypeOK, CameraTypeOK, TableTypeOK, Publication
    <3>4. QED
      BY <3>1, <3>2, <3>3 DEF TimeoutMeansNoFrames
  <2>2. ASSUME NEW c \in Clients, SyncFinished(c) PROVE TimeoutMeansNoFrames'
    BY <2>2 DEF SyncFinished, Answer, TimeoutMeansNoFrames, CodeOk, CodeNoPublication, CodeTimeout
  <2>3. CASE \A c \in Clients : ~SyncReturn(c)
    <3>1. reply'.code # CodeTimeout \/ UNCHANGED vars
      BY <2>3, OtherReplies
    <3>2. CASE UNCHANGED vars
      BY <3>2 DEF TimeoutMeansNoFrames, vars, pubVars
    <3>3. QED
      BY <3>1, <3>2 DEF TimeoutMeansNoFrames
  <2>4. QED
    BY <2>1, <2>2, <2>3 DEF SyncReturn
<1>4. QED
  BY <1>1, <1>2, <1>3, TypeCorrect, SessionInvariant, PTL DEF Spec

\* Where the capture of the one waiting handler is: armed, being written, in the table, or lost
\* to an error of the ring that is still remembered.
CallTraced ==
  \A c \in Clients : call[c] # NotWaiting =>
    \/ awaiting /\ awaiting_id = call[c].id
    \/ writing.active /\ writing.id = call[c].id
    \/ /\ ~awaiting /\ ~writing.active
       /\ call[c].id \in DOMAIN publications \/ shm_error

LEMMA TracedInit == Init => CallTraced
BY DEF Init, CallTraced

\* The steps of a caller leave its own capture armed, or no capture of its own.
LEMMA TracedCaller ==
  ASSUME OneClient, TypeOK, CallTraced, NEW c \in Clients,
         \/ Connect(c) \/ Disconnect(c) \/ CaptureRefused(c)
         \/ \E req \in CaptureIds : CaptureInProgress(c, req)
         \/ \E req \in CaptureIds, rec \in RecModes : CaptureSerialFailed(c, req, rec)
         \/ \E req \in CaptureIds, async \in AsyncModes, rec \in RecModes :
              CaptureStarted(c, req, async, rec)
         \/ SyncReturn(c)
  PROVE  CallTraced'
<1>1. \A d \in Clients : d = c
  BY DEF OneClient
<1>2. CASE SyncReturn(c)
  <2>1. call'[c] = NotWaiting
    BY <1>2 DEF SyncReturn, SyncFinished, SyncTimedOut, TypeOK, ClientTypeOK
  <2>2. QED
    BY <1>1, <2>1 DEF CallTraced
<1>3. CASE \E req \in CaptureIds, async \in AsyncModes, rec \in RecModes :
             CaptureStarted(c, req, async, rec)
  <2>1. PICK req \in CaptureIds, async \in AsyncModes, rec \in RecModes :
          CaptureStarted(c, req, async, rec)
    BY <1>3
  <2>2. call[c] = NotWaiting /\ awaiting' = TRUE /\ awaiting_id' = CaptureId(req)
    BY <2>1 DEF CaptureStarted, Admitted
  <2>3. \/ UNCHANGED call
        \/ call' = [call EXCEPT ![c] = [id |-> CaptureId(req), shot |-> shot + 1]]
    BY <2>1 DEF CaptureStarted
  <2>4. call'[c] = NotWaiting \/ call'[c].id = CaptureId(req)
    BY <2>2, <2>3 DEF TypeOK, ClientTypeOK
  <2>5. QED
    BY <1>1, <2>2, <2>4 DEF CallTraced
<1>4. CASE \/ Connect(c) \/ Disconnect(c) \/ CaptureRefused(c)
           \/ \E req \in CaptureIds : CaptureInProgress(c, req)
           \/ \E req \in CaptureIds, rec \in RecModes : CaptureSerialFailed(c, req, rec)
  <2>1. call[c] = NotWaiting /\ UNCHANGED call
    BY <1>4 DEF Connect, Disconnect, CaptureRefused, CaptureInProgress, CaptureSerialFailed,
                Admitted, clientVars
  <2>2. QED
    BY <1>1, <2>1 DEF CallTraced
<1>5. QED
  BY <1>2, <1>3, <1>4

LEMMA TracedNext ==
  ASSUME OneClient
  PROVE  TypeOK /\ SessionInv /\ FreshInv /\ TableInv /\ CallTraced /\ [Next]_vars
           => CallTraced'
<1> SUFFICES ASSUME TypeOK, SessionInv, FreshInv, TableInv, CallTraced, [Next]_vars
             PROVE  CallTraced'
    OBVIOUS
<1>1. ASSUME NEW c \in Clients,
             \/ Connect(c) \/ Disconnect(c) \/ CaptureRefused(c)
             \/ \E req \in CaptureIds : CaptureInProgress(c, req)
             \/ \E req \in CaptureIds, rec \in RecModes : CaptureSerialFailed(c, req, rec)
             \/ \E req \in CaptureIds, async \in AsyncModes, rec \in RecModes :
                  CaptureStarted(c, req, async, rec)
             \/ SyncReturn(c)
      PROVE  CallTraced'
  BY <1>1, TracedCaller
<1>2. CASE \/ \E k \in Cameras : Deliver(k) \/ LoseFrame(k) \/ FrameDropped(k) \/ FrameCollected(k)
           \/ UNCHANGED vars
  <2>1. UNCHANGED <<awaiting, awaiting_id, writing, publications, shm_error, call>>
    BY <1>2 DEF Deliver, LoseFrame, FrameDropped, FrameCollected, vars, awaitVars, ringVars,
                pubVars, clientVars
  <2>2. QED
    BY <2>1 DEF CallTraced
<1>3. ASSUME NEW k \in Cameras, BurstTaken(k) PROVE CallTraced'
  <2>1. /\ awaiting /\ ~writing.active /\ UNCHANGED call
        /\ writing'.active = TRUE /\ writing'.id = awaiting_id
    BY <1>3 DEF BurstTaken, MuFree, clientVars
  <2>2. QED
    BY <2>1 DEF CallTraced
<1>4. CASE WriteRaw \/ WriteFinal
  <2>1. writing.active
    BY <1>4 DEF WriteRaw, WriteFinal, WritingRaw, WritingFinal
  <2>2. /\ UNCHANGED <<awaiting, awaiting_id, call>>
        /\ writing'.active = writing.active /\ writing'.id = writing.id
    BY <1>4, <2>1 DEF WriteRaw, WriteFinal, TypeOK, WritingTypeOK, awaitVars, clientVars
  <2>3. QED
    BY <2>1, <2>2 DEF CallTraced
<1>5. CASE WriteFails
  <2>1. writing.active /\ ~awaiting
    BY <1>5 DEF WriteFails, WritingRaw, SessionInv, OneCapture
  <2>2. UNCHANGED <<awaiting, call>> /\ ~writing'.active /\ shm_error'
    BY <1>5 DEF WriteFails, NotWriting, awaitVars, clientVars
  <2>3. QED
    BY <2>1, <2>2 DEF CallTraced
<1>6. CASE PublishBurst
  <2>1. writing.active /\ ~awaiting
    BY <1>6 DEF PublishBurst, WritingDone, SessionInv, OneCapture
  <2>2. UNCHANGED <<awaiting, call>> /\ ~writing'.active
    BY <1>6 DEF PublishBurst, NotWriting, awaitVars, clientVars
  <2>3. writing.id \in DOMAIN publications'
    <3>1. writing.id \in Nat /\ writing.id # 0 /\ writing.id \notin DOMAIN publications
      BY <2>1 DEF TypeOK, WritingTypeOK, SessionInv, IdsNotZero, FreshInv
    <3>2. PICK pub : RememberPublication(writing.id, pub)
      BY <1>6 DEF PublishBurst
    <3>3. QED
      BY <3>1, <3>2, TableRemember DEF TypeOK
  <2>4. QED
    BY <2>1, <2>2, <2>3 DEF CallTraced
<1>7. QED
  BY <1>1, <1>2, <1>3, <1>4, <1>5, <1>6 DEF Next, OnCameraFrame, FinishBurst

\* With one client and unique ids, the handler's "internal inconsistency" cannot happen: when it
\* finds no publication, the ring reported an error that explains it.
THEOREM InconsistencyIsExplained ==
  OneClient /\ UniqueIds => (Spec => NoInternalInconsistency)
<1> SUFFICES ASSUME OneClient, UniqueIds PROVE Spec => NoInternalInconsistency
    OBVIOUS
<1>1. Init => CallTraced
  BY TracedInit
<1>2. TypeOK /\ SessionInv /\ FreshInv /\ TableInv /\ CallTraced /\ [Next]_vars => CallTraced'
  BY TracedNext
<1>3. CallTraced /\ [Next]_vars => [reply'.code = CodeNoPublication => shm_error]_vars
  <2> SUFFICES ASSUME CallTraced, [Next]_vars, reply'.code = CodeNoPublication, vars' # vars
               PROVE  shm_error
      OBVIOUS
  <2>1. PICK c \in Clients : SyncReturn(c)
    BY OtherReplies
  <2>2. ~SyncTimedOut(c)
    BY DEF SyncTimedOut, Answer, CodeTimeout, CodeNoPublication
  <2>3. ~writing.active /\ ~awaiting /\ call[c] # NotWaiting
    BY <2>1, <2>2 DEF SyncReturn, SyncFinished, MuFree
  <2>4. call[c].id \notin DOMAIN publications
    BY <2>1, <2>2 DEF SyncReturn, SyncFinished, Answer, CodeOk, CodeNoPublication
  <2>5. QED
    BY <2>3, <2>4 DEF CallTraced
<1>4. QED
  BY <1>1, <1>2, <1>3, FreshInvariant, PTL DEF Spec, NoInternalInconsistency

-----------------------------------------------------------------------------
\* The order in which a burst is written.

\* Products with a common factor are ordered like the other factors.
LEMMA ProductOrder ==
  ASSUME NEW a \in Nat, NEW b \in Nat, NEW f \in Nat, a <= b
  PROVE  a * f \in Nat /\ b * f \in Nat /\ a * f <= b * f
<1>1. b - a \in Nat /\ a * f \in Nat /\ b * f \in Nat /\ (b - a) * f \in Nat
  OBVIOUS
<1>2. b * f = a * f + (b - a) * f
  OBVIOUS
<1>3. QED
  BY <1>1, <1>2

\* The frames of one camera come before those of the next.
LEMMA RowsInOrder ==
  ASSUME NEW k \in Nat \ {0}, NEW c \in Nat \ {0}, NEW f \in Nat, k < c,
         NEW i \in 1 .. f, NEW j \in 1 .. f
  PROVE  (k - 1) * f + i < (c - 1) * f + j
<1>1. k * f <= (c - 1) * f /\ k * f \in Nat /\ (c - 1) * f \in Nat
  BY ProductOrder
<1>2. (k - 1) * f + f = k * f /\ (k - 1) * f \in Nat
  OBVIOUS
<1>3. QED
  BY <1>1, <1>2

\* A place in the burst belongs to one frame of one camera.
LEMMA PlaceIsUnique ==
  ASSUME NEW k \in Nat \ {0}, NEW c \in Nat \ {0}, NEW f \in Nat,
         NEW i \in 1 .. f, NEW j \in 1 .. f, (k - 1) * f + i = (c - 1) * f + j
  PROVE  k = c /\ i = j
<1>1. ~(k < c) /\ ~(c < k)
  <2>1. (k - 1) * f \in Nat /\ (c - 1) * f \in Nat
    OBVIOUS
  <2>2. k < c => (k - 1) * f + i < (c - 1) * f + j
    BY RowsInOrder
  <2>3. c < k => (c - 1) * f + j < (k - 1) * f + i
    BY RowsInOrder
  <2>4. QED
    BY <2>1, <2>2, <2>3
<1>2. k = c
  BY <1>1
<1>3. QED
  BY <1>2

\* The writer has kept one reference for every frame before its position in the burst, and the
\* placeholder of the result comes after all of them.
PlaceInv ==
  writing.active =>
    /\ writing.camera = CameraCount + 1 => writing.index = 1
    /\ Len(writing.refs) = (writing.camera - 1) * FramesPerTrigger + writing.index - 1
    /\ writing.final # NoRef => writing.camera = CameraCount + 1

\* What TypeOK says of a burst being written.
LEMMA BurstTypes ==
  ASSUME TypeOK, writing.active
  PROVE  /\ writing.camera \in 1 .. CameraCount + 1
         /\ writing.index \in 1 .. FramesPerTrigger
         /\ writing.refs \in Seq(Ref)
         /\ Len(writing.refs) \in Nat
         /\ DOMAIN writing.refs = 1 .. Len(writing.refs)
BY DEF TypeOK, WritingTypeOK

\* One raw write moves the position by one and keeps the reference of what it wrote.
LEMMA AfterWriteRaw ==
  ASSUME TypeOK, WriteRaw
  PROVE  /\ writing.active /\ writing.camera \in Cameras
         /\ writing'.active = TRUE
         /\ writing'.refs = Append(writing.refs, RefOf(NextPayload))
         /\ writing'.index = IF writing.index < FramesPerTrigger THEN writing.index + 1 ELSE 1
         /\ writing'.camera = IF writing.index < FramesPerTrigger THEN writing.camera
                                                                  ELSE writing.camera + 1
         /\ writing'.shot = writing.shot /\ writing'.burst = writing.burst
         /\ writing'.final = writing.final /\ writing'.thread = writing.thread
<1>1. writing.active /\ writing.camera \in Cameras
  BY Constants DEF WriteRaw, WritingRaw, TypeOK, WritingTypeOK, Cameras
<1>2. QED
  BY <1>1 DEF WriteRaw, TypeOK, WritingTypeOK

LEMMA AfterWriteFinal ==
  ASSUME TypeOK, WriteFinal
  PROVE  /\ writing.active /\ writing.camera = CameraCount + 1 /\ writing.final = NoRef
         /\ writing'.active = TRUE
         /\ writing'.refs = writing.refs /\ writing'.index = writing.index
         /\ writing'.camera = writing.camera
         /\ writing'.shot = writing.shot /\ writing'.burst = writing.burst
         /\ writing'.final = RefOf(writing.burst[1][1]) /\ writing'.thread = writing.thread
<1>1. writing.active /\ writing.camera = CameraCount + 1 /\ writing.final = NoRef
  BY Constants DEF WriteFinal, WritingFinal, TypeOK, WritingTypeOK
<1>2. QED
  BY <1>1 DEF WriteFinal, TypeOK, WritingTypeOK

\* The steps that leave the writer alone, or stop it.
LEMMA WriterSteps ==
  ASSUME [Next]_vars
  PROVE  \/ UNCHANGED writing
         \/ \E k \in Cameras : BurstTaken(k)
         \/ WriteRaw \/ WriteFinal \/ ~writing'.active
<1>1. ASSUME NEW c \in Clients,
             \/ Connect(c) \/ Disconnect(c) \/ CaptureRefused(c)
             \/ \E req \in CaptureIds : CaptureInProgress(c, req)
             \/ \E req \in CaptureIds, rec \in RecModes : CaptureSerialFailed(c, req, rec)
             \/ \E req \in CaptureIds, async \in AsyncModes, rec \in RecModes :
                  CaptureStarted(c, req, async, rec)
             \/ SyncReturn(c)
      PROVE  UNCHANGED writing
  BY <1>1 DEF Connect, Disconnect, CaptureRefused, CaptureInProgress, CaptureSerialFailed,
              CaptureStarted, SyncReturn, SyncFinished, SyncTimedOut, ringVars
<1>2. ASSUME NEW k \in Cameras, Deliver(k) \/ LoseFrame(k) \/ FrameDropped(k) \/ FrameCollected(k)
      PROVE  UNCHANGED writing
  BY <1>2 DEF Deliver, LoseFrame, FrameDropped, FrameCollected, ringVars
<1>3. WriteFails \/ PublishBurst => ~writing'.active
  BY DEF WriteFails, PublishBurst, NotWriting
<1>4. UNCHANGED vars => UNCHANGED writing
  BY DEF vars, ringVars
<1>5. QED
  BY <1>1, <1>2, <1>3, <1>4 DEF Next, OnCameraFrame, FinishBurst

LEMMA PlaceNext == TypeOK /\ PlaceInv /\ [Next]_vars => PlaceInv'
<1> SUFFICES ASSUME TypeOK, PlaceInv, [Next]_vars PROVE PlaceInv'
    OBVIOUS
<1>1. CASE UNCHANGED writing \/ ~writing'.active
  BY <1>1 DEF PlaceInv
<1>2. ASSUME NEW k \in Cameras, BurstTaken(k) PROVE PlaceInv'
  <2>1. writing'.camera = 1 /\ writing'.index = 1 /\ writing'.refs = <<>> /\ writing'.final = NoRef
    BY <1>2 DEF BurstTaken
  <2>2. (1 - 1) * FramesPerTrigger = 0
    BY Constants
  <2>3. QED
    BY <2>1, <2>2 DEF PlaceInv
<1>3. CASE WriteRaw
  <2> DEFINE F == FramesPerTrigger
             row == writing.camera - 1
  <2>1. Len(writing'.refs) = row * F + writing.index
    <3>1. Len(writing'.refs) = Len(writing.refs) + 1
      BY <1>3, AfterWriteRaw, BurstTypes
    <3>2. Len(writing.refs) = row * F + writing.index - 1 /\ row * F \in Int
      BY <1>3, AfterWriteRaw, BurstTypes, Constants DEF PlaceInv
    <3>3. QED
      BY <1>3, <3>1, <3>2, AfterWriteRaw, BurstTypes
  <2>2. writing.final = NoRef
    BY <1>3, AfterWriteRaw, Constants DEF PlaceInv, Cameras
  <2>3. CASE writing.index < F
    <3>1. writing'.camera = writing.camera /\ writing'.index = writing.index + 1
      BY <1>3, <2>3, AfterWriteRaw
    <3>2. writing'.camera # CameraCount + 1
      BY <1>3, <3>1, AfterWriteRaw, Constants DEF Cameras
    <3>3. row * F \in Int /\ row * F + (writing.index + 1) - 1 = row * F + writing.index
      BY <1>3, AfterWriteRaw, BurstTypes, Constants
    <3>4. QED
      BY <1>3, <2>1, <2>2, <3>1, <3>2, <3>3, AfterWriteRaw DEF PlaceInv
  <2>4. CASE writing.index = F
    <3>1. writing'.camera = writing.camera + 1 /\ writing'.index = 1
      BY <1>3, <2>4, AfterWriteRaw, Constants
    <3>2. writing.camera \in Nat /\ F \in Nat
      BY <1>3, AfterWriteRaw, BurstTypes, Constants
    <3>3. row * F + F = (writing'.camera - 1) * F + writing'.index - 1
      <4>1. row * F + F = writing.camera * F
        BY <3>2
      <4>2. writing.camera * F \in Int
        BY <3>2
      <4>3. writing'.camera - 1 = writing.camera
        BY <3>1, <3>2
      <4>4. (writing'.camera - 1) * F = writing.camera * F
        BY <4>3
      <4>5. QED
        BY <3>1, <4>1, <4>2, <4>4
    <3>4. QED
      BY <1>3, <2>1, <2>2, <2>4, <3>1, <3>3, AfterWriteRaw DEF PlaceInv
  <2>5. QED
    BY <1>3, <2>3, <2>4, AfterWriteRaw, BurstTypes, Constants
<1>4. CASE WriteFinal
  BY <1>4, AfterWriteFinal DEF PlaceInv
<1>5. QED
  BY <1>1, <1>2, <1>3, <1>4, WriterSteps

\* A burst that is complete has its full length, one that is not has room for a frame.
LEMMA PlaceBounds ==
  ASSUME TypeOK, PlaceInv, writing.active
  PROVE  /\ CameraCount * FramesPerTrigger \in Nat
         /\ writing.camera \in Cameras =>
              Len(writing.refs) + 1 <= CameraCount * FramesPerTrigger
         /\ writing.camera > CameraCount =>
              Len(writing.refs) = CameraCount * FramesPerTrigger
<1> DEFINE F == FramesPerTrigger
           row == writing.camera - 1
<1>1. CameraCount * F \in Nat
  BY Constants
<1>2. ASSUME writing.camera \in Cameras PROVE Len(writing.refs) + 1 <= CameraCount * F
  <2>1. row \in Nat /\ row + 1 <= CameraCount
    BY <1>2, Constants DEF Cameras
  <2>2. (row + 1) * F <= CameraCount * F
    BY <2>1, ProductOrder, Constants
  <2>3. (row + 1) * F = row * F + F /\ row * F \in Nat
    BY <2>1, Constants
  <2>4. Len(writing.refs) = row * F + writing.index - 1 /\ writing.index <= F
    BY BurstTypes DEF PlaceInv
  <2>5. QED
    BY <1>1, <2>2, <2>3, <2>4, BurstTypes, Constants, SMTT(20)
<1>3. ASSUME writing.camera > CameraCount PROVE Len(writing.refs) = CameraCount * F
  <2>1. writing.camera = CameraCount + 1
    BY <1>3, BurstTypes, Constants
  <2>2. row = CameraCount /\ writing.index = 1
    BY <2>1, Constants DEF PlaceInv
  <2>3. QED
    BY <1>1, <2>2, BurstTypes DEF PlaceInv
<1>4. QED
  BY <1>1, <1>2, <1>3

LEMMA PlaceInvariant == Spec => []PlaceInv
<1>1. Init => PlaceInv
  BY DEF Init, NotWriting, PlaceInv
<1>2. QED
  BY <1>1, PlaceNext, TypeCorrect, PTL DEF Spec

-----------------------------------------------------------------------------
\* The slots of the latest publication, when a burst and its placeholder fit the ring.

RingHoldsBurst == CameraCount * FramesPerTrigger + 1 <= SlotCount

\* The slot d writes after slot s.
Ahead(s, d) == IF s + d >= SlotCount THEN s + d - SlotCount ELSE s + d

\* The references of one burst are sound, and the cursor that wrote it is ahead of each by the
\* writes since: those of the frames after it, and `extra` more.
Followed(slots, at, refs, extra) ==
  \A i \in DOMAIN refs :
    /\ slots[refs[i].slot].seq = refs[i].seq
    /\ at = Ahead(refs[i].slot, Len(refs) - i + 1 + extra)

FinalWritten == IF writing.final = NoRef THEN 0 ELSE 1

\* While a burst is written, the cursor follows its references; between bursts, the references
\* of the latest publication are sound.
IntactInv ==
  /\ writing.active => Followed(ring, WriterCursor, writing.refs, FinalWritten)
  /\ LatestIntact

\* The arithmetic of the ring: one more write, and no slot is met again within a turn.
LEMMA AheadOne == ASSUME NEW s \in Slots PROVE NextCursor(s) = Ahead(s, 1)
BY Constants DEF NextCursor, Ahead, Slots

LEMMA AheadNext ==
  ASSUME NEW s \in Slots, NEW d \in Nat, d < SlotCount
  PROVE  NextCursor(Ahead(s, d)) = Ahead(s, d + 1)
BY Constants DEF NextCursor, Ahead, Slots

LEMMA AheadDiffers ==
  ASSUME NEW s \in Slots, NEW d \in Nat \ {0}, d < SlotCount
  PROVE  Ahead(s, d) # s
BY Constants DEF Ahead, Slots

RingType == [Slots -> [seq : Nat, data : Frame \union {NoPayload}]]

\* A write at the cursor meets no slot of a burst that is shorter than the ring: it leaves the
\* references sound and is one write more since each of them.
LEMMA FollowedWrite ==
  ASSUME NEW slots \in RingType, NEW at \in Slots, NEW refs \in Seq(Ref), NEW payload,
         Len(refs) < SlotCount, Followed(slots, at, refs, 0)
  PROVE  Followed(TryWriteNextSlot(slots, at, payload), NextCursor(at), refs, 1)
<1> DEFINE after == TryWriteNextSlot(slots, at, payload)
           n == Len(refs)
<1> SUFFICES ASSUME NEW i \in DOMAIN refs
             PROVE  /\ after[refs[i].slot].seq = refs[i].seq
                    /\ NextCursor(at) = Ahead(refs[i].slot, n - i + 1 + 1)
    BY DEF Followed
<1>1. n \in Nat /\ i \in 1 .. n /\ refs[i].slot \in Slots
  <2>1. n \in Nat /\ i \in 1 .. n /\ refs[i] \in Ref
    OBVIOUS
  <2>2. QED
    BY <2>1 DEF Ref
<1>2. n - i + 1 \in Nat \ {0} /\ n - i + 1 < SlotCount /\ n - i + 1 + 0 = n - i + 1
  BY <1>1, Constants
<1>3. slots[refs[i].slot].seq = refs[i].seq /\ at = Ahead(refs[i].slot, n - i + 1)
  BY <1>2 DEF Followed
<1>4. refs[i].slot # at
  BY <1>1, <1>2, <1>3, AheadDiffers
<1>5. after[refs[i].slot] = slots[refs[i].slot]
  BY <1>1, <1>4 DEF TryWriteNextSlot, RingType
<1>6. NextCursor(at) = Ahead(refs[i].slot, n - i + 1 + 1)
  BY <1>1, <1>2, <1>3, AheadNext
<1>7. QED
  BY <1>3, <1>5, <1>6

\* Such a write, when its own reference joins the others.
LEMMA FollowedAppend ==
  ASSUME NEW slots \in RingType, NEW at \in Slots, NEW refs \in Seq(Ref), NEW payload,
         NEW ref \in Ref, ref.slot = at, ref.seq = slots[at].seq + 1,
         Len(refs) < SlotCount, Followed(slots, at, refs, 0)
  PROVE  Followed(TryWriteNextSlot(slots, at, payload), NextCursor(at), Append(refs, ref), 0)
<1> DEFINE after == TryWriteNextSlot(slots, at, payload)
           n == Len(refs)
           more == Append(refs, ref)
<1>1. /\ n \in Nat /\ Len(more) = n + 1 /\ DOMAIN more = 1 .. n + 1 /\ DOMAIN refs = 1 .. n
      /\ more[n + 1] = ref
      /\ \A i \in 1 .. n : more[i] = refs[i]
  OBVIOUS
<1> SUFFICES ASSUME NEW i \in 1 .. n + 1
             PROVE  /\ after[more[i].slot].seq = more[i].seq
                    /\ NextCursor(at) = Ahead(more[i].slot, (n + 1) - i + 1 + 0)
  <2> HIDE DEF more
  <2>1. QED
    BY <1>1 DEF Followed
<1>2. CASE i \in 1 .. n
  <2>1. Followed(after, NextCursor(at), refs, 1)
    BY FollowedWrite
  <2>2. /\ after[refs[i].slot].seq = refs[i].seq
        /\ NextCursor(at) = Ahead(refs[i].slot, n - i + 1 + 1)
    BY <1>1, <1>2, <2>1 DEF Followed
  <2>3. (n + 1) - i + 1 + 0 = n - i + 1 + 1
    BY <1>1, <1>2
  <2>4. QED
    BY <1>1, <1>2, <2>2, <2>3
<1>3. CASE i = n + 1
  <2>1. more[i] = ref /\ (n + 1) - i + 1 + 0 = 1
    BY <1>1, <1>3
  <2>2. after[at].seq = slots[at].seq + 1
    BY DEF TryWriteNextSlot, PublishedSlot, RingType
  <2>3. NextCursor(at) = Ahead(at, 1)
    BY AheadOne
  <2>4. QED
    BY <2>1, <2>2, <2>3
<1>4. QED
  BY <1>1, <1>2, <1>3

\* The writer's cursor and the ring, as the lemmas above take them.
LEMMA WriterTypes ==
  ASSUME RingHoldsBurst, TypeOK, PlaceInv, writing.active, writing.final = NoRef
  PROVE  /\ ring \in RingType /\ WriterCursor \in Slots /\ writing.refs \in Seq(Ref)
         /\ Len(writing.refs) < SlotCount
         /\ FinalWritten = 0
<1>1. Len(writing.refs) <= CameraCount * FramesPerTrigger /\ CameraCount * FramesPerTrigger \in Nat
  <2>1. writing.camera \in Cameras \/ writing.camera > CameraCount
    BY BurstTypes, Constants DEF Cameras
  <2>2. QED
    BY <2>1, BurstTypes, PlaceBounds
<1>2. Len(writing.refs) < SlotCount
  BY <1>1, BurstTypes, Constants DEF RingHoldsBurst
<1>3. QED
  BY <1>2, BurstTypes, WritingTypes DEF TypeOK, RingTypeOK, RingType, FinalWritten

LEMMA CursorAdvanced ==
  ASSUME TypeOK, writing.active, AdvanceCursor, writing'.thread = writing.thread
  PROVE  WriterCursor' = NextCursor(WriterCursor)
<1>1. writing.thread \in Cameras /\ cursor \in [Cameras -> Slots]
  BY DEF TypeOK, WritingTypeOK, RingTypeOK
<1>2. QED
  BY <1>1 DEF AdvanceCursor, WriterCursor

\* A raw write meets none of the slots written before it for the same burst.
LEMMA IntactWriteRaw ==
  ASSUME RingHoldsBurst, TypeOK, PlaceInv, IntactInv, WriteRaw
  PROVE  IntactInv'
<1> DEFINE new == RefOf(NextPayload)
<1>1. writing.active /\ writing.final = NoRef /\ writing'.final = NoRef
  BY AfterWriteRaw, Constants DEF PlaceInv, Cameras
<1>2. writing'.refs = Append(writing.refs, new) /\ writing'.active = TRUE
  BY AfterWriteRaw
<1>3. new \in Ref
  <2>1. NextPayload \in Frame
    <3>1. writing.camera \in Cameras /\ writing.index \in 1 .. FramesPerTrigger
      BY AfterWriteRaw, BurstTypes
    <3>2. QED
      BY <1>1, <3>1 DEF NextPayload, TypeOK, WritingTypeOK
  <2>2. QED
    BY <2>1, AfterWriteRaw, WriteSlotType
<1>4. WriterCursor' = NextCursor(WriterCursor)
  BY <1>1, AfterWriteRaw, CursorAdvanced DEF WriteRaw
<1>5. ring' = TryWriteNextSlot(ring, WriterCursor, NextPayload)
  BY DEF WriteRaw
<1>6. new.slot = WriterCursor /\ new.seq = ring[WriterCursor].seq + 1
  BY DEF RefOf
<1>7. Followed(ring, WriterCursor, writing.refs, 0)
  BY <1>1, WriterTypes DEF IntactInv
<1>8. Followed(ring', NextCursor(WriterCursor), Append(writing.refs, new), 0)
  <2> HIDE DEF new
  <2>1. QED
    BY <1>1, <1>3, <1>5, <1>6, <1>7, WriterTypes, FollowedAppend
<1>9. FinalWritten' = 0
  BY <1>1 DEF FinalWritten
<1>10. LatestIntact'
  BY <1>2 DEF LatestIntact, MuFree
<1>11. QED
  BY <1>2, <1>4, <1>8, <1>9, <1>10 DEF IntactInv

\* Nor does the placeholder of the result, whose reference is a new one.
LEMMA IntactWriteFinal ==
  ASSUME RingHoldsBurst, TypeOK, PlaceInv, IntactInv, WriteFinal
  PROVE  IntactInv'
<1> DEFINE payload == writing.burst[1][1]
<1>1. writing.active /\ writing.final = NoRef /\ writing'.final = RefOf(payload)
  BY AfterWriteFinal
<1>2. writing'.refs = writing.refs /\ writing'.active = TRUE
  BY AfterWriteFinal
<1>3. FinalWritten' = 1
  <2>1. RefOf(payload).seq # NoRef.seq
    BY <1>1, WritingTypes DEF RefOf, NoRef
  <2>2. QED
    BY <1>1, <2>1 DEF FinalWritten
<1>4. WriterCursor' = NextCursor(WriterCursor)
  BY <1>1, AfterWriteFinal, CursorAdvanced DEF WriteFinal
<1>5. ring' = TryWriteNextSlot(ring, WriterCursor, payload)
  BY DEF WriteFinal
<1>6. Followed(ring, WriterCursor, writing.refs, 0)
  BY <1>1, WriterTypes DEF IntactInv
<1>7. Followed(ring', NextCursor(WriterCursor), writing.refs, 1)
  BY <1>1, <1>5, <1>6, WriterTypes, FollowedWrite
<1>8. LatestIntact'
  BY <1>2 DEF LatestIntact, MuFree
<1>9. QED
  BY <1>2, <1>3, <1>4, <1>7, <1>8 DEF IntactInv

\* The publication that becomes the latest is the burst just written.
LEMMA IntactPublishBurst ==
  ASSUME TypeOK, IntactInv, PublishBurst
  PROVE  IntactInv'
<1> DEFINE pub == [shot |-> writing.shot, refs |-> writing.refs, final |-> writing.final]
<1>1. writing.active /\ ~writing'.active /\ UNCHANGED ring
  BY DEF PublishBurst, WritingDone, NotWriting
<1>2. RememberPublication(writing.id, pub) /\ latest_id' = writing.id
  BY DEF PublishBurst, RememberPublication
<1>3. latest_id' \in DOMAIN publications' => publications'[latest_id'] = pub
  BY <1>2, RememberEntries
<1>4. \A i \in DOMAIN pub.refs : ring'[pub.refs[i].slot].seq = pub.refs[i].seq
  BY <1>1 DEF IntactInv, Followed
<1>5. QED
  BY <1>1, <1>3, <1>4 DEF IntactInv, LatestIntact, Sound

\* A step that writes nothing leaves the latest publication, or forgets it.
LEMMA IntactFrame ==
  ASSUME IntactInv, UNCHANGED <<ring, writing, cursor>>,
         \/ UNCHANGED <<publications, latest_id>>
         \/ publications' = NoPublications
  PROVE  IntactInv'
<1>1. writing'.active => Followed(ring, WriterCursor, writing.refs, FinalWritten)'
  BY DEF IntactInv, Followed, FinalWritten, WriterCursor
<1>2. LatestIntact'
  BY DEF IntactInv, LatestIntact, MuFree, Sound, NoPublications
<1>3. QED
  BY <1>1, <1>2 DEF IntactInv

LEMMA IntactNext ==
  ASSUME RingHoldsBurst, OversizeCameras = {}
  PROVE  TypeOK /\ PlaceInv /\ IntactInv /\ [Next]_vars => IntactInv'
<1> SUFFICES ASSUME TypeOK, PlaceInv, IntactInv, [Next]_vars PROVE IntactInv'
    OBVIOUS
<1>1. CASE \/ \E c \in Clients :
                \/ Connect(c) \/ Disconnect(c) \/ CaptureRefused(c)
                \/ \E req \in CaptureIds : CaptureInProgress(c, req)
                \/ \E req \in CaptureIds, rec \in RecModes : CaptureSerialFailed(c, req, rec)
                \/ \E req \in CaptureIds, async \in AsyncModes, rec \in RecModes :
                     CaptureStarted(c, req, async, rec)
                \/ SyncReturn(c)
           \/ \E k \in Cameras : Deliver(k) \/ LoseFrame(k) \/ FrameDropped(k) \/ FrameCollected(k)
           \/ UNCHANGED vars
  <2>1. UNCHANGED <<ring, writing, cursor>>
    BY <1>1, ZenonT(30) DEF Connect, Disconnect, CaptureRefused, CaptureInProgress, CaptureSerialFailed,
                CaptureStarted, SyncReturn, SyncFinished, SyncTimedOut, Deliver, LoseFrame,
                FrameDropped, FrameCollected, vars, ringVars
  <2>2. \/ UNCHANGED <<publications, latest_id>>
        \/ publications' = NoPublications
    BY <1>1, ZenonT(30)
       DEF Connect, Disconnect, TeardownSession, CaptureRefused, CaptureInProgress,
           CaptureSerialFailed, CaptureStarted, SyncReturn, SyncFinished, SyncTimedOut,
           Deliver, LoseFrame, FrameDropped, FrameCollected, vars, pubVars
  <2>3. QED
    BY <2>1, <2>2, IntactFrame
<1>2. ASSUME NEW k \in Cameras, BurstTaken(k) PROVE IntactInv'
  <2>1. writing'.active = TRUE /\ writing'.refs = <<>>
    BY <1>2 DEF BurstTaken
  <2>2. QED
    BY <2>1 DEF IntactInv, LatestIntact, MuFree, Followed
<1>3. ~WriteFails
  BY DEF WriteFails
<1>4. QED
  BY <1>1, <1>2, <1>3, IntactWriteRaw, IntactWriteFinal, IntactPublishBurst
     DEF Next, OnCameraFrame, FinishBurst

\* Whichever callback threads wrote the bursts before it, the slots of the latest publication
\* still hold its frames while nobody writes, if a burst with its placeholder fits the ring and
\* every payload fits a slot.
THEOREM LatestIsIntact ==
  RingHoldsBurst /\ OversizeCameras = {} => (Spec => []LatestIntact)
<1> SUFFICES ASSUME RingHoldsBurst, OversizeCameras = {} PROVE Spec => []LatestIntact
    OBVIOUS
<1>1. Init => IntactInv
  BY DEF Init, NotWriting, NoPublications, IntactInv, LatestIntact
<1>2. TypeOK /\ PlaceInv /\ IntactInv /\ [Next]_vars => IntactInv'
  BY IntactNext
<1>3. IntactInv => LatestIntact
  BY DEF IntactInv
<1>4. QED
  BY <1>1, <1>2, <1>3, TypeCorrect, PlaceInvariant, PTL DEF Spec

-----------------------------------------------------------------------------
\* The frames of a burst, when they arrive before the next trigger and the deadline.

FrameOf(k, n, i) == [camera |-> k, shot |-> n, index |-> i]

InHand(k) == IF in_callback[k] = NoFrame THEN 0 ELSE 1

\* Frames of camera k on their way to a full burst: collected, in a callback, in the line.
Expected(k) == Len(pending[k]) + InHand(k) + Len(line[k])

\* While a capture waits, the line of a camera is the rest of the burst it was triggered for;
\* as long as no frame was lost, what has arrived is the burst up to that point.  Once a frame
\* is lost the burst cannot be completed any more.
ArrivalInv ==
  awaiting => \A k \in Cameras :
    /\ Expected(k) <= FramesPerTrigger
    /\ \A i \in 1 .. Len(line[k]) :
         line[k][i] = FrameOf(k, awaiting_shot, FramesPerTrigger - Len(line[k]) + i)
    /\ Expected(k) = FramesPerTrigger =>
         /\ \A i \in 1 .. Len(pending[k]) : pending[k][i] = FrameOf(k, awaiting_shot, i)
         /\ in_callback[k] # NoFrame =>
              in_callback[k] = FrameOf(k, awaiting_shot, Len(pending[k]) + 1)

\* The references kept so far are those of the frames in the order of the cameras.
CopiedInv ==
  writing.active => \A k \in Cameras, i \in 1 .. FramesPerTrigger :
    /\ writing.burst[k][i] = FrameOf(k, writing.shot, i)
    /\ (k - 1) * FramesPerTrigger + i <= Len(writing.refs) =>
         writing.refs[(k - 1) * FramesPerTrigger + i].data = FrameOf(k, writing.shot, i)

\* What TypeOK says of a camera's frames.
LEMMA ArrivalTypes ==
  ASSUME TypeOK, NEW k \in Cameras
  PROVE  /\ pending[k] \in Seq(Frame) /\ Len(pending[k]) \in Nat
         /\ line[k] \in Seq(Frame) /\ Len(line[k]) \in Nat
         /\ InHand(k) \in 0 .. 1
         /\ awaiting_shot \in Nat /\ FramesPerTrigger \in Nat \ {0}
<1>1. pending[k] \in Seq(Frame) /\ line[k] \in Seq(Frame) /\ awaiting_shot \in Nat
  BY DEF TypeOK, CaptureTypeOK, CameraTypeOK
<1>2. QED
  BY <1>1, Constants DEF InHand

\* No frame is NoFrame.
LEMMA FramesExist == \A f \in Frame : f # NoFrame
BY Constants DEF Frame, NoFrame, Cameras

\* The part of ArrivalInv that is about one camera.
ArrivedAt(k) ==
  /\ Expected(k) <= FramesPerTrigger
  /\ \A i \in 1 .. Len(line[k]) :
       line[k][i] = FrameOf(k, awaiting_shot, FramesPerTrigger - Len(line[k]) + i)
  /\ Expected(k) = FramesPerTrigger =>
       /\ \A i \in 1 .. Len(pending[k]) : pending[k][i] = FrameOf(k, awaiting_shot, i)
       /\ in_callback[k] # NoFrame =>
            in_callback[k] = FrameOf(k, awaiting_shot, Len(pending[k]) + 1)

\* Cameras whose frames do not move keep theirs.
LEMMA ArrivedFrame ==
  ASSUME NEW k, ArrivedAt(k), awaiting_shot' = awaiting_shot, pending'[k] = pending[k],
         in_callback'[k] = in_callback[k], line'[k] = line[k]
  PROVE  ArrivedAt(k)'
BY DEF ArrivedAt, Expected, InHand

\* A new capture finds the lines empty and gets one full burst per camera.
LEMMA ArrivalStarted ==
  ASSUME PromptCameras, TypeOK, NEW c \in Clients, NEW req \in CaptureIds,
         NEW async \in AsyncModes, NEW rec \in RecModes, CaptureStarted(c, req, async, rec)
  PROVE  ArrivalInv'
<1> DEFINE F == FramesPerTrigger
<1>1. /\ line' = TriggeredLine /\ pending' = NoPending /\ UNCHANGED in_callback
      /\ awaiting_shot' = shot + 1
      /\ \A k \in Cameras : line[k] = <<>> /\ in_callback[k] = NoFrame
  BY DEF CaptureStarted, Quiet, InFlight
<1> SUFFICES ASSUME NEW k \in Cameras PROVE ArrivedAt(k)'
    BY DEF ArrivalInv, ArrivedAt
<1> DEFINE burst == [i \in 1 .. F |-> [camera |-> k, shot |-> shot + 1, index |-> i]]
<1>2. burst \in Seq(Frame) /\ Len(burst) = F
  <2>1. \A i \in 1 .. F : [camera |-> k, shot |-> shot + 1, index |-> i] \in Frame
    BY Constants DEF Frame, TypeOK, CameraTypeOK
  <2>2. QED
    BY <2>1, Constants
<1>3. line'[k] = burst
  <2>1. line'[k] = <<>> \o burst
    BY <1>1 DEF TriggeredLine
  <2>2. QED
    BY <1>2, <2>1
<1>4. pending'[k] = <<>> /\ in_callback'[k] = NoFrame
  BY <1>1 DEF NoPending
<1>5. Len(line'[k]) = F /\ \A i \in 1 .. F : line'[k][i] = FrameOf(k, shot + 1, i)
  BY <1>2, <1>3 DEF FrameOf
<1>6. Expected(k)' = F
  BY <1>4, <1>5, Constants DEF Expected, InHand
<1>7. \A i \in 1 .. F : F - F + i = i
  BY Constants
<1>8. QED
  BY <1>1, <1>4, <1>5, <1>6, <1>7, Constants DEF ArrivedAt

\* The first frame of the line goes into a callback.
LEMMA ArrivalDeliver ==
  ASSUME TypeOK, SessionInv, ArrivalInv, awaiting, NEW k \in Cameras, Deliver(k)
  PROVE  ArrivedAt(k)'
<1> DEFINE F == FramesPerTrigger
           n == Len(line[k])
<1>1. k \in streaming
  BY DEF SessionInv, ClosedIsIdle, ReadyIsComplete
<1>2. line[k] # <<>> /\ line[k] \in Seq(Frame) /\ in_callback[k] = NoFrame
  BY ArrivalTypes DEF Deliver
<1>3. /\ n \in Nat \ {0} /\ Head(line[k]) = line[k][1] /\ line[k][1] \in Frame
      /\ Tail(line[k]) \in Seq(Frame) /\ Len(Tail(line[k])) = n - 1
      /\ \A i \in 1 .. n - 1 : Tail(line[k])[i] = line[k][i + 1] /\ i + 1 \in 1 .. n
  BY <1>2
<1>4. line'[k] = Tail(line[k]) /\ in_callback'[k] = line[k][1]
  BY <1>1, <1>3 DEF Deliver, TypeOK, CameraTypeOK
<1>5. in_callback'[k] # NoFrame
  BY <1>3, <1>4, FramesExist
<1>6. UNCHANGED <<pending, awaiting_shot>>
  BY DEF Deliver, awaitVars
<1>7. ArrivedAt(k)
  BY DEF ArrivalInv, ArrivedAt
<1>8. Expected(k)' = Expected(k) /\ Expected(k) = Len(pending[k]) + n
  <2>1. InHand(k) = 0 /\ InHand(k)' = 1
    BY <1>2, <1>5 DEF InHand
  <2>2. Len(line'[k]) = n - 1 /\ pending'[k] = pending[k]
    BY <1>3, <1>4, <1>6
  <2> DEFINE m == Len(pending[k])
  <2>3. m \in Nat /\ n \in Nat
    BY ArrivalTypes
  <2>4. Expected(k)' = m + 1 + (n - 1) /\ Expected(k) = m + 0 + n
    BY <2>1, <2>2 DEF Expected
  <2> HIDE DEF m, n
  <2>5. Expected(k)' = Expected(k) /\ Expected(k) = m + n
    BY <2>3, <2>4
  <2>6. QED
    BY <2>5 DEF m, n
<1>9. \A i \in 1 .. n - 1 :
        line'[k][i] = FrameOf(k, awaiting_shot, F - (n - 1) + i)
  <2> SUFFICES ASSUME NEW i \in 1 .. n - 1
               PROVE  line'[k][i] = FrameOf(k, awaiting_shot, F - (n - 1) + i)
      OBVIOUS
  <2>1. line'[k][i] = FrameOf(k, awaiting_shot, F - n + (i + 1))
    BY <1>3, <1>4, <1>7 DEF ArrivedAt
  <2>2. F \in Nat /\ n \in Nat /\ i \in Nat
    BY ArrivalTypes
  <2>3. F - n + (i + 1) = F - (n - 1) + i
    BY <2>2
  <2>4. QED
    BY <2>1, <2>3
<1>10. Expected(k) = F => in_callback'[k] = FrameOf(k, awaiting_shot, Len(pending[k]) + 1)
  <2> SUFFICES ASSUME Expected(k) = F
               PROVE  in_callback'[k] = FrameOf(k, awaiting_shot, Len(pending[k]) + 1)
      OBVIOUS
  <2>1. Len(pending[k]) + n = F /\ Len(pending[k]) \in Nat /\ n \in Nat
    BY <1>8, ArrivalTypes
  <2>2. in_callback'[k] = FrameOf(k, awaiting_shot, F - n + 1)
    BY <1>3, <1>4, <1>7 DEF ArrivedAt
  <2>3. F - n + 1 = Len(pending[k]) + 1
    <3> DEFINE m == Len(pending[k])
    <3>1. m + n = F /\ m \in Nat /\ n \in Nat
      BY <2>1
    <3> HIDE DEF m, n, F
    <3>2. F - n + 1 = m + 1
      BY <3>1
    <3>3. QED
      BY <3>2 DEF m
  <2>4. QED
    BY <2>2, <2>3
<1>11. QED
  BY <1>3, <1>4, <1>6, <1>7, <1>8, <1>9, <1>10 DEF ArrivedAt

\* A lost frame makes the burst impossible to complete.
LEMMA ArrivalLost ==
  ASSUME TypeOK, ArrivalInv, awaiting, NEW k \in Cameras, LoseFrame(k)
  PROVE  ArrivedAt(k)'
<1> DEFINE F == FramesPerTrigger
           n == Len(line[k])
<1>1. line[k] # <<>> /\ line[k] \in Seq(Frame)
  BY ArrivalTypes DEF LoseFrame
<1>2. /\ n \in Nat \ {0} /\ Len(Tail(line[k])) = n - 1
      /\ \A i \in 1 .. n - 1 : Tail(line[k])[i] = line[k][i + 1] /\ i + 1 \in 1 .. n
  BY <1>1
<1>3. line'[k] = Tail(line[k]) /\ UNCHANGED <<pending, in_callback, awaiting_shot>>
  BY DEF LoseFrame, TypeOK, CameraTypeOK, awaitVars
<1>4. ArrivedAt(k)
  BY DEF ArrivalInv, ArrivedAt
<1>5. Expected(k)' = Expected(k) - 1 /\ Expected(k) \in Nat
  <2>1. InHand(k)' = InHand(k) /\ pending'[k] = pending[k] /\ Len(line'[k]) = n - 1
    BY <1>2, <1>3 DEF InHand
  <2> DEFINE m == Len(pending[k])
             h == InHand(k)
  <2>2. m \in Nat /\ n \in Nat \ {0} /\ h \in 0 .. 1
    BY <1>2, ArrivalTypes
  <2>3. Expected(k)' = m + h + (n - 1) /\ Expected(k) = m + h + n
    BY <2>1 DEF Expected
  <2> HIDE DEF m, n, h
  <2>4. QED
    BY <2>2, <2>3
<1>6. Expected(k)' < F
  BY <1>4, <1>5, Constants DEF ArrivedAt
<1>7. \A i \in 1 .. n - 1 :
        line'[k][i] = FrameOf(k, awaiting_shot, F - (n - 1) + i)
  <2> SUFFICES ASSUME NEW i \in 1 .. n - 1
               PROVE  line'[k][i] = FrameOf(k, awaiting_shot, F - (n - 1) + i)
      OBVIOUS
  <2>1. line'[k][i] = FrameOf(k, awaiting_shot, F - n + (i + 1))
    BY <1>2, <1>3, <1>4 DEF ArrivedAt
  <2>2. F \in Nat /\ n \in Nat /\ i \in Nat
    BY ArrivalTypes
  <2>3. F - n + (i + 1) = F - (n - 1) + i
    BY <2>2
  <2>4. QED
    BY <2>1, <2>3
<1>8. Expected(k)' # F /\ Expected(k)' <= F
  BY <1>5, <1>6, Constants
<1>9. QED
  BY <1>2, <1>3, <1>7, <1>8 DEF ArrivedAt

\* A frame that is collected stands where it belongs in the burst.
LEMMA CollectedInOrder ==
  ASSUME TypeOK, ArrivalInv, awaiting, NEW k \in Cameras, in_callback[k] # NoFrame
  PROVE  /\ Len(Collected(k)[k]) = Len(pending[k]) + 1
         /\ Len(Collected(k)[k]) + Len(line[k]) = Expected(k)
         /\ Expected(k) <= FramesPerTrigger
         /\ Expected(k) = FramesPerTrigger =>
              \A i \in 1 .. Len(Collected(k)[k]) :
                Collected(k)[k][i] = FrameOf(k, awaiting_shot, i)
         /\ \A j \in Cameras \ {k} : Collected(k)[j] = pending[j]
<1>1. Collected(k)[k] = Append(pending[k], in_callback[k])
  BY DEF Collected, TypeOK, CaptureTypeOK
<1>2. \A j \in Cameras \ {k} : Collected(k)[j] = pending[j]
  BY DEF Collected, TypeOK, CaptureTypeOK
<1>3. in_callback[k] \in Frame /\ pending[k] \in Seq(Frame) /\ Len(pending[k]) \in Nat
  BY ArrivalTypes DEF TypeOK, CameraTypeOK
<1>4. /\ Len(Collected(k)[k]) = Len(pending[k]) + 1
      /\ Collected(k)[k][Len(pending[k]) + 1] = in_callback[k]
      /\ \A i \in 1 .. Len(pending[k]) : Collected(k)[k][i] = pending[k][i]
  BY <1>1, <1>3
<1>5. ArrivedAt(k)
  BY DEF ArrivalInv, ArrivedAt
<1>6. Len(Collected(k)[k]) + Len(line[k]) = Expected(k)
  BY <1>4, ArrivalTypes DEF Expected, InHand
<1>7. ASSUME Expected(k) = FramesPerTrigger, NEW i \in 1 .. Len(Collected(k)[k])
      PROVE  Collected(k)[k][i] = FrameOf(k, awaiting_shot, i)
  <2>1. i \in 1 .. Len(pending[k]) \/ i = Len(pending[k]) + 1
    BY <1>3, <1>4
  <2>2. QED
    BY <1>4, <1>5, <1>7, <2>1 DEF ArrivedAt
<1>8. QED
  BY <1>2, <1>4, <1>5, <1>6, <1>7 DEF ArrivedAt

LEMMA ArrivalCollected ==
  ASSUME TypeOK, ArrivalInv, awaiting, NEW k \in Cameras, FrameCollected(k)
  PROVE  ArrivedAt(k)'
<1>1. in_callback[k] # NoFrame /\ pending'[k] = Collected(k)[k] /\ UNCHANGED <<line, awaiting_shot>>
  BY DEF FrameCollected, awaitVars
<1>2. in_callback'[k] = NoFrame
  BY DEF FrameCollected, CallbackReturns, TypeOK, CameraTypeOK
<1>3. Expected(k)' = Expected(k)
  <2>1. InHand(k)' = 0 /\ line'[k] = line[k]
    BY <1>1, <1>2 DEF InHand
  <2> DEFINE m == Len(pending[k])
             n == Len(line[k])
  <2>2. m + 1 + n = Expected(k) /\ Len(pending'[k]) = m + 1
    BY <1>1, CollectedInOrder
  <2>3. m \in Nat /\ n \in Nat
    BY ArrivalTypes
  <2>4. Expected(k)' = m + 1 + 0 + n
    BY <2>1, <2>2 DEF Expected
  <2> HIDE DEF m, n
  <2>5. QED
    BY <2>2, <2>3, <2>4
<1>4. ArrivedAt(k)
  BY DEF ArrivalInv, ArrivedAt
<1>5. QED
  BY <1>1, <1>2, <1>3, <1>4, CollectedInOrder DEF ArrivedAt

LEMMA ArrivalNext ==
  ASSUME PromptCameras
  PROVE  TypeOK /\ SessionInv /\ ArrivalInv /\ [Next]_vars => ArrivalInv'
<1> SUFFICES ASSUME TypeOK, SessionInv, ArrivalInv, [Next]_vars PROVE ArrivalInv'
    OBVIOUS
<1>1. ASSUME NEW c \in Clients, NEW req \in CaptureIds, NEW async \in AsyncModes,
             NEW rec \in RecModes, CaptureStarted(c, req, async, rec)
      PROVE  ArrivalInv'
  BY <1>1, ArrivalStarted
<1>2. CASE \/ \E c \in Clients :
                \/ Connect(c) \/ Disconnect(c) \/ CaptureRefused(c) \/ SyncReturn(c)
                \/ \E req \in CaptureIds : CaptureInProgress(c, req)
                \/ \E req \in CaptureIds, rec \in RecModes : CaptureSerialFailed(c, req, rec)
           \/ \E k \in Cameras : FrameDropped(k) \/ BurstTaken(k)
           \/ FinishBurst
           \/ UNCHANGED vars
  <2>1. CASE ~awaiting'
    BY <2>1 DEF ArrivalInv
  <2>2. CASE awaiting'
    <3>1. awaiting /\ ~FinishBurst
      BY <1>2, <2>2 DEF Connect, Disconnect, TeardownSession, CaptureRefused, SyncReturn,
           SyncFinished, SyncTimedOut, CaptureInProgress, CaptureSerialFailed, FrameDropped,
           BurstTaken, FinishBurst, WriteRaw, WriteFinal, WriteFails, PublishBurst, WritingRaw,
           WritingFinal, WritingDone, SessionInv, OneCapture, vars, awaitVars
    <3>2. UNCHANGED <<pending, in_callback, line, awaiting_shot>>
      BY <1>2, <2>2, <3>1 DEF Connect, Disconnect, TeardownSession, CaptureRefused, SyncReturn,
           SyncFinished, SyncTimedOut, CaptureInProgress, CaptureSerialFailed, FrameDropped,
           BurstTaken, vars, awaitVars, cameraVars
    <3>3. QED
      BY <3>1, <3>2 DEF ArrivalInv, Expected, InHand
  <2>3. QED
    BY <2>1, <2>2
<1>3. ASSUME NEW k \in Cameras, Deliver(k) \/ LoseFrame(k) \/ FrameCollected(k) PROVE ArrivalInv'
  <2> SUFFICES ASSUME awaiting', NEW j \in Cameras PROVE ArrivedAt(j)'
      BY DEF ArrivalInv, ArrivedAt
  <2>1. awaiting /\ UNCHANGED awaiting_shot
    BY <1>3 DEF Deliver, LoseFrame, FrameCollected, awaitVars
  <2>2. CASE j = k
    BY <1>3, <2>1, <2>2, ArrivalDeliver, ArrivalLost, ArrivalCollected
  <2>3. CASE j # k
    <3>1. pending'[j] = pending[j] /\ in_callback'[j] = in_callback[j] /\ line'[j] = line[j]
      BY <1>3, <2>3 DEF Deliver, LoseFrame, FrameCollected, CallbackReturns, Collected, TypeOK,
                        CaptureTypeOK, CameraTypeOK
    <3>2. ArrivedAt(j)
      BY <2>1 DEF ArrivalInv, ArrivedAt
    <3>3. QED
      BY <2>1, <3>1, <3>2, ArrivedFrame
  <2>4. QED
    BY <2>2, <2>3
<1>4. QED
  BY <1>1, <1>2, <1>3 DEF Next, OnCameraFrame

LEMMA ArrivalInvariant ==
  ASSUME PromptCameras
  PROVE  Spec => []ArrivalInv
<1>1. Init => ArrivalInv
  BY DEF Init, ArrivalInv
<1>2. TypeOK /\ SessionInv /\ ArrivalInv /\ [Next]_vars => ArrivalInv'
  BY ArrivalNext
<1>3. QED
  BY <1>1, <1>2, TypeCorrect, SessionInvariant, PTL DEF Spec

\* The burst that is taken is complete and in order.
LEMMA CopiedBurstTaken ==
  ASSUME TypeOK, ArrivalInv, NEW k \in Cameras, BurstTaken(k)
  PROVE  CopiedInv'
<1> DEFINE F == FramesPerTrigger
<1>1. awaiting /\ in_callback[k] # NoFrame /\ BurstComplete(Collected(k))
  BY DEF BurstTaken
<1>2. /\ writing'.burst = [j \in Cameras |-> SubSeq(Collected(k)[j], 1, F)]
      /\ writing'.shot = awaiting_shot /\ writing'.refs = <<>>
  BY DEF BurstTaken
<1> SUFFICES ASSUME NEW j \in Cameras, NEW i \in 1 .. F
             PROVE  /\ writing'.burst[j][i] = FrameOf(j, awaiting_shot, i)
                    /\ ~((j - 1) * F + i <= 0)
    BY <1>2 DEF CopiedInv
<1>3. ~((j - 1) * F + i <= 0)
  <2>1. (j - 1) * F \in Nat
    BY Constants DEF Cameras
  <2>2. QED
    BY <2>1
<1>4. Collected(k)[j] \in Seq(Frame) /\ Len(Collected(k)[j]) \in Nat /\ Len(Collected(k)[j]) >= F
  BY <1>1, CollectedType DEF BurstComplete
<1>5. Collected(k)[j][i] = FrameOf(j, awaiting_shot, i)
  <2>1. CASE j = k
    <3>1. Expected(k) = F /\ Len(Collected(k)[k]) = F
      <4> DEFINE m == Len(Collected(k)[k])
                 n == Len(line[k])
      <4>1. m + n = Expected(k) /\ Expected(k) <= F /\ m >= F
        BY <1>1, <1>4, <2>1, CollectedInOrder
      <4>2. m \in Nat /\ n \in Nat /\ F \in Nat
        BY <1>4, <2>1, ArrivalTypes
      <4> HIDE DEF m, n, F
      <4>3. Expected(k) = F /\ m = F
        BY <4>1, <4>2
      <4>4. QED
        BY <4>3 DEF m
    <3>2. QED
      BY <1>1, <2>1, <3>1, CollectedInOrder
  <2>2. CASE j # k
    <3>1. Collected(k)[j] = pending[j]
      BY <1>1, <2>2, CollectedInOrder
    <3>2. Expected(j) <= F /\ Len(pending[j]) >= F
      BY <1>1, <1>4, <3>1 DEF ArrivalInv
    <3>3. Expected(j) = F /\ Len(pending[j]) = F
      BY <3>2, ArrivalTypes DEF Expected
    <3>4. QED
      BY <1>1, <3>1, <3>3 DEF ArrivalInv
  <2>3. QED
    BY <2>1, <2>2
<1>6. writing'.burst[j][i] = Collected(k)[j][i]
  <2>1. writing'.burst[j] = SubSeq(Collected(k)[j], 1, F)
    BY <1>2
  <2>2. SubSeq(Collected(k)[j], 1, F)[i] = Collected(k)[j][i]
    BY <1>4, Constants
  <2>3. QED
    BY <2>1, <2>2
<1>7. QED
  BY <1>3, <1>5, <1>6

\* Each raw write copies the frame whose place is next.
LEMMA CopiedWriteRaw ==
  ASSUME TypeOK, PlaceInv, CopiedInv, WriteRaw
  PROVE  CopiedInv'
<1> DEFINE F == FramesPerTrigger
           n == Len(writing.refs)
           new == RefOf(NextPayload)
<1>1. writing.active /\ writing.camera \in Cameras /\ writing.index \in 1 .. F
  BY AfterWriteRaw, BurstTypes
<1>2. /\ writing'.refs = Append(writing.refs, new)
      /\ writing'.burst = writing.burst /\ writing'.shot = writing.shot
  BY AfterWriteRaw
<1>3. n \in Nat /\ n + 1 = (writing.camera - 1) * F + writing.index
  <2>1. n \in Nat /\ n = (writing.camera - 1) * F + writing.index - 1
    BY <1>1, BurstTypes DEF PlaceInv
  <2>2. (writing.camera - 1) * F \in Int
    BY <1>1, Constants DEF Cameras
  <2>3. QED
    BY <1>1, <2>1, <2>2
<1>4. /\ Len(writing'.refs) = n + 1 /\ writing'.refs[n + 1] = new
      /\ \A i \in 1 .. n : writing'.refs[i] = writing.refs[i]
  BY <1>1, <1>2, BurstTypes
<1>5. new.data = FrameOf(writing.camera, writing.shot, writing.index)
  BY <1>1 DEF RefOf, NextPayload, CopiedInv
<1>6. ASSUME NEW k \in Cameras, NEW i \in 1 .. F, (k - 1) * F + i <= n + 1
      PROVE  writing'.refs[(k - 1) * F + i].data = FrameOf(k, writing.shot, i)
  <2> HIDE DEF new
  <2>1. (k - 1) * F + i \in Nat \ {0}
    <3>1. (k - 1) * F \in Nat
      BY Constants DEF Cameras
    <3>2. QED
      BY <3>1
  <2>2. CASE (k - 1) * F + i <= n
    BY <1>1, <1>4, <2>1, <2>2 DEF CopiedInv
  <2>3. CASE (k - 1) * F + i = n + 1
    <3> DEFINE c == writing.camera
               j == writing.index
    <3>1. k \in Nat \ {0} /\ c \in Nat \ {0} /\ F \in Nat /\ i \in 1 .. F /\ j \in 1 .. F
      BY <1>1, Constants DEF Cameras
    <3>2. (k - 1) * F + i = (c - 1) * F + j
      BY <1>3, <2>3
    <3> HIDE DEF n, c, j, F
    <3>3. k = c /\ i = j
      <4>1. \A x, y \in Nat \ {0}, f \in Nat : \A a, b \in 1 .. f :
              (x - 1) * f + a = (y - 1) * f + b => x = y /\ a = b
        BY PlaceIsUnique
      <4>2. \A a, b \in 1 .. F : (k - 1) * F + a = (c - 1) * F + b => k = c /\ a = b
        BY <3>1, <4>1, ZenonT(30)
      <4>3. i \in 1 .. F /\ j \in 1 .. F
        BY <3>1
      <4>4. QED
        BY <3>2, <4>2, <4>3, ZenonT(30)
    <3>4. QED
      BY <1>4, <1>5, <2>3, <3>3 DEF c, j, F
  <2>4. QED
    BY <1>3, <1>6, <2>1, <2>2, <2>3
<1>7. \A k \in Cameras, i \in 1 .. F : writing'.burst[k][i] = FrameOf(k, writing.shot, i)
  BY <1>1, <1>2 DEF CopiedInv
<1>8. QED
  <2> SUFFICES ASSUME NEW k \in Cameras, NEW i \in 1 .. F
               PROVE  /\ writing'.burst[k][i] = FrameOf(k, writing'.shot, i)
                      /\ (k - 1) * F + i <= Len(writing'.refs) =>
                           writing'.refs[(k - 1) * F + i].data = FrameOf(k, writing'.shot, i)
      BY DEF CopiedInv
  <2> HIDE DEF new
  <2>1. QED
    BY <1>2, <1>4, <1>6, <1>7

LEMMA CopiedNext ==
  TypeOK /\ PlaceInv /\ ArrivalInv /\ CopiedInv /\ [Next]_vars => CopiedInv'
<1> SUFFICES ASSUME TypeOK, PlaceInv, ArrivalInv, CopiedInv, [Next]_vars PROVE CopiedInv'
    OBVIOUS
<1>1. CASE UNCHANGED writing \/ ~writing'.active
  BY <1>1 DEF CopiedInv
<1>2. CASE WriteFinal
  BY <1>2, AfterWriteFinal DEF CopiedInv
<1>3. QED
  BY <1>1, <1>2, WriterSteps, CopiedBurstTaken, CopiedWriteRaw

\* The publication that is remembered is the burst, whole and in order.
LEMMA BurstPublished ==
  ASSUME TypeOK, PlaceInv, CopiedInv, BurstIsOwn, PublishBurst
  PROVE  BurstIsOwn'
<1> DEFINE F == FramesPerTrigger
           pub == [shot |-> writing.shot, refs |-> writing.refs, final |-> writing.final]
<1>1. writing.active /\ writing.camera > CameraCount
  BY DEF PublishBurst, WritingDone
<1>2. Len(pub.refs) = CameraCount * F /\ CameraCount * F \in Nat
  BY <1>1, PlaceBounds
<1>3. ASSUME NEW k \in Cameras, NEW i \in 1 .. F
      PROVE  pub.refs[(k - 1) * F + i].data = [camera |-> k, shot |-> pub.shot, index |-> i]
  <2>1. k * F <= CameraCount * F /\ k * F \in Nat
    BY ProductOrder, Constants DEF Cameras
  <2>2. (k - 1) * F + F = k * F /\ (k - 1) * F \in Nat
    BY Constants DEF Cameras
  <2>3. (k - 1) * F + i <= Len(writing.refs)
    BY <1>2, <2>1, <2>2, Constants
  <2>4. QED
    BY <1>1, <2>3 DEF CopiedInv, FrameOf
<1>4. RememberPublication(writing.id, pub)
  BY DEF PublishBurst
<1>5. \A id \in DOMAIN publications' :
        \/ id \in DOMAIN publications /\ publications'[id] = publications[id]
        \/ publications'[id] = pub
  BY <1>4, RememberOrigin
<1>6. QED
  <2> HIDE DEF pub
  <2>1. QED
    BY <1>2, <1>3, <1>5 DEF BurstIsOwn, pub

LEMMA BurstNext ==
  TypeOK /\ PlaceInv /\ CopiedInv /\ BurstIsOwn /\ [Next]_vars => BurstIsOwn'
<1> SUFFICES ASSUME TypeOK, PlaceInv, CopiedInv, BurstIsOwn, [Next]_vars PROVE BurstIsOwn'
    OBVIOUS
<1>1. CASE UNCHANGED publications \/ publications' = NoPublications
  BY <1>1 DEF BurstIsOwn, NoPublications
<1>2. UNCHANGED publications \/ publications' = NoPublications \/ PublishBurst
  <2>1. ASSUME NEW c \in Clients,
               \/ Connect(c) \/ Disconnect(c) \/ CaptureRefused(c)
               \/ \E req \in CaptureIds : CaptureInProgress(c, req)
               \/ \E req \in CaptureIds, rec \in RecModes : CaptureSerialFailed(c, req, rec)
               \/ \E req \in CaptureIds, async \in AsyncModes, rec \in RecModes :
                    CaptureStarted(c, req, async, rec)
               \/ SyncReturn(c)
        PROVE  UNCHANGED publications \/ publications' = NoPublications
    BY <2>1 DEF Connect, Disconnect, TeardownSession, CaptureRefused, CaptureInProgress,
                CaptureSerialFailed, CaptureStarted, SyncReturn, SyncFinished, SyncTimedOut,
                pubVars
  <2>2. ASSUME NEW k \in Cameras, Deliver(k) \/ LoseFrame(k) \/ OnCameraFrame(k)
        PROVE  UNCHANGED publications
    BY <2>2 DEF Deliver, LoseFrame, OnCameraFrame, FrameDropped, FrameCollected, BurstTaken,
                pubVars
  <2>3. WriteRaw \/ WriteFinal \/ WriteFails \/ UNCHANGED vars => UNCHANGED publications
    BY DEF WriteRaw, WriteFinal, WriteFails, vars, pubVars
  <2>4. QED
    BY <2>1, <2>2, <2>3 DEF Next, FinishBurst
<1>3. QED
  BY <1>1, <1>2, BurstPublished

\* When frames arrive before the next trigger and the deadline, every publication is the burst
\* of its own capture: all frames of every camera, each once and in order.  Frames that are
\* lost, captures that are refused, fail or are given up and sessions that are torn down never
\* mix two bursts.
THEOREM PublicationIsOwnBurst == PromptCameras => (Spec => []BurstIsOwn)
<1> SUFFICES ASSUME PromptCameras PROVE Spec => []BurstIsOwn
    OBVIOUS
<1>1. Init => CopiedInv /\ BurstIsOwn
  BY DEF Init, NotWriting, NoPublications, CopiedInv, BurstIsOwn
<1>2. TypeOK /\ PlaceInv /\ ArrivalInv /\ CopiedInv /\ [Next]_vars => CopiedInv'
  BY CopiedNext
<1>3. TypeOK /\ PlaceInv /\ CopiedInv /\ BurstIsOwn /\ [Next]_vars => BurstIsOwn'
  BY BurstNext
<1>4. QED
  BY <1>1, <1>2, <1>3, TypeCorrect, PlaceInvariant, ArrivalInvariant, PTL DEF Spec
=============================================================================
