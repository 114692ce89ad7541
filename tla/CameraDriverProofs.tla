------------------------- MODULE CameraDriverProofs -------------------------
(***************************************************************************)
(* What the calls of an adapter return and leave behind.                   *)
(***************************************************************************)
EXTENDS CameraDriver, TLAPS

\* Stopping the camera takes the callbacks away and leaves it open or closed as it was.
LEMMA StopsCamera ==
  ASSUME NEW a \in Adapter, NEW fault \in BOOLEAN, a.backend = "galaxy"
  PROVE  LET s == StopAsyncGrab(a, fault)
         IN /\ s \in Adapter
            /\ s.backend = "galaxy" /\ s.open = a.open /\ s.settings = a.settings
            /\ s.result_cb = NoCallback /\ s.frame_cb = NoCallback
<1> DEFINE attached == a.attached /\ fault
<1>1. attached \in BOOLEAN
  OBVIOUS
<1>2. StopAsyncGrab(a, fault) =
        [a EXCEPT !.attached = attached, !.registered = FALSE, !.result_cb = NoCallback,
                  !.frame_cb = NoCallback, !.grabbing = FALSE]
  BY Zenon DEF StopAsyncGrab
<1> HIDE DEF attached
<1>3. QED
  BY <1>1, <1>2 DEF Adapter, Callbacks, NoCallback

\* A new adapter listens to nobody, and opening it does not change that.
LEMMA NewCamera ==
  ASSUME NEW backend \in {"galaxy", "stub", "null"}
  PROVE  /\ New(backend) \in Adapter
         /\ New(backend).backend = backend /\ ~New(backend).open
         /\ New(backend).settings = [f \in Features |-> Factory]
         /\ New(backend).result_cb = NoCallback /\ New(backend).frame_cb = NoCallback
<1>1. [f \in Features |-> Factory] \in [Features -> Nat]
  BY DEF Factory
<1>2. QED
  BY <1>1 DEF New, Adapter, Callbacks, NoCallback

LEMMA OpensCamera ==
  ASSUME NEW backend \in {"galaxy", "stub", "null"}, NEW fault \in BOOLEAN
  PROVE  LET opened == Open(New(backend), fault)
         IN /\ opened.a \in Adapter /\ opened.a.result_cb = NoCallback
            /\ opened.a.settings = [f \in Features |-> Factory]
<1> DEFINE a == New(backend)
           stopped == StopAsyncGrab(a, FALSE)
           closed == Close(a)
<1>1. /\ a \in Adapter /\ a.backend = backend /\ a.result_cb = NoCallback
      /\ a.settings = [f \in Features |-> Factory]
  BY NewCamera
<1> HIDE DEF a
<1>2. CASE backend = "null"
  <2>1. Open(a, fault).a = [a EXCEPT !.open = TRUE]
    BY <1>1, <1>2 DEF Open, NullOpen, Does
  <2>2. QED
    BY <1>1, <2>1 DEF a, Adapter
<1>3. CASE backend = "stub"
  BY <1>1, <1>3 DEF Open, Stub, Does, a
<1>4. CASE backend = "galaxy"
  <2>1. stopped \in Adapter /\ stopped.result_cb = NoCallback /\ stopped.settings = a.settings
    BY <1>1, <1>4, StopsCamera
  <2> HIDE DEF stopped
  <2>2. closed = [stopped EXCEPT !.open = FALSE, !.source = "off"]
    BY DEF Close, stopped
  <2>3. closed \in Adapter /\ closed.result_cb = NoCallback /\ closed.settings = a.settings
    BY <2>1, <2>2 DEF Adapter
  <2> HIDE DEF closed
  <2>4. Open(a, fault).a \in {closed, [closed EXCEPT !.open = TRUE, !.source = a.mode]}
    BY <1>1, <1>4 DEF Open, Does, closed
  <2>5. a.mode \in {"off", "software", "hardware"}
    BY <1>1 DEF Adapter
  <2>6. [closed EXCEPT !.open = TRUE, !.source = a.mode] \in Adapter
    BY <2>3, <2>5 DEF Adapter
  <2>7. /\ [closed EXCEPT !.open = TRUE, !.source = a.mode].result_cb = NoCallback
        /\ [closed EXCEPT !.open = TRUE, !.source = a.mode].settings = a.settings
    BY <2>3 DEF Adapter
  <2>8. QED
    BY <1>1, <2>3, <2>4, <2>6, <2>7 DEF a
<1>5. QED
  BY <1>2, <1>3, <1>4

\* Registering or unregistering changes nothing but whether the bridge is there and the grab runs.
LEMMA Registers ==
  ASSUME NEW a \in Adapter, NEW fault \in BOOLEAN
  PROVE  LET r == Registration(a, fault)
         IN /\ r \in Adapter
            /\ r.backend = a.backend /\ r.open = a.open /\ r.source = a.source
            /\ r.frame_cb = a.frame_cb /\ r.result_cb = a.result_cb /\ r.settings = a.settings
<1> DEFINE registered == ~fault
           attached == a.attached \/ ~fault
           on == [a EXCEPT !.grabbing = FALSE, !.registered = registered, !.attached = attached]
           off == [a EXCEPT !.grabbing = FALSE, !.registered = FALSE, !.attached = FALSE]
<1>1. registered \in BOOLEAN /\ attached \in BOOLEAN
  OBVIOUS
<1>2. Registration(a, fault) \in {a, on, off}
  BY Zenon DEF Registration
<1> HIDE DEF registered, attached
<1>3. /\ on \in Adapter
      /\ on.backend = a.backend /\ on.open = a.open /\ on.source = a.source
      /\ on.frame_cb = a.frame_cb /\ on.result_cb = a.result_cb /\ on.settings = a.settings
  BY <1>1 DEF Adapter
<1>4. /\ off \in Adapter
      /\ off.backend = a.backend /\ off.open = a.open /\ off.source = a.source
      /\ off.frame_cb = a.frame_cb /\ off.result_cb = a.result_cb /\ off.settings = a.settings
  BY DEF Adapter
<1>5. QED
  BY <1>2, <1>3, <1>4

LEMMA SetsFrameCallback ==
  ASSUME NEW a \in Adapter, NEW cb \in Callbacks, NEW fault \in BOOLEAN, a.backend = "galaxy"
  PROVE  LET r == SetFrameCallback(a, cb, fault)
         IN r \in Adapter /\ r.backend = "galaxy" /\ r.frame_cb = cb
<1> DEFINE told == [a EXCEPT !.frame_cb = cb]
<1>1. told \in Adapter /\ told.backend = "galaxy" /\ told.frame_cb = cb
  BY DEF Adapter
<1>2. SetFrameCallback(a, cb, fault) = Registration(told, fault)
  BY DEF SetFrameCallback
<1> HIDE DEF told
<1>3. QED
  BY <1>1, <1>2, Registers

\* The callback is kept even if it could not be registered.
LEMMA SetsResultCallback ==
  ASSUME NEW a \in Adapter, NEW cb \in Callbacks, NEW fault \in BOOLEAN
  PROVE  LET r == SetResultCallback(a, cb, fault)
         IN /\ r \in Adapter
            /\ r.backend = a.backend /\ r.open = a.open /\ r.source = a.source
            /\ r.settings = a.settings
            /\ a.backend # "stub" => r.result_cb = cb
<1> DEFINE told == [a EXCEPT !.result_cb = cb]
<1>1. /\ told \in Adapter /\ told.result_cb = cb /\ told.settings = a.settings
      /\ told.backend = a.backend /\ told.open = a.open /\ told.source = a.source
  BY DEF Adapter
<1>2. SetResultCallback(a, cb, fault) = IF a.backend = "stub" THEN a ELSE Registration(told, fault)
  BY DEF SetResultCallback
<1> HIDE DEF told
<1>3. QED
  BY <1>1, <1>2, Registers

LEMMA DoesBoth ==
  ASSUME NEW ok \in BOOLEAN, NEW a
  PROVE  Does(ok, a).ok = ok /\ Does(ok, a).a = a
BY DEF Does

\* A vendor's camera that is open and accepts the mode has it set in the device.
LEMMA SetsTrigger ==
  ASSUME NEW a \in Adapter, NEW mode \in {"software", "hardware"}, NEW fault \in BOOLEAN
  PROVE  LET r == SetTriggerMode(a, mode, fault)
         IN /\ r.ok \in BOOLEAN /\ r.a \in Adapter
            /\ r.a.backend = a.backend /\ r.a.open = a.open
            /\ r.a.result_cb = a.result_cb /\ r.a.settings = a.settings
            /\ a.backend = "galaxy" /\ ~fault => r.ok
<1> DEFINE kept == [a EXCEPT !.mode = mode]
           applied == [a EXCEPT !.mode = mode, !.source = mode]
<1>1. /\ kept \in Adapter /\ kept.backend = a.backend /\ kept.open = a.open
      /\ kept.result_cb = a.result_cb /\ kept.settings = a.settings
  BY DEF Adapter
<1>2. /\ applied \in Adapter /\ applied.backend = a.backend /\ applied.open = a.open
      /\ applied.result_cb = a.result_cb /\ applied.settings = a.settings
  BY DEF Adapter
<1>3. a.open \in BOOLEAN /\ a.backend \in {"galaxy", "stub", "null"}
  BY DEF Adapter
<1>4. SetTriggerMode(a, mode, fault) =
        IF a.backend # "galaxy" THEN Simple(a)
        ELSE IF a.open /\ ~fault THEN Does(TRUE, applied) ELSE Does(~a.open, kept)
  BY Zenon DEF SetTriggerMode
<1> HIDE DEF kept, applied
<1>5. Simple(a).ok \in BOOLEAN /\ Simple(a).a = a
  BY <1>3, DoesBoth DEF Simple, Stub, Null
<1> DEFINE r == SetTriggerMode(a, mode, fault)
<1>6. CASE a.backend # "galaxy"
  <2>1. r = Simple(a)
    BY <1>4, <1>6
  <2> HIDE DEF r
  <2>2. r.ok \in BOOLEAN /\ r.a = a
    BY <1>5, <2>1
  <2>3. QED
    BY <1>6, <2>2 DEF r
<1>7. CASE a.backend = "galaxy" /\ a.open /\ ~fault
  <2>1. r = Does(TRUE, applied)
    BY <1>4, <1>7
  <2> HIDE DEF r
  <2>2. r.ok = TRUE /\ r.a = applied
    BY <2>1, DoesBoth
  <2>3. QED
    BY <1>2, <1>7, <2>2 DEF r
<1>8. CASE a.backend = "galaxy" /\ ~(a.open /\ ~fault)
  <2> DEFINE ok == ~a.open
  <2>1. r = Does(ok, kept) /\ ok \in BOOLEAN
    BY <1>4, <1>8
  <2>2. ok => ~a.open
    OBVIOUS
  <2>3. ~ok => a.open /\ fault
    BY <1>8
  <2> HIDE DEF r, ok
  <2>4. r.ok = ok /\ r.a = kept
    BY <2>1, DoesBoth
  <2>5. QED
    BY <1>1, <1>8, <2>1, <2>2, <2>3, <2>4 DEF r
<1>9. QED
  BY <1>6, <1>7, <1>8

\* The device has the mode it accepted.
LEMMA TriggerApplied ==
  ASSUME NEW a \in Adapter, NEW mode \in {"software", "hardware"}, NEW fault \in BOOLEAN,
         a.backend = "galaxy", a.open, SetTriggerMode(a, mode, fault).ok
  PROVE  SetTriggerMode(a, mode, fault).a.source = mode
<1>1. CASE fault
  <2>1. SetTriggerMode(a, mode, fault) = Does(FALSE, [a EXCEPT !.mode = mode])
    BY <1>1 DEF SetTriggerMode
  <2>2. SetTriggerMode(a, mode, fault).ok = FALSE
    BY <2>1, DoesBoth
  <2>3. QED
    BY <2>2
<1>2. CASE ~fault
  <2>1. SetTriggerMode(a, mode, fault).a = [a EXCEPT !.mode = mode, !.source = mode]
    BY <1>2, DoesBoth DEF SetTriggerMode
  <2>2. QED
    BY <2>1 DEF Adapter
<1>3. QED
  BY <1>1, <1>2

\* A stream that was started runs on an open camera; the bridge stays as it was.
LEMMA StartsGrab ==
  ASSUME NEW a \in Adapter, NEW fault \in BOOLEAN
  PROVE  LET r == StartStreamGrab(a, fault)
         IN /\ r.ok \in BOOLEAN /\ r.a \in Adapter
            /\ r.a.backend = a.backend /\ r.a.open = a.open /\ r.a.source = a.source
            /\ r.a.result_cb = a.result_cb /\ r.a.attached = a.attached
            /\ r.a.settings = a.settings
            /\ a.backend = "galaxy" /\ r.ok => a.open /\ r.a.grabbing
<1> DEFINE ok == a.grabbing \/ ~fault
           runs == [a EXCEPT !.grabbing = ok]
<1>1. ok \in BOOLEAN
  OBVIOUS
<1>2. a.open \in BOOLEAN
  BY DEF Adapter
<1>3. StartStreamGrab(a, fault) =
        IF a.backend # "galaxy" THEN Does(TRUE, a) ELSE IF ~a.open THEN Does(FALSE, a) ELSE Does(ok, runs)
  BY Zenon DEF StartStreamGrab
<1> HIDE DEF ok
<1>4. /\ runs \in Adapter /\ runs.backend = a.backend /\ runs.open = a.open
      /\ runs.source = a.source /\ runs.result_cb = a.result_cb /\ runs.attached = a.attached
      /\ runs.grabbing = ok /\ runs.settings = a.settings
  BY <1>1 DEF Adapter
<1> HIDE DEF runs
<1> DEFINE r == StartStreamGrab(a, fault)
<1>5. CASE a.backend # "galaxy"
  <2>1. r = Does(TRUE, a)
    BY <1>3, <1>5
  <2> HIDE DEF r
  <2>2. r.ok = TRUE /\ r.a = a
    BY <2>1, DoesBoth
  <2>3. QED
    BY <1>5, <2>2 DEF r
<1>6. CASE a.backend = "galaxy" /\ ~a.open
  <2>1. r = Does(FALSE, a)
    BY <1>3, <1>6
  <2> HIDE DEF r
  <2>2. r.ok = FALSE /\ r.a = a
    BY <2>1, DoesBoth
  <2>3. QED
    BY <2>2 DEF r
<1>7. CASE a.backend = "galaxy" /\ a.open
  <2>1. r = Does(ok, runs)
    BY <1>3, <1>7
  <2> HIDE DEF r
  <2>2. r.ok = ok /\ r.a = runs
    BY <1>1, <2>1, DoesBoth
  <2>3. QED
    BY <1>1, <1>4, <1>7, <2>2 DEF r
<1>8. QED
  BY <1>2, <1>5, <1>6, <1>7

\* A camera that cannot start its stream has none, and nothing registered on it.
LEMMA StartsAsyncGrab ==
  ASSUME NEW a \in Adapter, NEW fault, a.backend = "galaxy", a.frame_cb # NoCallback
  PROVE  LET r == StartAsyncGrab(a, fault)
         IN /\ r.ok \in BOOLEAN /\ r.a \in Adapter /\ r.a.backend = "galaxy"
            /\ fault = "none" /\ ~r.ok => ~r.a.open
<1> DEFINE off == [a EXCEPT !.grabbing = FALSE, !.registered = FALSE, !.attached = FALSE]
           runs == [off EXCEPT !.registered = TRUE, !.attached = TRUE, !.grabbing = TRUE]
<1>0. a.result_cb # NoCallback \/ a.frame_cb # NoCallback
  OBVIOUS
<1>1. off \in Adapter /\ off.backend = "galaxy"
  BY DEF Adapter
<1>2. StartAsyncGrab(a, fault) =
        IF ~a.open THEN Does(FALSE, a)
        ELSE IF fault \in {"register", "grab"} THEN Does(FALSE, off) ELSE Does(TRUE, runs)
  BY <1>0, Zenon DEF StartAsyncGrab
<1> HIDE DEF off
<1>3. runs \in Adapter /\ runs.backend = "galaxy"
  BY <1>1 DEF Adapter
<1> HIDE DEF runs
<1> DEFINE r == StartAsyncGrab(a, fault)
<1>4. CASE ~a.open
  <2>1. r = Does(FALSE, a)
    BY <1>2, <1>4
  <2> HIDE DEF r
  <2>2. r.ok = FALSE /\ r.a = a
    BY <2>1, DoesBoth
  <2>3. QED
    BY <1>4, <2>2 DEF r
<1>5. CASE a.open /\ fault \in {"register", "grab"}
  <2>1. r = Does(FALSE, off)
    BY <1>2, <1>5
  <2> HIDE DEF r
  <2>2. r.ok = FALSE /\ r.a = off
    BY <2>1, DoesBoth
  <2>3. QED
    BY <1>1, <1>5, <2>2 DEF r
<1>6. CASE a.open /\ fault \notin {"register", "grab"}
  <2>1. r = Does(TRUE, runs)
    BY <1>2, <1>6
  <2> HIDE DEF r
  <2>2. r.ok = TRUE /\ r.a = runs
    BY <2>1, DoesBoth
  <2>3. QED
    BY <1>3, <2>2 DEF r
<1>7. QED
  BY <1>4, <1>5, <1>6
=============================================================================
