---------------------------- MODULE HubHostProofs ---------------------------
(***************************************************************************)
(* Proofs about HubHost, for every configuration file, build, request and  *)
(* number of failing calls.                                                *)
(***************************************************************************)
EXTENDS HubHost, CameraDriverProofs, SequenceTheorems, WellFoundedInduction

-----------------------------------------------------------------------------
\* The inductive invariant.

Starting == {"config", "cameras", "ring", "trigger"}
Started == {"listen", "serving", "exited"}

\* A hub that starts holds no session yet; one that has started has decided, and keeps the serial
\* port unless its startup failed.
Phases ==
  /\ pc \in Starting \cup Started
  /\ pc \in Starting => runtime = "starting" /\ ~monitor /\ ~session
  /\ pc \in Started => runtime \in {"ready", "no_session"} \cup FailedCodes
  /\ pc \in {"ring", "trigger"} \/ runtime \in {"ready", "no_session"} => handle # "none"

CamerasOf(D) == [device : D, a : Adapter]
CamerasTyped == \E D : cameras \in Seq(CamerasOf(D))

\* Without a session no camera calls the hub; with one, it is of all the cameras.
SessionCallbacks ==
  /\ ~session => \A i \in DOMAIN cameras :
                   cameras[i].a.backend = "galaxy" => cameras[i].a.result_cb = NoCallback
  /\ session => ordered = [i \in DOMAIN cameras |-> i]

\* A hub that is not ready has nothing to fire with.
NothingToFire == runtime # "ready" => orchestrator = "none"

HostInv ==
  /\ Phases
  /\ CamerasTyped
  /\ SessionCallbacks
  /\ NothingToFire
  /\ ReadyCamerasDeliver
  /\ FailedStartHoldsNothing

LEMMA CodesDiffer == FailedCodes \cap {"starting", "ready", "no_session", "serial_lost"} = {}
BY DEF FailedCodes

-----------------------------------------------------------------------------
\* Cameras.

LEMMA CameraTyped ==
  ASSUME CamerasTyped, NEW i \in DOMAIN cameras
  PROVE  cameras[i].a \in Adapter
<1>1. PICK D : cameras \in Seq(CamerasOf(D))
  BY DEF CamerasTyped
<1>2. cameras[i] \in CamerasOf(D)
  BY <1>1, LenProperties, ElementOfSeq
<1>3. QED
  BY <1>2 DEF CamerasOf

\* No camera is exchanged for another.
DevicesStay == \A i \in DOMAIN cameras : cameras'[i].device = cameras[i].device

\* Cameras whose adapters are replaced by adapters are cameras.
LEMMA CamerasReplaced ==
  ASSUME CamerasTyped, NEW changed \in [DOMAIN cameras -> Adapter],
         cameras' = [i \in DOMAIN cameras |-> [cameras[i] EXCEPT !.a = changed[i]]]
  PROVE  /\ CamerasTyped'
         /\ DOMAIN cameras' = DOMAIN cameras /\ Len(cameras') = Len(cameras)
         /\ \A i \in DOMAIN cameras : cameras'[i].a = changed[i]
         /\ DevicesStay
<1>1. PICK D : cameras \in Seq(CamerasOf(D))
  BY DEF CamerasTyped
<1>2. DOMAIN cameras = 1 .. Len(cameras) /\ Len(cameras) \in Nat
  BY <1>1, LenProperties
<1>3. \A i \in DOMAIN cameras : cameras[i] \in CamerasOf(D)
  BY <1>1, <1>2, ElementOfSeq
<1>4. \A i \in DOMAIN cameras :
        /\ [cameras[i] EXCEPT !.a = changed[i]] \in CamerasOf(D)
        /\ [cameras[i] EXCEPT !.a = changed[i]].a = changed[i]
        /\ [cameras[i] EXCEPT !.a = changed[i]].device = cameras[i].device
  BY <1>3 DEF CamerasOf
<1>5. cameras' \in [1 .. Len(cameras) -> CamerasOf(D)]
  BY <1>2, <1>4
<1>6. cameras' \in Seq(CamerasOf(D))
  BY <1>2, <1>5, SeqDef
<1>7. DOMAIN cameras' = DOMAIN cameras
  OBVIOUS
<1>8. Len(cameras') = Len(cameras)
  BY <1>2, <1>6, <1>7, LenProperties
<1>9. QED
  BY <1>4, <1>6, <1>7, <1>8 DEF CamerasTyped, DevicesStay

\* A vendor's camera that was prepared runs in hardware trigger mode and holds the hub's callback.
LEMMA PreparesOne ==
  ASSUME CamerasTyped, NEW i \in DOMAIN cameras, NEW fault
  PROVE  LET r == PrepareOne(i, fault)
         IN /\ r.ok \in BOOLEAN /\ r.a \in Adapter
            /\ r.a.backend = cameras[i].a.backend /\ r.a.settings = cameras[i].a.settings
            /\ r.ok /\ r.a.backend = "galaxy" =>
                 r.a.open /\ r.a.grabbing /\ r.a.source = "hardware" /\ r.a.result_cb = "hub"
<1> DEFINE a == cameras[i].a
           kept == Hits(fault, i, "unregister")
           cleared == SetResultCallback(a, NoCallback, kept)
           refused == Hits(fault, i, "trigger")
           trigger == SetTriggerMode(cleared, "hardware", refused)
           lost == Hits(fault, i, "register")
           called == SetResultCallback(trigger.a, "hub", lost)
           failed == Hits(fault, i, "grab")
           grab == StartStreamGrab(called, failed)
           r == PrepareOne(i, fault)
<1>1. a \in Adapter
  BY CameraTyped
<1>2. r = IF trigger.ok THEN grab ELSE trigger
  BY DEF PrepareOne
<1> HIDE DEF r
<1>3. kept \in BOOLEAN /\ refused \in BOOLEAN /\ lost \in BOOLEAN /\ failed \in BOOLEAN
  BY DEF Hits
<1> HIDE DEF a, kept, refused, lost, failed
<1>4. NoCallback \in Callbacks /\ "hub" \in Callbacks
  BY DEF Callbacks
<1>5. cleared \in Adapter /\ cleared.backend = a.backend /\ cleared.settings = a.settings
  BY <1>1, <1>3, <1>4, SetsResultCallback
<1> HIDE DEF cleared
<1>6. /\ trigger.ok \in BOOLEAN /\ trigger.a \in Adapter
      /\ trigger.a.backend = a.backend /\ trigger.a.open = cleared.open
      /\ trigger.a.settings = a.settings
      /\ a.backend = "galaxy" /\ cleared.open /\ trigger.ok => trigger.a.source = "hardware"
  <2>1. /\ trigger.ok \in BOOLEAN /\ trigger.a \in Adapter
        /\ trigger.a.backend = cleared.backend /\ trigger.a.open = cleared.open
        /\ trigger.a.settings = cleared.settings
        /\ cleared.backend = "galaxy" /\ cleared.open /\ trigger.ok =>
             trigger.a.source = "hardware"
    <3>1. "hardware" \in {"software", "hardware"}
      OBVIOUS
    <3>2. trigger.ok \in BOOLEAN
      BY <1>3, <1>5, <3>1, SetsTrigger
    <3>3. trigger.a \in Adapter
      BY <1>3, <1>5, <3>1, SetsTrigger
    <3>4. /\ trigger.a.backend = cleared.backend /\ trigger.a.open = cleared.open
          /\ trigger.a.settings = cleared.settings
      BY <1>3, <1>5, <3>1, SetsTrigger
    <3>5. ASSUME cleared.backend = "galaxy", cleared.open, trigger.ok
          PROVE  trigger.a.source = "hardware"
      BY <1>3, <1>5, <3>1, <3>5, TriggerApplied
    <3>6. QED
      BY <3>2, <3>3, <3>4, <3>5
  <2> HIDE DEF trigger
  <2>2. QED
    BY <1>5, <2>1
<1> HIDE DEF trigger
<1>7. /\ called \in Adapter
      /\ called.backend = a.backend /\ called.open = cleared.open /\ called.source = trigger.a.source
      /\ called.settings = a.settings
      /\ a.backend = "galaxy" => called.result_cb = "hub"
  <2>1. trigger.a \in Adapter
    BY <1>6
  <2>2. /\ called \in Adapter
        /\ called.backend = trigger.a.backend /\ called.open = trigger.a.open
        /\ called.source = trigger.a.source /\ called.settings = trigger.a.settings
        /\ trigger.a.backend = "galaxy" => called.result_cb = "hub"
    BY <1>3, <1>4, <2>1, SetsResultCallback, ZenonT(30)
  <2> HIDE DEF called
  <2>3. QED
    BY <1>6, <2>2
<1> HIDE DEF called
<1>8. /\ grab.ok \in BOOLEAN /\ grab.a \in Adapter
      /\ grab.a.backend = a.backend /\ grab.a.open = cleared.open /\ grab.a.source = trigger.a.source
      /\ grab.a.settings = a.settings
      /\ a.backend = "galaxy" => grab.a.result_cb = "hub"
      /\ a.backend = "galaxy" /\ grab.ok => cleared.open /\ grab.a.grabbing
  BY <1>3, <1>7, StartsGrab
<1> HIDE DEF grab
<1>9. CASE trigger.ok
  BY <1>2, <1>6, <1>8, <1>9 DEF r, a
<1>10. CASE ~trigger.ok
  BY <1>2, <1>6, <1>10 DEF r, a
<1>11. QED
  BY <1>6, <1>9, <1>10

\* No call but SetParameters changes what a camera is set to.
SettingsStay ==
  \A i \in DOMAIN cameras' :
    /\ i \in DOMAIN cameras
    /\ cameras'[i].a.backend = cameras[i].a.backend
    /\ cameras'[i].a.settings = cameras[i].a.settings

\* What Restore leaves behind.
LEMMA RestoresSession ==
  ASSUME CamerasTyped, NEW fault, Restore(fault)
  PROVE  /\ CamerasTyped'
         /\ DOMAIN cameras' = DOMAIN cameras /\ Len(cameras') = Len(cameras)
         /\ session' /\ ordered' = [i \in DOMAIN cameras' |-> i]
         /\ SettingsStay /\ DevicesStay
         /\ Refusing(fault) # {} => orchestrator' = "none"
         /\ Refusing(fault) = {} =>
              /\ orchestrator' = IF Len(cameras') = 1 THEN "single" ELSE "multi"
              /\ \A i \in DOMAIN cameras' :
                   cameras'[i].a.backend = "galaxy" /\ i \notin swallowed' =>
                     Delivers(cameras'[i].a, "hub")
<1> DEFINE skipped(i) == \E j \in Refusing(fault) : j < i
           changed == [i \in DOMAIN cameras |->
                         IF skipped(i) THEN cameras[i].a ELSE PrepareOne(i, fault).a]
<1>1. PICK D : cameras \in Seq(CamerasOf(D))
  BY DEF CamerasTyped
<1>2. \A i \in DOMAIN cameras : cameras[i] \in CamerasOf(D)
  BY <1>1, LenProperties, ElementOfSeq
<1>3. \A i \in DOMAIN cameras : cameras[i] = [cameras[i] EXCEPT !.a = cameras[i].a]
  BY <1>2 DEF CamerasOf
<1>4. changed \in [DOMAIN cameras -> Adapter]
  BY CameraTyped, PreparesOne
<1>5. cameras' = [i \in DOMAIN cameras |-> [cameras[i] EXCEPT !.a = changed[i]]]
  <2>1. cameras' = [i \in DOMAIN cameras |->
                      IF skipped(i) THEN cameras[i] ELSE [cameras[i] EXCEPT !.a = PrepareOne(i, fault).a]]
    BY DEF Restore, Prepared
  <2>2. QED
    BY <1>3, <2>1
<1> HIDE DEF changed
<1>6. /\ CamerasTyped'
      /\ DOMAIN cameras' = DOMAIN cameras /\ Len(cameras') = Len(cameras)
      /\ \A i \in DOMAIN cameras : cameras'[i].a = changed[i]
      /\ DevicesStay
  BY <1>4, <1>5, CamerasReplaced
<1>7. ASSUME Refusing(fault) = {}, NEW i \in DOMAIN cameras,
             cameras'[i].a.backend = "galaxy", i \notin swallowed'
      PROVE  Delivers(cameras'[i].a, "hub")
  <2>1. PrepareOne(i, fault).ok
    BY <1>7 DEF Refusing
  <2>2. cameras'[i].a = PrepareOne(i, fault).a
    BY <1>6, <1>7 DEF changed
  <2>3. /\ cameras'[i].a.open /\ cameras'[i].a.grabbing
        /\ cameras'[i].a.source = "hardware" /\ cameras'[i].a.result_cb = "hub"
    BY <1>7, <2>1, <2>2, PreparesOne
  <2>4. Prepared(fault) = cameras' /\ swallowed' = Swallowed(fault)
    BY DEF Restore
  <2>5. cameras'[i].a.attached
    BY <1>7, <2>3, <2>4 DEF Swallowed
  <2>6. QED
    BY <1>7, <2>3, <2>5 DEF Delivers, Shoots
<1>8. session' /\ ordered' = [i \in DOMAIN cameras |-> i] /\ orchestrator' = Orchestrator(fault)
  BY DEF Restore
<1>9. \A i \in DOMAIN cameras :
        changed[i].backend = cameras[i].a.backend /\ changed[i].settings = cameras[i].a.settings
  BY PreparesOne DEF changed
<1>10. SettingsStay
  BY <1>6, <1>9 DEF SettingsStay
<1>11. QED
  BY <1>6, <1>7, <1>8, <1>10 DEF Orchestrator

-----------------------------------------------------------------------------
\* The invariant holds initially, and every step keeps it.

LEMMA HostInit == Init => HostInv
<1> SUFFICES ASSUME Init PROVE HostInv
    OBVIOUS
<1>1. cameras \in Seq(CamerasOf({})) /\ DOMAIN cameras = {}
  BY EmptySeq, LenProperties DEF Init
<1>2. CamerasTyped
  BY <1>1 DEF CamerasTyped
<1>3. runtime \notin FailedCodes /\ runtime # "ready"
  BY CodesDiffer DEF Init
<1>4. QED
  BY <1>1, <1>2, <1>3
     DEF Init, HostInv, Phases, Starting, Started, SessionCallbacks, NothingToFire,
         ReadyCamerasDeliver, FailedStartHoldsNothing

\* A failing startup rolls everything back.
LEMMA FailsKeeps ==
  ASSUME HostInv, pc \in Starting, NEW code \in FailedCodes, Fails(code) PROVE HostInv'
<1>1. /\ runtime' = code /\ pc' = "listen" /\ cameras' = <<>> /\ ~session' /\ ordered' = <<>>
      /\ orchestrator' = "none" /\ ~ring' /\ handle' = "none" /\ com_main' = 0
      /\ monitor' = monitor
  BY DEF Fails, Rollback, CloseAllDevices
<1>2. cameras' \in Seq(CamerasOf({})) /\ DOMAIN cameras' = {}
  BY <1>1, EmptySeq, LenProperties
<1>3. CamerasTyped'
  BY <1>2 DEF CamerasTyped
<1>4. code \notin {"starting", "ready", "no_session"}
  BY CodesDiffer
<1>5. ~monitor
  BY DEF HostInv, Phases
<1>6. QED
  BY <1>1, <1>2, <1>3, <1>4, <1>5
     DEF HostInv, Phases, Starting, Started, SessionCallbacks, NothingToFire, ReadyCamerasDeliver,
         FailedStartHoldsNothing

\* A step of a startup that goes on and leaves the cameras alone.
LEMMA StartupGoesOn ==
  ASSUME HostInv, pc \in Starting, pc' \in Starting, pc' \in {"ring", "trigger"} => handle' # "none",
         UNCHANGED <<cameras, runtime, ordered, session, orchestrator, monitor>>
  PROVE  HostInv'
<1>1. runtime = "starting" /\ ~session /\ ~monitor
  BY DEF HostInv, Phases
<1>2. runtime \notin FailedCodes
  BY <1>1, CodesDiffer
<1>3. Phases'
  BY <1>1 DEF Phases, Starting, Started
<1>4. CamerasTyped'
  BY DEF HostInv, CamerasTyped
<1>5. SessionCallbacks' /\ NothingToFire'
  BY DEF HostInv, SessionCallbacks, NothingToFire
<1>6. QED
  BY <1>1, <1>2, <1>3, <1>4, <1>5 DEF HostInv, ReadyCamerasDeliver, FailedStartHoldsNothing

LEMMA LoadConfigKeeps == HostInv /\ LoadConfig => HostInv'
<1> SUFFICES ASSUME HostInv, LoadConfig PROVE HostInv'
    OBVIOUS
<1>1. pc \in Starting
  BY DEF LoadConfig, Starting
<1>2. CASE Fails("config_not_found") \/ Fails("config_invalid")
  BY <1>1, <1>2, FailsKeeps DEF FailedCodes
<1>3. CASE /\ pc' = "cameras"
           /\ UNCHANGED <<cameras, runtime, ordered, session, orchestrator, monitor>>
  BY <1>1, <1>3, StartupGoesOn DEF Starting
<1>4. QED
  BY <1>2, <1>3 DEF LoadConfig

LEMMA OpenCameraKeeps == ASSUME HostInv, build \in Builds, OpenCamera PROVE HostInv'
<1>1. pc \in Starting /\ pc = "cameras"
  BY DEF OpenCamera, Starting
<1>2. CASE Fails("camera_init_failed")
  BY <1>1, <1>2, FailsKeeps DEF FailedCodes
<1>3. CASE ~Fails("camera_init_failed")
  <2> DEFINE c == conf.cameras[Len(cameras) + 1]
             known == \E i \in DOMAIN cameras : cameras[i].device = c.device
             opened == Open(New(Prototype(c.backend)), known)
             new == [device |-> c.device, a |-> opened.a]
  <2>1. Prototype(c.backend) \in {"galaxy", "stub", "null", "none"}
    BY HubHostAssumption DEF Prototype
  <2>2. known \in BOOLEAN
    OBVIOUS
  <2>3. /\ Prototype(c.backend) # "none" /\ cameras' = Append(cameras, new)
        /\ UNCHANGED <<pc, monitor, runtime, ordered, session, orchestrator, handle>>
    BY <1>3 DEF OpenCamera, startup
  <2> HIDE DEF known
  <2>4. opened.a \in Adapter /\ opened.a.result_cb = NoCallback
    BY <2>1, <2>2, <2>3, OpensCamera
  <2> HIDE DEF opened
  <2>5. PICK D : cameras \in Seq(CamerasOf(D))
    BY DEF HostInv, CamerasTyped
  <2> DEFINE S == CamerasOf(D \cup {c.device})
  <2>6. CamerasOf(D) \subseteq S /\ new \in S /\ new.a = opened.a
    BY <2>4 DEF CamerasOf
  <2>7. \E E : S = CamerasOf(E)
    OBVIOUS
  <2> HIDE DEF new, S
  <2>8. cameras \in Seq(S)
    BY <2>5, <2>6, SeqMonotonic
  <2>9. /\ cameras' \in Seq(S)
        /\ Len(cameras') = Len(cameras) + 1
        /\ \A i \in 1 .. Len(cameras) : cameras'[i] = cameras[i]
        /\ cameras'[Len(cameras) + 1] = new
    BY <2>3, <2>6, <2>8, AppendProperties
  <2>10. /\ DOMAIN cameras = 1 .. Len(cameras) /\ DOMAIN cameras' = 1 .. Len(cameras')
        /\ Len(cameras) \in Nat
    BY <2>8, <2>9, LenProperties
  <2>11. runtime = "starting" /\ ~session /\ runtime \notin FailedCodes
    BY <1>1, CodesDiffer DEF HostInv, Phases
  <2>12. SessionCallbacks'
    <3>1. ASSUME NEW i \in DOMAIN cameras', cameras'[i].a.backend = "galaxy"
          PROVE  cameras'[i].a.result_cb = NoCallback
      <4>1. CASE i = Len(cameras) + 1
        BY <2>4, <2>9, <2>6, <4>1
      <4>2. CASE i # Len(cameras) + 1
        <5>1. i \in DOMAIN cameras /\ cameras'[i] = cameras[i]
          BY <2>9, <2>10, <4>2
        <5>2. QED
          BY <2>11, <3>1, <5>1 DEF HostInv, SessionCallbacks
      <4>3. QED
        BY <4>1, <4>2
    <3>2. QED
      BY <2>3, <2>11, <3>1 DEF SessionCallbacks
  <2>13. CamerasTyped'
    BY <2>9, <2>7 DEF CamerasTyped
  <2>14. QED
    BY <1>1, <2>3, <2>11, <2>12, <2>13
       DEF HostInv, Phases, NothingToFire, ReadyCamerasDeliver, FailedStartHoldsNothing
<1>4. QED
  BY <1>2, <1>3

LEMMA OpenSerialKeeps == HostInv /\ OpenSerial => HostInv'
<1> SUFFICES ASSUME HostInv, OpenSerial PROVE HostInv'
    OBVIOUS
<1>1. pc \in Starting
  BY DEF OpenSerial, Starting
<1>2. CASE Fails("serial_init_failed")
  BY <1>1, <1>2, FailsKeeps DEF FailedCodes
<1>3. CASE /\ pc' = "ring" /\ handle' = "good"
           /\ UNCHANGED <<cameras, runtime, ordered, session, orchestrator, monitor>>
  BY <1>1, <1>3, StartupGoesOn DEF Starting
<1>4. QED
  BY <1>2, <1>3 DEF OpenSerial

LEMMA CreateRingKeeps == HostInv /\ CreateRing => HostInv'
<1> SUFFICES ASSUME HostInv, CreateRing PROVE HostInv'
    OBVIOUS
<1>1. pc \in Starting /\ pc = "ring"
  BY DEF CreateRing, Starting
<1>2. CASE Fails("ring_init_failed")
  BY <1>1, <1>2, FailsKeeps DEF FailedCodes
<1>3. CASE /\ pc' = "trigger"
           /\ UNCHANGED <<cameras, runtime, ordered, session, orchestrator, monitor, handle>>
  <2>1. handle # "none"
    BY <1>1 DEF HostInv, Phases
  <2>2. QED
    BY <1>1, <1>3, <2>1, StartupGoesOn DEF Starting
<1>4. QED
  BY <1>2, <1>3 DEF CreateRing

\* Restoring the session makes the hub ready, or leaves it closed.
LEMMA RestoreKeeps ==
  ASSUME HostInv, NEW fault, Restore(fault), handle' # "none",
         \/ Refusing(fault) = {} /\ runtime' = "ready"
         \/ Refusing(fault) # {} /\ runtime' = "no_session",
         pc' \in Started
  PROVE  HostInv'
<1>1. /\ CamerasTyped' /\ session' /\ ordered' = [i \in DOMAIN cameras' |-> i]
      /\ Refusing(fault) # {} => orchestrator' = "none"
      /\ Refusing(fault) = {} =>
           /\ orchestrator' = IF Len(cameras') = 1 THEN "single" ELSE "multi"
           /\ \A i \in DOMAIN cameras' :
                cameras'[i].a.backend = "galaxy" /\ i \notin swallowed' =>
                  Delivers(cameras'[i].a, "hub")
  BY RestoresSession DEF HostInv
<1>2. runtime' \in {"ready", "no_session"} /\ runtime' \notin FailedCodes
  BY CodesDiffer
<1>3. Phases'
  BY <1>2 DEF Phases, Starting, Started
<1>4. ReadyCamerasDeliver' /\ NothingToFire'
  BY <1>1 DEF ReadyCamerasDeliver, NothingToFire
<1>5. QED
  BY <1>1, <1>2, <1>3, <1>4 DEF HostInv, SessionCallbacks, FailedStartHoldsNothing

LEMMA StartTriggerKeeps ==
  ASSUME HostInv, NEW fault, StartTrigger(fault) PROVE HostInv'
<1>1. pc \in Starting /\ pc = "trigger" /\ handle # "none"
  BY DEF HostInv, Phases, StartTrigger, Starting
<1>2. CASE Fails("orchestrator_failed")
  BY <1>1, <1>2, FailsKeeps DEF FailedCodes
<1>3. CASE /\ Refusing(fault) = {} /\ Restore(fault)
           /\ runtime' = "ready" /\ pc' = "listen" /\ handle' = handle
  BY <1>1, <1>3, RestoreKeeps DEF Started
<1>4. QED
  BY <1>2, <1>3 DEF StartTrigger

\* A step of a hub that has started and leaves its cameras, session and captures alone.
LEMMA StartedGoesOn ==
  ASSUME HostInv, pc \in Started, pc' \in Started,
         monitor' => monitor \/ com_main # 0,
         UNCHANGED <<cameras, runtime, ordered, session, orchestrator, handle, ring, com_main,
                     swallowed>>
  PROVE  HostInv'
<1>1. Phases' /\ CamerasTyped' /\ SessionCallbacks' /\ NothingToFire'
  BY DEF HostInv, Phases, Starting, Started, CamerasTyped, SessionCallbacks, NothingToFire
<1>2. ReadyCamerasDeliver' /\ FailedStartHoldsNothing'
  BY DEF HostInv, ReadyCamerasDeliver, FailedStartHoldsNothing
<1>3. QED
  BY <1>1, <1>2 DEF HostInv

LEMMA ListenKeeps == HostInv /\ Listen => HostInv'
<1> SUFFICES ASSUME HostInv, Listen PROVE HostInv'
    OBVIOUS
<1>1. pc \in Started /\ pc' \in Started
  BY DEF Listen, Started
<1>2. monitor' => monitor \/ com_main # 0
  BY DEF Listen
<1>3. UNCHANGED <<cameras, runtime, ordered, session, orchestrator, handle, ring, com_main, swallowed>>
  BY DEF Listen
<1>4. QED
  BY <1>1, <1>2, <1>3, StartedGoesOn

\* A hub that serves has its port, or gave up its port's number: it never has to recover it.
LEMMA NothingToRecover ==
  ASSUME HostInv, pc = "serving"
  PROVE  RecoveredRuntime = runtime /\ RecoveredHandle = handle
<1>1. ~Recovering
  BY DEF HostInv, Phases, Started, FailedStartHoldsNothing, Recovering, IsOpen
<1>2. QED
  BY <1>1 DEF RecoveredRuntime, RecoveredHandle

LEMMA ServingGoesOn ==
  ASSUME HostInv, pc = "serving", Recover, UNCHANGED <<pc, startup>>,
         UNCHANGED <<cameras, ordered, session, orchestrator, swallowed>>
  PROVE  HostInv'
BY NothingToRecover, StartedGoesOn DEF Recover, startup, Started

LEMMA PlugsKeep == HostInv /\ (Unplug \/ PlugIn) => HostInv'
<1> SUFFICES ASSUME HostInv, Unplug \/ PlugIn PROVE HostInv'
    OBVIOUS
<1>1. /\ handle' = "none" <=> handle = "none"
      /\ UNCHANGED <<pc, cameras, runtime, ordered, session, orchestrator, ring, com_main, monitor,
                     swallowed>>
  BY DEF Unplug, PlugIn, startup
<1>2. Phases' /\ CamerasTyped' /\ SessionCallbacks' /\ NothingToFire'
  BY <1>1 DEF HostInv, Phases, Starting, Started, CamerasTyped, SessionCallbacks, NothingToFire
<1>3. ReadyCamerasDeliver' /\ FailedStartHoldsNothing'
  BY <1>1 DEF HostInv, ReadyCamerasDeliver, FailedStartHoldsNothing
<1>4. QED
  BY <1>2, <1>3 DEF HostInv

LEMMA ConnectKeeps == ASSUME HostInv, NEW fault, Connect(fault) PROVE HostInv'
<1>1. pc = "serving" /\ pc' = "serving" /\ RecoveredRuntime = runtime /\ RecoveredHandle = handle
  BY NothingToRecover DEF Connect
<1>2. handle' = handle /\ UNCHANGED startup
  BY <1>1 DEF Connect
<1>3. CASE /\ runtime = "no_session" /\ Restore(fault)
           /\ \/ Refusing(fault) # {} /\ runtime' = "no_session"
              \/ Refusing(fault) = {} /\ runtime' = "ready"
  <2>1. handle' # "none"
    BY <1>2, <1>3 DEF HostInv, Phases
  <2>2. QED
    BY <1>1, <1>3, <2>1, RestoreKeeps DEF Started
<1>4. CASE /\ runtime # "no_session" /\ runtime' = runtime
           /\ UNCHANGED <<cameras, ordered, session, orchestrator, swallowed>>
  BY <1>1, <1>2, <1>4, StartedGoesOn DEF startup, Started
<1>5. QED
  BY <1>1, <1>3, <1>4 DEF Connect

\* Disconnect takes the hub's callback from every camera and leaves the rest of it alone.
LEMMA DisconnectClears ==
  ASSUME HostInv, NEW fault, Disconnect(fault)
  PROVE  /\ CamerasTyped' /\ SettingsStay
         /\ DOMAIN cameras' = DOMAIN cameras /\ DevicesStay
         /\ \A i \in DOMAIN cameras' :
              cameras'[i].a.backend = "galaxy" => cameras'[i].a.result_cb = NoCallback
<1> DEFINE changed ==
             [i \in DOMAIN cameras |->
                SetResultCallback(cameras[i].a, NoCallback, Hits(fault, i, "unregister"))]
<1>1. ordered = [i \in DOMAIN cameras |-> i]
  BY DEF Disconnect, HostInv, SessionCallbacks
<1>2. \A i \in DOMAIN cameras : i \in Range(ordered)
  BY <1>1 DEF Range
<1>3. cameras' = [i \in DOMAIN cameras |-> [cameras[i] EXCEPT !.a = changed[i]]]
  <2>1. \A i \in DOMAIN cameras :
          [cameras[i] EXCEPT !.a = SetResultCallback(@, NoCallback, Hits(fault, i, "unregister"))]
            = [cameras[i] EXCEPT !.a = changed[i]]
    OBVIOUS
  <2>2. QED
    BY <1>2, <2>1 DEF Disconnect
<1>4. \A i \in DOMAIN cameras :
        /\ changed[i] \in Adapter /\ changed[i].backend = cameras[i].a.backend
        /\ changed[i].settings = cameras[i].a.settings
        /\ changed[i].backend = "galaxy" => changed[i].result_cb = NoCallback
  <2>1. ASSUME NEW i \in DOMAIN cameras
        PROVE  /\ changed[i] \in Adapter /\ changed[i].backend = cameras[i].a.backend
               /\ changed[i].settings = cameras[i].a.settings
               /\ changed[i].backend = "galaxy" => changed[i].result_cb = NoCallback
    <3> DEFINE lost == Hits(fault, i, "unregister")
               a == cameras[i].a
    <3>1. lost \in BOOLEAN
      BY DEF Hits
    <3>2. a \in Adapter
      BY CameraTyped DEF HostInv
    <3>3. changed[i] = SetResultCallback(a, NoCallback, lost)
      OBVIOUS
    <3>4. NoCallback \in Callbacks
      BY DEF Callbacks
    <3> HIDE DEF lost, a, changed
    <3>5. QED
      BY <3>1, <3>2, <3>3, <3>4, SetsResultCallback DEF a
  <2>2. QED
    BY <2>1
<1>5. changed \in [DOMAIN cameras -> Adapter]
  BY <1>4
<1> HIDE DEF changed
<1>6. /\ CamerasTyped' /\ DOMAIN cameras' = DOMAIN cameras
      /\ \A i \in DOMAIN cameras : cameras'[i].a = changed[i]
      /\ DevicesStay
  BY <1>3, <1>5, CamerasReplaced DEF HostInv
<1>7. QED
  BY <1>4, <1>6 DEF SettingsStay

LEMMA DisconnectKeeps == ASSUME HostInv, NEW fault, Disconnect(fault) PROVE HostInv'
<1>1. /\ pc = "serving" /\ pc' = "serving" /\ session
      /\ ~session' /\ orchestrator' = "none" /\ runtime' = "no_session"
      /\ UNCHANGED <<handle, com_main, ring, monitor>>
  BY DEF Disconnect, startup
<1>2. CamerasTyped' /\ SessionCallbacks'
  BY <1>1, DisconnectClears DEF SessionCallbacks
<1>3. Phases'
  <2>1. handle # "none"
    BY <1>1 DEF HostInv, Phases, Started, FailedStartHoldsNothing
  <2>2. QED
    BY <1>1, <2>1 DEF HostInv, Phases, Starting, Started
<1>4. QED
  BY <1>1, <1>2, <1>3, CodesDiffer
     DEF HostInv, NothingToFire, ReadyCamerasDeliver, FailedStartHoldsNothing

LEMMA PassingCallsKeep ==
  ASSUME HostInv, \/ MonitorTick \/ Refused \/ Declined \/ \E fault : GetParameters(fault)
  PROVE  HostInv'
<1>1. /\ pc = "serving" /\ Recover /\ UNCHANGED <<pc, startup>>
      /\ UNCHANGED <<cameras, ordered, session, orchestrator, swallowed>>
  BY DEF MonitorTick, Refused, Declined, GetParameters, Recover
<1>2. QED
  BY <1>1, ServingGoesOn

-----------------------------------------------------------------------------
\* SetParameters.

\* The least and the greatest of some numbers.
LEMMA Least ==
  ASSUME NEW S, S \subseteq Nat, S # {}
  PROVE  Min(S) \in S /\ \A x \in S : Min(S) <= x
<1> DEFINE R == OpToRel(<, Nat)
<1>1. IsWellFoundedOn(R, Nat)
  BY NatLessThanWellFounded
<1>2. \A x, y \in Nat : y < x => <<y, x>> \in R
  BY DEF OpToRel
<1> HIDE DEF R
<1>3. PICK x \in S : \A y \in S : ~(<<y, x>> \in R)
  BY <1>1, WFMin
<1>4. \A y \in S : ~(y < x)
  BY <1>2, <1>3
<1>5. \A y \in S : x <= y
  BY <1>4
<1>6. QED
  BY <1>5 DEF Min

LEMMA Greatest ==
  ASSUME NEW S, S \subseteq Nat, S # {}, NEW n \in Nat, \A x \in S : x <= n
  PROVE  Max(S) \in S /\ \A x \in S : x <= Max(S)
<1> DEFINE T == {n - x : x \in S}
<1>1. T \subseteq Nat /\ T # {}
  <2>1. \A x \in S : n - x \in Nat
    OBVIOUS
  <2>2. QED
    BY <2>1
<1>2. Min(T) \in T /\ \A y \in T : Min(T) <= y
  BY <1>1, Least
<1>3. PICK m \in S : Min(T) = n - m
  BY <1>2
<1>4. \A x \in S : n - m <= n - x
  BY <1>2, <1>3
<1>5. \A x \in S : m >= x
  BY <1>4
<1>6. QED
  BY <1>5 DEF Max

LEMMA RequestsTyped ==
  ASSUME NEW request \in Requests
  PROVE  /\ DOMAIN request = 1 .. Len(request) /\ Len(request) \in Nat
         /\ \A k \in DOMAIN request : request[k].value \in Nat
<1> DEFINE Pairs == [type : STRING, value : Nat]
<1>1. request \in Seq(Pairs)
  BY HubHostAssumption
<1>2. \A p \in Pairs : p.value \in Nat
  OBVIOUS
<1> HIDE DEF Pairs
<1>3. DOMAIN request = 1 .. Len(request) /\ Len(request) \in Nat
  BY <1>1, LenProperties
<1>4. \A k \in DOMAIN request : request[k] \in Pairs
  BY <1>1, <1>3, ElementOfSeq
<1>5. QED
  BY <1>2, <1>3, <1>4

\* The pair that set a feature last, if one did.
LEMMA LastSetIs ==
  ASSUME NEW request \in Requests, NEW fault, NEW i, NEW f
  PROVE  LET ks == {k \in DOMAIN request : request[k].type = f /\ Reached(request, fault, k, i)}
         IN /\ LastSet(request, fault, i, f) = IF ks = {} THEN 0 ELSE Max(ks)
            /\ LastSet(request, fault, i, f) \in {0} \cup ks
<1> DEFINE ks == {k \in DOMAIN request : request[k].type = f /\ Reached(request, fault, k, i)}
           all == {0} \cup ks
<1>1. LastSet(request, fault, i, f) = Max(all)
  BY DEF LastSet
<1>2. ks \subseteq 1 .. Len(request) /\ Len(request) \in Nat
  BY RequestsTyped
<1> HIDE DEF ks
<1>3. Max(all) \in all /\ \A x \in all : x <= Max(all)
  <2>1. all \subseteq Nat /\ all # {} /\ \A x \in all : x <= Len(request)
    BY <1>2
  <2> HIDE DEF all
  <2>2. QED
    BY <1>2, <2>1, Greatest
<1>4. LastSet(request, fault, i, f) \in {0} \cup ks
  BY <1>1, <1>3
<1>5. CASE ks = {}
  BY <1>4, <1>5 DEF ks
<1>6. CASE ks # {}
  <2> DEFINE g == Max(all)
             m == Max(ks)
  <2>1. \A x \in ks : x \in Nat /\ x >= 1 /\ x <= Len(request)
    BY <1>2
  <2>2. m \in ks /\ \A x \in ks : x <= m
    <3>1. ks \subseteq Nat /\ \A x \in ks : x <= Len(request)
      BY <2>1
    <3>2. QED
      BY <1>2, <1>6, <3>1, Greatest
  <2>3. g \in all /\ m <= g
    BY <1>3, <2>2
  <2> HIDE DEF g, m
  <2>4. g \in ks
    BY <2>1, <2>2, <2>3
  <2>5. g = m
    BY <2>1, <2>2, <2>3, <2>4
  <2>6. QED
    BY <1>1, <1>4, <1>6, <2>5 DEF ks, g, m
<1>7. QED
  BY <1>5, <1>6

\* What SetParameters leaves a camera set to.
SetTo(request, fault, i) ==
  [f \in Features |->
     IF LastSet(request, fault, i, f) = 0 \/ cameras[i].a.backend # "galaxy"
     THEN cameras[i].a.settings[f]
     ELSE request[LastSet(request, fault, i, f)].value]

LEMMA SetsCameras ==
  ASSUME CamerasTyped, NEW request \in Requests, NEW fault, SetParameters(request, fault)
  PROVE  /\ CamerasTyped' /\ DOMAIN cameras' = DOMAIN cameras /\ Len(cameras') = Len(cameras)
         /\ DevicesStay
         /\ \A i \in DOMAIN cameras :
              cameras'[i].a = [cameras[i].a EXCEPT !.settings = SetTo(request, fault, i)]
<1> DEFINE changed ==
             [i \in DOMAIN cameras |->
                [cameras[i].a EXCEPT !.settings = SetTo(request, fault, i)]]
<1>1. cameras' = [i \in DOMAIN cameras |-> [cameras[i] EXCEPT !.a = changed[i]]]
  <2>1. cameras' = [i \in DOMAIN cameras |->
                      [cameras[i] EXCEPT !.a.settings = SetTo(request, fault, i)]]
    BY DEF SetParameters, SetTo
  <2>2. \A i \in DOMAIN cameras :
          [cameras[i] EXCEPT !.a.settings = SetTo(request, fault, i)]
            = [cameras[i] EXCEPT !.a = changed[i]]
    OBVIOUS
  <2>3. QED
    BY <2>1, <2>2
<1>2. \A i \in DOMAIN cameras : changed[i] \in Adapter
  <2>1. ASSUME NEW i \in DOMAIN cameras
        PROVE  [cameras[i].a EXCEPT !.settings = SetTo(request, fault, i)] \in Adapter
    <3>1. cameras[i].a \in Adapter
      BY CameraTyped
    <3>2. cameras[i].a.settings \in [Features -> Nat]
      BY <3>1 DEF Adapter
    <3>3. \A f : LastSet(request, fault, i, f) = 0 \/ LastSet(request, fault, i, f) \in DOMAIN request
      BY LastSetIs
    <3>4. \A k \in DOMAIN request : request[k].value \in Nat
      BY RequestsTyped
    <3>5. SetTo(request, fault, i) \in [Features -> Nat]
      BY <3>2, <3>3, <3>4 DEF SetTo
    <3>6. QED
      BY <3>1, <3>5 DEF Adapter
  <2>2. QED
    BY <2>1
<1>3. changed \in [DOMAIN cameras -> Adapter]
  BY <1>2
<1> HIDE DEF changed
<1>4. /\ CamerasTyped' /\ DOMAIN cameras' = DOMAIN cameras /\ Len(cameras') = Len(cameras)
      /\ \A i \in DOMAIN cameras : cameras'[i].a = changed[i]
      /\ DevicesStay
  BY <1>1, <1>3, CamerasReplaced
<1>5. QED
  BY <1>4 DEF changed

LEMMA SetParametersKeeps ==
  ASSUME HostInv, NEW request \in Requests, NEW fault, SetParameters(request, fault) PROVE HostInv'
<1>1. /\ CamerasTyped' /\ DOMAIN cameras' = DOMAIN cameras /\ Len(cameras') = Len(cameras)
      /\ \A i \in DOMAIN cameras :
           cameras'[i].a = [cameras[i].a EXCEPT !.settings = SetTo(request, fault, i)]
  BY SetsCameras DEF HostInv
<1>2. /\ pc = "serving" /\ pc' = "serving" /\ runtime = "ready" /\ runtime' = "ready"
      /\ handle' = handle
      /\ UNCHANGED <<ordered, session, orchestrator, monitor, swallowed>>
  BY NothingToRecover DEF SetParameters, Recover, Gated, startup
<1>3. \A i \in DOMAIN cameras :
        /\ cameras'[i].a.backend = cameras[i].a.backend
        /\ cameras'[i].a.result_cb = cameras[i].a.result_cb
        /\ Delivers(cameras[i].a, "hub") => Delivers(cameras'[i].a, "hub")
  <2>1. ASSUME NEW i \in DOMAIN cameras
        PROVE  /\ cameras'[i].a.backend = cameras[i].a.backend
               /\ cameras'[i].a.result_cb = cameras[i].a.result_cb
               /\ Delivers(cameras[i].a, "hub") => Delivers(cameras'[i].a, "hub")
    <3>1. cameras[i].a \in Adapter
      BY CameraTyped DEF HostInv
    <3> DEFINE a == cameras[i].a
               to == SetTo(request, fault, i)
               b == cameras'[i].a
    <3>2. b = [a EXCEPT !.settings = to]
      BY <1>1
    <3> HIDE DEF a, to, b
    <3>3. a \in Adapter
      BY <3>1 DEF a
    <3>4. /\ b.backend = a.backend /\ b.result_cb = a.result_cb /\ b.open = a.open
          /\ b.attached = a.attached /\ b.grabbing = a.grabbing /\ b.source = a.source
      BY <3>2, <3>3 DEF Adapter
    <3>5. QED
      BY <3>4 DEF a, b, Delivers, Shoots
  <2>2. QED
    BY <2>1
<1>4. session /\ ReadyCamerasDeliver'
  BY <1>1, <1>2, <1>3 DEF HostInv, ReadyCamerasDeliver
<1>5. SessionCallbacks'
  BY <1>1, <1>2, <1>4 DEF HostInv, SessionCallbacks
<1>6. Phases' /\ NothingToFire'
  BY <1>2 DEF HostInv, Phases, Starting, Started, NothingToFire
<1>7. QED
  BY <1>1, <1>2, <1>4, <1>5, <1>6, CodesDiffer DEF HostInv, FailedStartHoldsNothing

-----------------------------------------------------------------------------
\* The invariant of the specification.

LEMMA BuildStays == Spec => [](build \in Builds)
<1>1. Init => build \in Builds
  BY DEF Init
<1>2. build \in Builds /\ [Next]_vars => (build \in Builds)'
  <2>1. Next => build' = build
    BY DEF Next, Startup, Calls, LoadConfig, OpenCamera, OpenSerial, CreateRing, StartTrigger,
           Listen, Connect, Disconnect, Refused, Declined, SetParameters, GetParameters,
           MonitorTick, Unplug, PlugIn, Fails, startup
  <2>2. QED
    BY <2>1 DEF vars, startup
<1>3. QED
  BY <1>1, <1>2, PTL DEF Spec

LEMMA HostNext == HostInv /\ build \in Builds /\ [Next]_vars => HostInv'
<1> SUFFICES ASSUME HostInv, build \in Builds, [Next]_vars PROVE HostInv'
    OBVIOUS
<1>1. CASE LoadConfig
  BY <1>1, LoadConfigKeeps
<1>2. CASE OpenCamera
  BY <1>2, OpenCameraKeeps
<1>3. CASE OpenSerial
  BY <1>3, OpenSerialKeeps
<1>4. CASE CreateRing
  BY <1>4, CreateRingKeeps
<1>5. CASE \E fault \in PrepareFaults : StartTrigger(fault)
  BY <1>5, StartTriggerKeeps
<1>6. CASE Listen
  BY <1>6, ListenKeeps
<1>7. CASE \E fault \in PrepareFaults : Connect(fault)
  BY <1>7, ConnectKeeps
<1>8. CASE \E fault \in FaultsOf({"unregister"}) : Disconnect(fault)
  BY <1>8, DisconnectKeeps
<1>9. CASE \E request \in Requests, fault \in FaultsOf(Features) : SetParameters(request, fault)
  BY <1>9, SetParametersKeeps
<1>10. CASE \/ MonitorTick \/ Refused \/ Declined
            \/ \E fault \in FaultsOf({"get"}) : GetParameters(fault)
  BY <1>10, PassingCallsKeep
<1>11. CASE Unplug \/ PlugIn
  BY <1>11, PlugsKeep
<1>12. CASE UNCHANGED vars
  BY <1>12
     DEF vars, startup, HostInv, Phases, CamerasTyped, SessionCallbacks, NothingToFire,
         ReadyCamerasDeliver, FailedStartHoldsNothing
<1>13. QED
  BY <1>1, <1>2, <1>3, <1>4, <1>5, <1>6, <1>7, <1>8, <1>9, <1>10, <1>11, <1>12
     DEF Next, Startup, Calls

LEMMA HostInvariant == Spec => []HostInv
BY HostInit, HostNext, BuildStays, PTL DEF Spec

\* Whatever calls fail, a hub that says it is ready can take a capture on every camera of its
\* session (PrepareHardwareTriggerLocked, RestoreActiveSessionLocked).
THEOREM ReadyHubDelivers == Spec => []ReadyCamerasDeliver
BY HostInvariant, PTL DEF HostInv

\* A startup that fails rolls everything back, at whatever step (RollbackUnifiedStartupLocked).
THEOREM FailedStartRollsBack == Spec => []FailedStartHoldsNothing
BY HostInvariant, PTL DEF HostInv

\* After a Disconnect no camera calls the hub and no orchestrator fires (TeardownSessionLocked).
THEOREM DisconnectSilences == Spec => []TornDownIsSilent
<1>1. HostInv => TornDownIsSilent
  BY DEF HostInv, SessionCallbacks, NothingToFire, TornDownIsSilent, Delivers, Shoots, NoCallback
<1>2. QED
  BY <1>1, HostInvariant, PTL

-----------------------------------------------------------------------------
\* The hub keeps the promise of HubStatus.

\* A hub that has just started has not been closed yet.
Undecided == pc = "listen" => runtime # "no_session"

LEMMA UndecidedInvariant == Spec => []Undecided
<1>1. Init => Undecided
  BY DEF Init, Undecided
<1>2. Undecided /\ [Next]_vars => Undecided'
  <2> SUFFICES ASSUME Undecided, [Next]_vars PROVE Undecided'
      OBVIOUS
  <2>1. CASE \E code \in FailedCodes : Fails(code)
    BY <2>1, CodesDiffer DEF Fails, Undecided
  <2>2. CASE pc' = "listen" /\ ~\E code \in FailedCodes : Fails(code)
    <3>1. runtime' = "ready" \/ (pc = "listen" /\ runtime' = runtime)
      BY <2>2
         DEF Next, Startup, Calls, LoadConfig, OpenCamera, OpenSerial, CreateRing, StartTrigger,
             Listen, Connect, Disconnect, Refused, Declined, SetParameters, GetParameters,
             MonitorTick, Unplug, PlugIn, vars, FailedCodes
    <3>2. QED
      BY <3>1 DEF Undecided
  <2>3. QED
    BY <2>1, <2>2 DEF Undecided
<1>3. QED
  BY <1>1, <1>2, PTL DEF Spec

\* A step before the hub serves is none of the promise's, or decides.
LEMMA StartupDecides ==
  ASSUME HostInv, HostInv', Undecided, Startup PROVE [Promise!Next]_Status
<1>1. CASE Listen
  <2>1. pc = "listen" /\ runtime \in {"ready"} \cup FailedCodes /\ runtime' = runtime
    BY <1>1 DEF Listen, HostInv, Phases, Started, Undecided
  <2>2. Status = "starting"
    BY <2>1 DEF Status
  <2>3. CASE pc' = "exited"
    BY <2>2, <2>3 DEF Status, Promise!Next, Promise!Decide
  <2>4. CASE pc' = "serving"
    <3>1. Status' \in {"ready", "failed"}
      BY <2>1, <2>4, CodesDiffer DEF Status
    <3>2. QED
      BY <2>2, <3>1 DEF Promise!Next, Promise!Decide
  <2>5. QED
    BY <1>1, <2>3, <2>4 DEF Listen
<1>2. CASE ~Listen
  <2>1. pc \in Starting /\ pc' \in Starting \cup {"listen"}
    BY <1>2
       DEF Startup, LoadConfig, OpenCamera, OpenSerial, CreateRing, StartTrigger, Fails, Starting
  <2>2. Status = "starting" /\ Status' = "starting"
    BY <2>1 DEF Status, Starting
  <2>3. QED
    BY <2>2
<1>3. QED
  BY <1>1, <1>2

\* A call changes the status only by closing a hub that is ready or resuming one that is closed.
LEMMA CallsKeepPromise ==
  ASSUME HostInv, HostInv', Calls PROVE [Promise!Next]_Status
<1>1. pc = "serving" /\ pc' = "serving"
  BY DEF Calls, Connect, Disconnect, Refused, Declined, SetParameters, GetParameters
<1>2. CASE runtime' = runtime
  BY <1>1, <1>2 DEF Status
<1>3. CASE runtime = "no_session" /\ runtime' = "ready"
  <2>1. Status = "closed" /\ Status' = "ready"
    BY <1>1, <1>3, CodesDiffer DEF Status
  <2>2. QED
    BY <2>1 DEF Promise!Next, Promise!Resume
<1>4. CASE runtime = "ready" /\ runtime' = "no_session"
  <2>1. Status = "ready" /\ Status' = "closed"
    BY <1>1, <1>4, CodesDiffer DEF Status
  <2>2. QED
    BY <2>1 DEF Promise!Next, Promise!Release
<1>5. \/ runtime' = runtime
      \/ runtime = "no_session" /\ runtime' = "ready"
      \/ runtime = "ready" /\ runtime' = "no_session"
  <2>1. RecoveredRuntime = runtime
    BY <1>1, NothingToRecover
  <2>2. CASE \E fault \in PrepareFaults : Connect(fault)
    BY <2>1, <2>2 DEF Connect
  <2>3. CASE \E fault \in FaultsOf({"unregister"}) : Disconnect(fault)
    <3>1. session /\ runtime' = "no_session"
      BY <2>3 DEF Disconnect
    <3>2. runtime \in {"ready", "no_session"}
      BY <1>1, <3>1 DEF HostInv, Phases, Started, FailedStartHoldsNothing
    <3>3. QED
      BY <3>1, <3>2
  <2>4. CASE ~(\E fault \in PrepareFaults : Connect(fault)) /\
             ~(\E fault \in FaultsOf({"unregister"}) : Disconnect(fault))
    BY <2>1, <2>4 DEF Calls, Refused, Declined, SetParameters, GetParameters, Recover
  <2>5. QED
    BY <2>2, <2>3, <2>4
<1>6. QED
  BY <1>2, <1>3, <1>4, <1>5

\* The hub's states and steps are those of HubStatus, whatever fails and whatever the serial
\* adapter does: its startup decides once, a failed one is final, only a ready hub is closed and
\* only a closed one resumed (FillUnifiedGateLocked, Connect, Disconnect).
THEOREM KeepsPromise == Spec => Promise!Init /\ [][Promise!Next]_Status
<1>1. Init => Promise!Init
  BY DEF Init, Promise!Init, Status
<1>2. HostInv /\ HostInv' /\ Undecided /\ [Next]_vars => [Promise!Next]_Status
  <2> SUFFICES ASSUME HostInv, HostInv', Undecided, [Next]_vars PROVE [Promise!Next]_Status
      OBVIOUS
  <2>1. CASE Startup
    BY <2>1, StartupDecides
  <2>2. CASE Calls
    BY <2>2, CallsKeepPromise
  <2>3. CASE MonitorTick
    BY <2>3, NothingToRecover DEF MonitorTick, Status
  <2>4. CASE Unplug \/ PlugIn \/ UNCHANGED vars
    BY <2>4 DEF Unplug, PlugIn, vars, Status
  <2>5. QED
    BY <2>1, <2>2, <2>3, <2>4 DEF Next
<1>3. QED
  BY <1>1, <1>2, HostInvariant, UndecidedInvariant, PTL DEF Spec

-----------------------------------------------------------------------------
\* What was acknowledged holds.

\* Nothing is acknowledged before the hub serves; cameras are opened with the device's settings.
AckInv ==
  /\ AcknowledgedEverywhere
  /\ pc \in Starting => accepted = [f \in Features |-> Factory]

\* A step that keeps the settings, and reads none, keeps what was acknowledged.
LEMMA SettingsKept ==
  ASSUME AckInv, SettingsStay, UNCHANGED asked, reply'.values = <<>> \/ reply' = reply,
         pc' \in Starting => pc \in Starting
  PROVE  AckInv'
BY DEF AckInv, AcknowledgedEverywhere, SettingsStay, asked

LEMMA CamerasStay == cameras' = cameras => SettingsStay
BY DEF SettingsStay

LEMMA FailsKeepsAck ==
  ASSUME AckInv, NEW code, Fails(code) PROVE AckInv'
<1>1. cameras' = <<>> /\ DOMAIN cameras' = {}
  <2>1. cameras' = <<>>
    BY DEF Fails, Rollback, CloseAllDevices
  <2>2. QED
    BY <2>1, EmptySeq, LenProperties
<1>2. SettingsStay
  BY <1>1 DEF SettingsStay
<1>3. UNCHANGED asked /\ reply' = reply /\ pc' \notin Starting
  BY DEF Fails, Starting
<1>4. QED
  BY <1>2, <1>3, SettingsKept

LEMMA OpenCameraKeepsAck ==
  ASSUME HostInv, AckInv, build \in Builds, OpenCamera PROVE AckInv'
<1>1. CASE Fails("camera_init_failed")
  BY <1>1, FailsKeepsAck
<1>2. CASE ~Fails("camera_init_failed")
  <2> DEFINE c == conf.cameras[Len(cameras) + 1]
             known == \E i \in DOMAIN cameras : cameras[i].device = c.device
             opened == Open(New(Prototype(c.backend)), known)
             new == [device |-> c.device, a |-> opened.a]
  <2>1. Prototype(c.backend) \in {"galaxy", "stub", "null", "none"}
    BY HubHostAssumption DEF Prototype
  <2>2. known \in BOOLEAN
    OBVIOUS
  <2>3. /\ Prototype(c.backend) # "none" /\ cameras' = Append(cameras, new)
        /\ pc \in Starting /\ UNCHANGED <<pc, asked, reply>>
    BY <1>2 DEF OpenCamera, Starting
  <2> HIDE DEF known
  <2>4. opened.a.settings = [f \in Features |-> Factory]
    BY <2>1, <2>2, <2>3, OpensCamera
  <2>5. new.a = opened.a
    OBVIOUS
  <2> HIDE DEF opened
  <2>6. PICK D : cameras \in Seq(CamerasOf(D))
    BY DEF HostInv, CamerasTyped
  <2> HIDE DEF new
  <2>7. /\ DOMAIN cameras = 1 .. Len(cameras) /\ Len(cameras) \in Nat
        /\ DOMAIN cameras' = 1 .. Len(cameras) + 1
        /\ \A i \in 1 .. Len(cameras) : cameras'[i] = cameras[i]
        /\ cameras'[Len(cameras) + 1] = new
    <3> DEFINE S == CamerasOf(D) \cup {new}
    <3>1. cameras \in Seq(S) /\ new \in S
      BY <2>6, SeqMonotonic
    <3> HIDE DEF S
    <3>2. QED
      BY <2>3, <3>1, AppendProperties, LenProperties
  <2>8. accepted = [f \in Features |-> Factory]
    BY <2>3 DEF AckInv
  <2>9. \A i \in DOMAIN cameras', f \in Features \ torn' :
          cameras'[i].a.backend = "galaxy" => cameras'[i].a.settings[f] = accepted'[f]
    <3>1. ASSUME NEW i \in DOMAIN cameras', NEW f \in Features \ torn',
                 cameras'[i].a.backend = "galaxy"
          PROVE  cameras'[i].a.settings[f] = accepted'[f]
      <4>1. CASE i = Len(cameras) + 1
        BY <2>3, <2>4, <2>5, <2>7, <2>8, <4>1 DEF asked
      <4>2. CASE i # Len(cameras) + 1
        <5>1. i \in DOMAIN cameras /\ cameras'[i] = cameras[i]
          BY <2>7, <4>2
        <5>2. QED
          BY <2>3, <3>1, <5>1 DEF AckInv, AcknowledgedEverywhere, asked
      <4>3. QED
        BY <4>1, <4>2
    <3>2. QED
      BY <3>1
  <2>10. QED
    BY <2>3, <2>8, <2>9 DEF AckInv, AcknowledgedEverywhere, asked
<1>3. QED
  BY <1>1, <1>2

\* The pair that is refused first, and those before it.
FirstRefused(request, fault) ==
  IF Refusals(request, fault) = {} THEN 0 ELSE Min({r[1] : r \in Refusals(request, fault)})
Whole(request, fault) ==
  {k \in DOMAIN request : FirstRefused(request, fault) = 0 \/ k < FirstRefused(request, fault)}

\* The pairs of a feature that reach a camera are those the call goes through, unless the feature
\* is the one that is refused.
LEMMA ReachedAreWhole ==
  ASSUME NEW request \in Requests, NEW fault, NEW i, NEW f,
         FirstRefused(request, fault) # 0 => request[FirstRefused(request, fault)].type # f
  PROVE  {k \in DOMAIN request : request[k].type = f /\ Reached(request, fault, k, i)}
           = {k \in Whole(request, fault) : request[k].type = f}
<1> DEFINE refusals == Refusals(request, fault)
           firsts == {r[1] : r \in refusals}
           at == FirstRefused(request, fault)
<1>1. DOMAIN request = 1 .. Len(request) /\ Len(request) \in Nat
  BY RequestsTyped
<1>2. \A r \in refusals : r[1] \in DOMAIN request
  BY DEF Refusals
<1>3. CASE refusals = {}
  BY <1>3 DEF Reached, FirstRefused, Whole
<1>4. CASE refusals # {}
  <2>1. at \in firsts /\ \A k \in firsts : at <= k
    <3>1. firsts \subseteq Nat /\ firsts # {}
      BY <1>1, <1>2, <1>4
    <3> HIDE DEF firsts
    <3>2. QED
      BY <1>4, <3>1, Least DEF FirstRefused, firsts
  <2>2. PICK first \in refusals : at = first[1]
    BY <2>1
  <2>3. \A r \in refusals : at <= r[1]
    BY <2>1
  <2>4. at \in DOMAIN request /\ at # 0
    BY <1>1, <1>2, <2>2
  <2>5. request[at].type # f
    BY <2>4
  <2> HIDE DEF at
  <2>6. ASSUME NEW k \in DOMAIN request, request[k].type = f
        PROVE  Reached(request, fault, k, i) <=> k < at
    <3>1. k # at /\ k \in Nat /\ at \in Nat
      BY <1>1, <2>4, <2>5, <2>6
    <3>2. ASSUME k < at PROVE Reached(request, fault, k, i)
      <4>1. \A r \in refusals : r[1] \in Nat /\ at <= r[1]
        BY <1>1, <1>2, <2>3
      <4>2. \A r \in refusals : k < r[1]
        BY <3>1, <3>2, <4>1
      <4>3. QED
        BY <4>2 DEF Reached
    <3>3. ASSUME Reached(request, fault, k, i) PROVE k < at
      BY <2>2, <3>1, <3>3 DEF Reached
    <3>4. QED
      BY <3>2, <3>3
  <2>7. QED
    BY <2>4, <2>6 DEF at, Whole
<1>5. QED
  BY <1>3, <1>4

LEMMA SetParametersKeepsAck ==
  ASSUME HostInv, AckInv, NEW request \in Requests, NEW fault, SetParameters(request, fault)
  PROVE  AckInv'
<1> DEFINE at == FirstRefused(request, fault)
           whole == Whole(request, fault)
           pairs(f) == {k \in whole : request[k].type = f}
<1>1. /\ pc = "serving" /\ pc' = "serving" /\ runtime = "ready" /\ reply'.values = <<>>
      /\ accepted' = [f \in Features |->
                        IF pairs(f) = {} THEN accepted[f] ELSE request[Max(pairs(f))].value]
      /\ torn' = (torn \ {request[k].type : k \in whole})
                   \cup (IF at = 0 THEN {} ELSE {request[at].type} \cap Features)
  BY NothingToRecover DEF SetParameters, Replies, Gated, FirstRefused, Whole
<1>2. session
  BY <1>1 DEF HostInv, ReadyCamerasDeliver
<1>3. /\ DOMAIN cameras' = DOMAIN cameras
      /\ \A i \in DOMAIN cameras :
           cameras'[i].a = [cameras[i].a EXCEPT !.settings = SetTo(request, fault, i)]
  BY SetsCameras DEF HostInv
<1> HIDE DEF at
<1>4. ASSUME NEW i \in DOMAIN cameras, NEW f \in Features, f \notin torn',
             cameras'[i].a.backend = "galaxy"
      PROVE  cameras'[i].a.settings[f] = accepted'[f]
  <2>1. at # 0 => request[at].type # f
    BY <1>1, <1>4
  <2> DEFINE reached == {k \in DOMAIN request : request[k].type = f /\ Reached(request, fault, k, i)}
             last == LastSet(request, fault, i, f)
  <2>2. reached = pairs(f)
    BY <2>1, ReachedAreWhole DEF at
  <2>3. last = (IF reached = {} THEN 0 ELSE Max(reached)) /\ last \in {0} \cup reached
    BY LastSetIs
  <2>4. 0 \notin DOMAIN request
    BY RequestsTyped
  <2>5. /\ cameras[i].a \in Adapter
        /\ cameras[i].a.backend = "galaxy"
        /\ cameras'[i].a.settings = SetTo(request, fault, i)
    <3>1. cameras[i].a \in Adapter
      BY CameraTyped DEF HostInv
    <3> DEFINE a == cameras[i].a
               b == cameras'[i].a
               to == SetTo(request, fault, i)
    <3>2. b = [a EXCEPT !.settings = to]
      BY <1>3
    <3>3. a \in Adapter /\ b.backend = "galaxy"
      BY <1>4, <3>1
    <3> HIDE DEF a, b, to
    <3>4. a.backend = "galaxy" /\ b.settings = to
      BY <3>2, <3>3 DEF Adapter
    <3>5. QED
      BY <3>1, <3>4 DEF a, b, to
  <2>6. cameras'[i].a.settings[f] =
          IF last = 0 THEN cameras[i].a.settings[f] ELSE request[last].value
    BY <2>5 DEF SetTo
  <2> HIDE DEF reached, last, pairs
  <2>7. CASE pairs(f) = {}
    <3>1. last = 0
      BY <2>2, <2>3, <2>7
    <3>2. f \notin torn
      BY <1>1, <1>4, <2>7 DEF pairs
    <3>3. cameras[i].a.settings[f] = accepted[f]
      BY <2>5, <3>2 DEF AckInv, AcknowledgedEverywhere
    <3>4. accepted'[f] = accepted[f]
      BY <1>1, <2>7
    <3>5. QED
      BY <2>6, <3>1, <3>3, <3>4
  <2>8. CASE pairs(f) # {}
    <3>1. last = Max(pairs(f))
      BY <2>2, <2>3, <2>8
    <3>2. last # 0
      <4>1. Max(reached) \in reached
        <5>1. reached \subseteq 1 .. Len(request) /\ Len(request) \in Nat
          BY RequestsTyped DEF reached
        <5>2. reached \subseteq Nat /\ reached # {} /\ \A k \in reached : k <= Len(request)
          BY <2>2, <2>8, <5>1
        <5>3. QED
          BY <5>1, <5>2, Greatest
      <4>2. QED
        BY <2>2, <2>3, <2>4, <2>8, <4>1 DEF reached
    <3>3. accepted'[f] = request[Max(pairs(f))].value
      BY <1>1, <2>8
    <3>4. QED
      BY <2>6, <3>1, <3>2, <3>3
  <2>9. QED
    BY <2>7, <2>8
<1> HIDE DEF whole, pairs
<1>5. AcknowledgedEverywhere'
  BY <1>1, <1>3, <1>4 DEF AcknowledgedEverywhere
<1>6. QED
  BY <1>1, <1>5 DEF AckInv, Starting

\* GetParameters reads a camera of the session.
LEMMA GetParametersKeepsAck ==
  ASSUME HostInv, AckInv, NEW fault, GetParameters(fault) PROVE AckInv'
<1>1. /\ pc = "serving" /\ pc' = "serving" /\ runtime = "ready"
      /\ UNCHANGED <<asked, cameras>>
  BY NothingToRecover DEF GetParameters, Gated
<1>2. SettingsStay
  BY <1>1, CamerasStay
<1>3. CASE reply'.values = <<>>
  BY <1>1, <1>2, <1>3, SettingsKept DEF Starting
<1>4. CASE reply'.values # <<>>
  <2>1. /\ ordered # <<>> /\ cameras[Head(ordered)].a.backend = "galaxy"
        /\ reply'.values = cameras[Head(ordered)].a.settings
    BY <1>4 DEF GetParameters, Replies
  <2>2. Head(ordered) \in DOMAIN cameras
    <3>1. ordered = [i \in DOMAIN cameras |-> i]
      BY <1>1 DEF HostInv, ReadyCamerasDeliver, SessionCallbacks
    <3>2. PICK D : cameras \in Seq(CamerasOf(D))
      BY DEF HostInv, CamerasTyped
    <3>3. DOMAIN cameras = 1 .. Len(cameras) /\ Len(cameras) \in Nat
      BY <3>2, LenProperties
    <3>4. ordered \in Seq(DOMAIN cameras)
      BY <3>1, <3>3, SeqDef
    <3>5. QED
      BY <2>1, <3>4, HeadTailProperties
  <2>3. QED
    BY <1>1, <2>1, <2>2 DEF AckInv, AcknowledgedEverywhere, asked, Starting
<1>5. QED
  BY <1>3, <1>4

LEMMA AckNext ==
  HostInv /\ AckInv /\ build \in Builds /\ [Next]_vars => AckInv'
<1> SUFFICES ASSUME HostInv, AckInv, build \in Builds, [Next]_vars PROVE AckInv'
    OBVIOUS
<1>1. CASE \E code : Fails(code)
  BY <1>1, FailsKeepsAck
<1>2. CASE OpenCamera
  BY <1>2, OpenCameraKeepsAck
<1>3. CASE \E request \in Requests, fault \in FaultsOf(Features) : SetParameters(request, fault)
  BY <1>3, SetParametersKeepsAck
<1>4. CASE \E fault \in FaultsOf({"get"}) : GetParameters(fault)
  BY <1>4, GetParametersKeepsAck
<1>5. CASE \E fault : Restore(fault) /\ UNCHANGED asked /\ (reply'.values = <<>> \/ reply' = reply)
                        /\ pc' \notin Starting
  BY <1>5, RestoresSession, SettingsKept DEF HostInv
<1>6. CASE \E fault \in FaultsOf({"unregister"}) : Disconnect(fault)
  <2>1. PICK fault : Disconnect(fault)
    BY <1>6
  <2>2. UNCHANGED asked /\ reply'.values = <<>> /\ pc' \notin Starting
    BY <2>1 DEF Disconnect, Replies, Starting
  <2>3. QED
    BY <2>1, <2>2, DisconnectClears, SettingsKept
<1>7. CASE /\ UNCHANGED <<cameras, asked>> /\ (reply'.values = <<>> \/ reply' = reply)
           /\ pc' \in Starting => pc \in Starting
  BY <1>7, CamerasStay, SettingsKept
<1>8. CASE \E fault \in PrepareFaults : StartTrigger(fault)
  BY <1>1, <1>5, <1>8 DEF StartTrigger, Starting
<1>9. CASE \E fault \in PrepareFaults : Connect(fault)
  BY <1>5, <1>7, <1>9 DEF Connect, Replies, Starting
<1>10. CASE LoadConfig \/ OpenSerial \/ CreateRing \/ Listen
  BY <1>1, <1>7, <1>10 DEF LoadConfig, OpenSerial, CreateRing, Listen, Starting
<1>11. CASE Refused \/ Declined \/ MonitorTick \/ Unplug \/ PlugIn \/ UNCHANGED vars
  BY <1>7, <1>11 DEF Refused, Declined, MonitorTick, Unplug, PlugIn, vars, Replies, asked
<1>12. QED
  BY <1>2, <1>3, <1>4, <1>6, <1>8, <1>9, <1>10, <1>11 DEF Next, Startup, Calls

\* What a client was told was set holds on every camera of the session and is what is read back,
\* until a camera refuses the feature: one refusal in the middle of a request leaves the features
\* before it whole (SetParameters, GetParameters).
THEOREM AcknowledgedHolds == Spec => []AcknowledgedEverywhere
<1>1. Init => AckInv
  <2> SUFFICES ASSUME Init PROVE AckInv
      OBVIOUS
  <2>1. DOMAIN cameras = {}
    BY EmptySeq, LenProperties DEF Init
  <2>2. QED
    BY <2>1 DEF Init, AckInv, AcknowledgedEverywhere, NoReply
<1>2. QED
  <2>1. AckInv => AcknowledgedEverywhere
    BY DEF AckInv
  <2>2. QED
    BY <1>1, <2>1, AckNext, HostInvariant, BuildStays, PTL DEF Spec

-----------------------------------------------------------------------------
\* Types.

\* The plain variables, and what of the configuration ends up in them.
PlainTypes ==
  /\ conf.frames \in FrameCounts /\ conf.discovery \in BOOLEAN
  /\ document \in Documents /\ build \in Builds
  /\ ordered \in Seq(Nat)
  /\ orchestrator \in {"none", "single", "multi"}
  /\ handle \in {"none", "good", "stale"}
  /\ session \in BOOLEAN /\ plugged \in BOOLEAN /\ ring \in BOOLEAN
  /\ unified \in BOOLEAN /\ beacon \in BOOLEAN /\ monitor \in BOOLEAN
  /\ frames \in FrameCounts
  /\ faults \in 0 .. MaxFaults

AskedTypes == accepted \in [Features -> Nat] /\ torn \subseteq Features

\* The cameras are opened after the configuration is loaded, each because it is named there.
NamedCameras ==
  /\ pc = "config" => cameras = <<>>
  /\ \A i \in DOMAIN cameras : cameras[i].device \in Configured
  /\ swallowed \subseteq DOMAIN cameras

LoadedCameras(d) ==
  LET named == SelectSeq(d.cameras, LAMBDA c : c.serial)
  IN [i \in DOMAIN named |->
        [device |-> named[i].device,
         backend |-> IF named[i].backend = "" THEN "daheng" ELSE named[i].backend]]

\* The loader clamps the number of frames.
LEMMA LoadedTyped ==
  ASSUME NEW d
  PROVE  Loaded(d).frames \in FrameCounts /\ Loaded(d).discovery \in BOOLEAN
<1> DEFINE com == IF d.com = Unquoted THEN 0 ELSE d.com
           number == IF d.frames \in FrameCounts THEN d.frames ELSE NoConf.frames
           found == d.discovery \notin {"false", "0"}
           named == LoadedCameras(d)
<1>1. Loaded(d) = [com |-> com, frames |-> number, discovery |-> found, cameras |-> named]
  BY Zenon DEF Loaded, LoadedCameras
<1>2. 24 \in FrameCounts
  BY DEF FrameCounts
<1>3. number \in FrameCounts
  BY <1>2 DEF NoConf
<1>4. found \in BOOLEAN
  BY Zenon
<1> HIDE DEF com, number, found, named
<1>5. QED
  BY <1>1, <1>3, <1>4

\* A failing startup, and restoring a session, leave the plain types as they are.
LEMMA FailsKeepsPlain ==
  ASSUME PlainTypes, NEW code, Fails(code), conf' = conf, faults' \in 0 .. MaxFaults
  PROVE  PlainTypes'
<1>1. /\ ordered' = <<>> /\ orchestrator' = "none" /\ handle' = "none"
      /\ UNCHANGED <<document, build, frames, beacon, monitor, plugged>>
  BY DEF Fails, Rollback
<1>2. session' = FALSE /\ ring' = FALSE /\ unified' = FALSE
  BY Zenon DEF Fails, Rollback
<1>3. session' \in BOOLEAN /\ ring' \in BOOLEAN /\ unified' \in BOOLEAN
  BY <1>2, Zenon
<1>4. ordered' \in Seq(Nat)
  BY <1>1, EmptySeq
<1>5. QED
  BY <1>1, <1>3, <1>4 DEF PlainTypes

LEMMA FaultCounted ==
  ASSUME PlainTypes, NEW fault, Faulting(fault)
  PROVE  faults' \in 0 .. MaxFaults
BY HubHostAssumption DEF PlainTypes, Faulting

LEMMA RestoresPlain ==
  ASSUME CamerasTyped, NEW fault, Restore(fault)
  PROVE  /\ ordered' \in Seq(Nat) /\ session' \in BOOLEAN
         /\ orchestrator' \in {"none", "single", "multi"}
<1>1. PICK D : cameras \in Seq(CamerasOf(D))
  BY DEF CamerasTyped
<1>2. DOMAIN cameras = 1 .. Len(cameras) /\ Len(cameras) \in Nat
  BY <1>1, LenProperties
<1>3. ordered' = [i \in 1 .. Len(cameras) |-> i]
  BY <1>2 DEF Restore
<1>4. [i \in 1 .. Len(cameras) |-> i] \in [1 .. Len(cameras) -> Nat]
  OBVIOUS
<1>5. ordered' \in Seq(Nat)
  BY <1>2, <1>3, <1>4, SeqDef
<1>6. session' = TRUE
  BY DEF Restore
<1>7. orchestrator' = Orchestrator(fault)
  BY DEF Restore
<1>8. Orchestrator(fault) \in {"none", "single", "multi"}
  BY DEF Orchestrator
<1>9. QED
  BY <1>5, <1>6, <1>7, <1>8

\* A step that changes none of what is read from the file and counts its failing call.
LEMMA PlainGoesOn ==
  ASSUME PlainTypes, faults' \in 0 .. MaxFaults,
         UNCHANGED <<document, build, conf, unified, ring, frames, beacon, monitor, plugged>>,
         ordered' \in Seq(Nat), session' \in BOOLEAN,
         orchestrator' \in {"none", "single", "multi"}, handle' \in {"none", "good", "stale"}
  PROVE  PlainTypes'
BY DEF PlainTypes

LEMMA LoadConfigKeepsPlain == ASSUME PlainTypes, LoadConfig PROVE PlainTypes'
<1>1. faults' = faults /\ faults \in 0 .. MaxFaults
  BY DEF LoadConfig, PlainTypes
<1>2. CASE \E code : Fails(code) /\ conf' = conf
  BY <1>1, <1>2, FailsKeepsPlain
<1>3. CASE ~\E code : Fails(code) /\ conf' = conf
  <2>1. /\ conf' = Loaded(document)
        /\ UNCHANGED <<document, build, ordered, session, orchestrator, handle, plugged, ring,
                       frames, beacon, monitor>>
    BY <1>3 DEF LoadConfig
  <2>2. conf'.frames \in FrameCounts /\ conf'.discovery \in BOOLEAN
    BY <2>1, LoadedTyped
  <2>3. unified' \in BOOLEAN
    <3>1. unified' = TRUE
      BY <1>3, Zenon DEF LoadConfig
    <3>2. QED
      BY <3>1, Zenon
  <2>4. QED
    BY <1>1, <2>1, <2>2, <2>3 DEF PlainTypes
<1>4. QED
  BY <1>2, <1>3

LEMMA ListenKeepsPlain == ASSUME PlainTypes, Listen PROVE PlainTypes'
<1>1. /\ faults' = faults /\ ordered' = ordered /\ session' = session
      /\ orchestrator' = orchestrator /\ handle' = handle
      /\ UNCHANGED <<document, build, conf, unified, ring, frames, plugged>>
  BY DEF Listen
<1>2. beacon' \in BOOLEAN /\ monitor' \in BOOLEAN
  <2>1. CASE beacon' = (conf # NoConf /\ conf.discovery) /\ monitor' = (com_main # 0)
    <3>1. beacon' = (conf # NoConf /\ conf.discovery)
      BY <2>1
    <3>2. beacon' \in BOOLEAN
      BY <3>1, Zenon
    <3>3. monitor' = (com_main # 0)
      BY <2>1
    <3>4. monitor' \in BOOLEAN
      BY <3>3, Zenon
    <3>5. QED
      BY <3>2, <3>4
  <2>2. CASE UNCHANGED <<beacon, monitor>>
    BY <2>2 DEF PlainTypes
  <2>3. QED
    BY <2>1, <2>2 DEF Listen
<1>3. QED
  BY <1>1, <1>2 DEF PlainTypes

LEMMA StartTriggerKeepsPlain ==
  ASSUME HostInv, PlainTypes, NEW fault, StartTrigger(fault) PROVE PlainTypes'
<1>1. faults' \in 0 .. MaxFaults /\ conf' = conf
  BY FaultCounted DEF StartTrigger
<1>2. CASE Fails("orchestrator_failed")
  BY <1>1, <1>2, FailsKeepsPlain
<1>3. CASE ~Fails("orchestrator_failed")
  <2>1. /\ Restore(fault) /\ frames' = conf.frames
        /\ UNCHANGED <<document, build, unified, ring, beacon, monitor, handle, plugged>>
    BY <1>3 DEF StartTrigger
  <2>2. /\ ordered' \in Seq(Nat) /\ session' \in BOOLEAN
        /\ orchestrator' \in {"none", "single", "multi"}
    BY <2>1, RestoresPlain DEF HostInv
  <2>3. QED
    BY <1>1, <2>1, <2>2 DEF PlainTypes
<1>4. QED
  BY <1>2, <1>3

LEMMA ConnectKeepsPlain ==
  ASSUME HostInv, PlainTypes, NEW fault, Connect(fault) PROVE PlainTypes'
<1>1. handle' = handle /\ UNCHANGED <<startup, plugged>>
  BY NothingToRecover DEF Connect
<1>2. CASE Restore(fault) /\ Faulting(fault)
  <2>1. /\ ordered' \in Seq(Nat) /\ session' \in BOOLEAN
        /\ orchestrator' \in {"none", "single", "multi"}
    BY <1>2, RestoresPlain DEF HostInv
  <2>2. faults' \in 0 .. MaxFaults
    BY <1>2, FaultCounted
  <2>3. QED
    BY <1>1, <2>1, <2>2 DEF PlainTypes, startup
<1>3. CASE UNCHANGED <<ordered, session, orchestrator, faults>>
  BY <1>1, <1>3 DEF PlainTypes, startup
<1>4. QED
  BY <1>2, <1>3 DEF Connect

LEMMA DisconnectKeepsPlain ==
  ASSUME PlainTypes, NEW fault, Disconnect(fault) PROVE PlainTypes'
<1>1. /\ ordered' = <<>> /\ orchestrator' = "none" /\ handle' = handle
      /\ UNCHANGED <<startup, plugged>>
  BY DEF Disconnect
<1>2. session' = FALSE
  BY Zenon DEF Disconnect
<1>3. session' \in BOOLEAN
  BY <1>2, Zenon
<1>4. faults' \in 0 .. MaxFaults
  BY FaultCounted DEF Disconnect
<1>5. QED
  BY <1>1, <1>3, <1>4, EmptySeq DEF PlainTypes, startup

\* A call that neither connects nor disconnects.
LEMMA ServesPlain ==
  ASSUME HostInv, PlainTypes, pc = "serving", Recover, UNCHANGED <<startup, plugged>>,
         UNCHANGED <<ordered, session, orchestrator>>, faults' \in 0 .. MaxFaults
  PROVE  PlainTypes'
<1>1. handle' = handle
  BY NothingToRecover DEF Recover
<1>2. QED
  BY <1>1 DEF PlainTypes, startup

LEMMA PlainNext == HostInv /\ PlainTypes /\ [Next]_vars => PlainTypes'
<1> SUFFICES ASSUME HostInv, PlainTypes, [Next]_vars PROVE PlainTypes'
    OBVIOUS
<1>1. faults \in 0 .. MaxFaults /\ MaxFaults \in Nat
  BY HubHostAssumption DEF PlainTypes
<1>2. CASE LoadConfig
  BY <1>2, LoadConfigKeepsPlain
<1>3. CASE OpenCamera
  <2>1. faults' \in 0 .. MaxFaults /\ conf' = conf
    <3>1. conf' = conf
      BY <1>3 DEF OpenCamera
    <3>2. faults' = faults \/ (faults < MaxFaults /\ faults' = faults + 1)
      BY <1>3, Zenon DEF OpenCamera
    <3>3. QED
      BY <1>1, <3>1, <3>2
  <2>2. CASE \E code : Fails(code)
    BY <2>1, <2>2, FailsKeepsPlain
  <2>3. CASE UNCHANGED <<startup, ordered, session, orchestrator, handle, plugged>>
    BY <2>1, <2>3 DEF PlainTypes, startup
  <2>4. QED
    BY <1>3, <2>2, <2>3 DEF OpenCamera
<1>4. CASE OpenSerial \/ CreateRing
  <2>1. faults' = faults /\ conf' = conf
    BY <1>4 DEF OpenSerial, CreateRing
  <2>2. CASE \E code : Fails(code)
    BY <1>1, <2>1, <2>2, FailsKeepsPlain
  <2>3. CASE ~\E code : Fails(code)
    <3>1. /\ UNCHANGED <<document, build, unified, frames, beacon, monitor, ordered, session,
                         orchestrator, plugged>>
          /\ handle' = handle \/ handle' = "good"
      BY <1>4, <2>3 DEF OpenSerial, CreateRing
    <3>2. ring' \in BOOLEAN
      <4>1. CASE OpenSerial
        <5>1. ring' = ring
          BY <2>3, <4>1 DEF OpenSerial
        <5>2. QED
          BY <5>1 DEF PlainTypes
      <4>2. CASE CreateRing
        <5>1. ring' = TRUE
          BY <2>3, <4>2, Zenon DEF CreateRing
        <5>2. QED
          BY <5>1, Zenon
      <4>3. QED
        BY <1>4, <4>1, <4>2
    <3>3. QED
      BY <2>1, <3>1, <3>2 DEF PlainTypes
  <2>4. QED
    BY <2>2, <2>3
<1>5. CASE \E fault \in PrepareFaults : StartTrigger(fault)
  BY <1>5, StartTriggerKeepsPlain
<1>6. CASE Listen
  BY <1>6, ListenKeepsPlain
<1>7. CASE \E fault \in PrepareFaults : Connect(fault)
  BY <1>7, ConnectKeepsPlain
<1>8. CASE \E fault \in FaultsOf({"unregister"}) : Disconnect(fault)
  BY <1>8, DisconnectKeepsPlain
<1>9. CASE MonitorTick \/ Refused \/ Declined
  BY <1>1, <1>9, ServesPlain DEF MonitorTick, Refused, Declined, Recover
<1>10. CASE \E request \in Requests, fault \in FaultsOf(Features) : SetParameters(request, fault)
  <2>1. PICK request \in Requests, fault \in FaultsOf(Features) : SetParameters(request, fault)
    BY <1>10
  <2>2. faults' \in 0 .. MaxFaults
    BY <2>1, FaultCounted DEF SetParameters
  <2>3. QED
    BY <2>1, <2>2, ServesPlain DEF SetParameters
<1>11. CASE \E fault \in FaultsOf({"get"}) : GetParameters(fault)
  <2>1. PICK fault \in FaultsOf({"get"}) : GetParameters(fault)
    BY <1>11
  <2>2. faults' \in 0 .. MaxFaults
    BY <2>1, FaultCounted DEF GetParameters
  <2>3. QED
    BY <2>1, <2>2, ServesPlain DEF GetParameters
<1>12. CASE Unplug \/ PlugIn
  <2>1. plugged' \in BOOLEAN
    <3>1. plugged' = FALSE \/ plugged' = TRUE
      BY <1>12, Zenon DEF Unplug, PlugIn
    <3>2. QED
      BY <3>1, Zenon
  <2>2. /\ handle' = handle \/ handle' = "stale"
        /\ UNCHANGED <<startup, ordered, session, orchestrator, faults>>
    BY <1>12 DEF Unplug, PlugIn
  <2>3. QED
    BY <2>1, <2>2 DEF PlainTypes, startup
<1>13. CASE UNCHANGED vars
  BY <1>13 DEF PlainTypes, vars, startup
<1>14. QED
  BY <1>2, <1>3, <1>4, <1>5, <1>6, <1>7, <1>8, <1>9, <1>10, <1>11, <1>12, <1>13
     DEF Next, Startup, Calls

\* What SetParameters acknowledges are values of the request.
LEMMA AskedNext == AskedTypes /\ [Next]_vars => AskedTypes'
<1> SUFFICES ASSUME AskedTypes, [Next]_vars PROVE AskedTypes'
    OBVIOUS
<1>1. CASE UNCHANGED asked
  BY <1>1 DEF AskedTypes, asked
<1>2. CASE \E request \in Requests, fault \in FaultsOf(Features) : SetParameters(request, fault)
  <2>1. PICK request \in Requests, fault \in FaultsOf(Features) : SetParameters(request, fault)
    BY <1>2
  <2> DEFINE at == FirstRefused(request, fault)
             whole == Whole(request, fault)
             pairs(f) == {k \in whole : request[k].type = f}
  <2>2. accepted' = [f \in Features |->
                       IF pairs(f) = {} THEN accepted[f] ELSE request[Max(pairs(f))].value]
    BY <2>1 DEF SetParameters, FirstRefused, Whole
  <2>3. torn' = (torn \ {request[k].type : k \in whole})
                  \cup (IF at = 0 THEN {} ELSE {request[at].type} \cap Features)
    BY <2>1 DEF SetParameters, FirstRefused, Whole
  <2>4. /\ DOMAIN request = 1 .. Len(request) /\ Len(request) \in Nat
        /\ \A k \in DOMAIN request : request[k].value \in Nat
    BY RequestsTyped
  <2>5. ASSUME NEW f \in Features, pairs(f) # {}
        PROVE  request[Max(pairs(f))].value \in Nat
    <3> DEFINE ks == pairs(f)
    <3>1. ks \subseteq DOMAIN request /\ ks # {}
      BY <2>5 DEF Whole
    <3> HIDE DEF ks
    <3>2. ks \subseteq Nat /\ \A k \in ks : k <= Len(request)
      BY <2>4, <3>1
    <3>3. Max(ks) \in ks
      BY <2>4, <3>1, <3>2, Greatest
    <3>4. QED
      BY <2>4, <3>1, <3>3 DEF ks
  <2> HIDE DEF at, whole, pairs
  <2>6. accepted' \in [Features -> Nat]
    BY <2>2, <2>5 DEF AskedTypes
  <2>7. torn' \subseteq Features
    BY <2>3 DEF AskedTypes
  <2>8. QED
    BY <2>6, <2>7 DEF AskedTypes
<1>3. CASE LoadConfig \/ OpenCamera \/ OpenSerial \/ CreateRing \/ Listen
  BY <1>1, <1>3 DEF LoadConfig, OpenCamera, OpenSerial, CreateRing, Listen, Fails
<1>4. CASE \E fault \in PrepareFaults : StartTrigger(fault) \/ Connect(fault)
  BY <1>1, <1>4 DEF StartTrigger, Connect, Fails
<1>5. CASE \/ \E fault \in FaultsOf({"unregister"}) : Disconnect(fault)
           \/ \E fault \in FaultsOf({"get"}) : GetParameters(fault)
  BY <1>1, <1>5 DEF Disconnect, GetParameters
<1>6. CASE Refused \/ Declined \/ MonitorTick \/ Unplug \/ PlugIn \/ UNCHANGED vars
  BY <1>1, <1>6 DEF Refused, Declined, MonitorTick, Unplug, PlugIn, vars
<1>7. QED
  BY <1>2, <1>3, <1>4, <1>5, <1>6 DEF Next, Startup, Calls

\* The cameras stay those the configuration names.
LEMMA SameCamerasNamed ==
  ASSUME NamedCameras, DOMAIN cameras' = DOMAIN cameras, DevicesStay, conf' = conf,
         pc' # "config", swallowed' \subseteq DOMAIN cameras'
  PROVE  NamedCameras'
BY DEF NamedCameras, DevicesStay, Configured

LEMMA NoCamerasNamed == ASSUME cameras' = <<>>, swallowed' = {} PROVE NamedCameras'
BY EmptySeq, LenProperties DEF NamedCameras

LEMMA OpenCameraNames == ASSUME HostInv, NamedCameras, OpenCamera PROVE NamedCameras'
<1>1. CASE \E code : Fails(code)
  BY <1>1, NoCamerasNamed DEF Fails, Rollback, CloseAllDevices
<1>2. CASE ~\E code : Fails(code)
  <2> DEFINE c == conf.cameras[Len(cameras) + 1]
             opened == Open(New(Prototype(c.backend)),
                            \E i \in DOMAIN cameras : cameras[i].device = c.device)
             new == [device |-> c.device, a |-> opened.a]
  <2>1. /\ cameras' = Append(cameras, new)
        /\ Len(cameras) + 1 \in DOMAIN conf.cameras
        /\ pc = "cameras" /\ pc' = pc /\ conf' = conf /\ swallowed' = swallowed
    BY <1>2 DEF OpenCamera
  <2>2. new.device = c.device
    OBVIOUS
  <2>3. c.device \in Configured
    BY <2>1 DEF Configured
  <2> HIDE DEF new, c
  <2>4. PICK D : cameras \in Seq(CamerasOf(D))
    BY DEF HostInv, CamerasTyped
  <2> DEFINE S == CamerasOf(D) \cup {new}
  <2>5. CamerasOf(D) \subseteq S /\ new \in S
    OBVIOUS
  <2> HIDE DEF S
  <2>6. cameras \in Seq(S)
    BY <2>4, <2>5, SeqMonotonic
  <2>7. /\ cameras' \in Seq(S)
        /\ Len(cameras') = Len(cameras) + 1
        /\ \A i \in 1 .. Len(cameras) : cameras'[i] = cameras[i]
        /\ cameras'[Len(cameras) + 1] = new
    BY <2>1, <2>5, <2>6, AppendProperties
  <2>8. /\ DOMAIN cameras = 1 .. Len(cameras) /\ DOMAIN cameras' = 1 .. Len(cameras')
        /\ Len(cameras) \in Nat
    BY <2>6, <2>7, LenProperties
  <2>9. \A i \in DOMAIN cameras' : cameras'[i].device \in Configured
    BY <2>2, <2>3, <2>7, <2>8 DEF NamedCameras
  <2>10. swallowed' \subseteq DOMAIN cameras'
    BY <2>1, <2>7, <2>8 DEF NamedCameras
  <2>11. Configured' = Configured
    BY <2>1 DEF Configured
  <2>12. QED
    BY <2>1, <2>9, <2>10, <2>11 DEF NamedCameras
<1>3. QED
  BY <1>1, <1>2

\* A camera whose registration is lost is one of those that are open.
LEMMA RestoreNames ==
  ASSUME HostInv, NamedCameras, NEW fault, Restore(fault), conf' = conf, pc' # "config"
  PROVE  NamedCameras'
<1>1. DOMAIN cameras' = DOMAIN cameras /\ DevicesStay
  BY RestoresSession DEF HostInv
<1>2. swallowed' \subseteq DOMAIN cameras
  BY DEF Restore, Swallowed
<1>3. QED
  BY <1>1, <1>2, SameCamerasNamed

LEMMA NamedNext == HostInv /\ NamedCameras /\ [Next]_vars => NamedCameras'
<1> SUFFICES ASSUME HostInv, NamedCameras, [Next]_vars PROVE NamedCameras'
    OBVIOUS
<1>1. CASE \E code : Fails(code)
  BY <1>1, NoCamerasNamed DEF Fails, Rollback, CloseAllDevices
<1>2. CASE UNCHANGED <<conf, cameras, swallowed>> /\ (pc' = "config" => pc = "config")
  BY <1>2 DEF NamedCameras, Configured
<1>3. CASE LoadConfig
  <2>1. CASE pc' = "cameras" /\ UNCHANGED <<cameras, swallowed>>
    <3>1. cameras' = <<>>
      BY <1>3, <2>1 DEF LoadConfig, NamedCameras
    <3>2. DOMAIN cameras' = {} /\ DOMAIN cameras = {}
      BY <2>1, <3>1, EmptySeq, LenProperties
    <3>3. QED
      BY <2>1, <3>1, <3>2 DEF NamedCameras
  <2>2. QED
    BY <1>1, <1>3, <2>1 DEF LoadConfig
<1>4. CASE OpenCamera
  BY <1>4, OpenCameraNames
<1>5. CASE OpenSerial \/ CreateRing \/ Listen
  BY <1>1, <1>2, <1>5 DEF OpenSerial, CreateRing, Listen
<1>6. CASE \E fault \in PrepareFaults : StartTrigger(fault)
  BY <1>1, <1>6, RestoreNames DEF StartTrigger
<1>7. CASE \E fault \in PrepareFaults : Connect(fault)
  BY <1>2, <1>7, RestoreNames DEF Connect, startup
<1>8. CASE \E fault \in FaultsOf({"unregister"}) : Disconnect(fault)
  <2>1. PICK fault : Disconnect(fault)
    BY <1>8
  <2>2. DOMAIN cameras' = DOMAIN cameras /\ DevicesStay
    BY <2>1, DisconnectClears
  <2>3. conf' = conf /\ pc' # "config" /\ swallowed' = {}
    BY <2>1 DEF Disconnect, startup
  <2>4. QED
    BY <2>2, <2>3, SameCamerasNamed
<1>9. CASE \E request \in Requests, fault \in FaultsOf(Features) : SetParameters(request, fault)
  <2>1. PICK request \in Requests, fault \in FaultsOf(Features) : SetParameters(request, fault)
    BY <1>9
  <2>2. DOMAIN cameras' = DOMAIN cameras /\ DevicesStay
    BY <2>1, SetsCameras DEF HostInv
  <2>3. conf' = conf /\ pc' # "config" /\ swallowed' = swallowed
    BY <2>1 DEF SetParameters, startup
  <2>4. QED
    BY <2>2, <2>3, SameCamerasNamed DEF NamedCameras
<1>10. CASE \E fault \in FaultsOf({"get"}) : GetParameters(fault)
  BY <1>2, <1>10 DEF GetParameters, startup
<1>11. CASE Refused \/ Declined \/ MonitorTick \/ Unplug \/ PlugIn \/ UNCHANGED vars
  BY <1>2, <1>11 DEF Refused, Declined, MonitorTick, Unplug, PlugIn, vars, startup
<1>12. QED
  BY <1>3, <1>4, <1>5, <1>6, <1>7, <1>8, <1>9, <1>10, <1>11 DEF Next, Startup, Calls

\* Every variable keeps its type, the frames of a trigger stay within what the loader allows,
\* and every open camera is one the configuration names.
THEOREM TypeCorrect == Spec => []TypeOK
<1>1. Init => PlainTypes /\ AskedTypes /\ NamedCameras
  <2> SUFFICES ASSUME Init PROVE PlainTypes /\ AskedTypes /\ NamedCameras
      OBVIOUS
  <2>1. session \in BOOLEAN /\ ring \in BOOLEAN /\ unified \in BOOLEAN
    BY Zenon DEF Init
  <2>2. beacon \in BOOLEAN /\ monitor \in BOOLEAN
    BY Zenon DEF Init
  <2>3. conf.frames \in FrameCounts /\ conf.discovery \in BOOLEAN /\ frames \in FrameCounts
    BY DEF Init, NoConf, FrameCounts
  <2>4. PlainTypes
    <3>1. /\ document \in Documents /\ build \in Builds /\ plugged \in BOOLEAN
          /\ ordered = <<>> /\ orchestrator = "none" /\ handle = "none" /\ faults = 0
      BY Zenon DEF Init
    <3>2. ordered \in Seq(Nat)
      BY <3>1, EmptySeq
    <3>3. faults \in 0 .. MaxFaults
      BY <3>1, HubHostAssumption
    <3>4. QED
      BY <2>1, <2>2, <2>3, <3>1, <3>2, <3>3 DEF PlainTypes
  <2>5. AskedTypes
    BY DEF Init, AskedTypes, Factory
  <2>6. NamedCameras
    BY EmptySeq, LenProperties DEF Init, NamedCameras
  <2>7. QED
    BY <2>4, <2>5, <2>6
<1>2. HostInv /\ PlainTypes /\ AskedTypes /\ NamedCameras => TypeOK
  <2> SUFFICES ASSUME HostInv, PlainTypes, AskedTypes, NamedCameras PROVE TypeOK
      OBVIOUS
  <2>1. cameras \in Seq([device : Configured, a : Adapter])
    <3>1. PICK D : cameras \in Seq(CamerasOf(D))
      BY DEF HostInv, CamerasTyped
    <3>2. DOMAIN cameras = 1 .. Len(cameras) /\ Len(cameras) \in Nat
      BY <3>1, LenProperties
    <3>3. \A i \in DOMAIN cameras : cameras[i] \in CamerasOf(D)
      BY <3>1, <3>2, ElementOfSeq
    <3>4. \A i \in DOMAIN cameras : cameras[i] \in CamerasOf(Configured)
      BY <3>3 DEF NamedCameras, CamerasOf
    <3>5. cameras \in [1 .. Len(cameras) -> CamerasOf(Configured)]
      <4>1. cameras = [i \in DOMAIN cameras |-> cameras[i]]
        BY <3>1, SeqDef
      <4>2. QED
        BY <3>2, <3>4, <4>1
    <3>6. cameras \in Seq(CamerasOf(Configured))
      BY <3>2, <3>5, SeqDef
    <3>7. QED
      BY <3>6 DEF CamerasOf
  <2>2. /\ pc \in {"config", "cameras", "ring", "trigger", "listen", "serving", "exited"}
        /\ runtime \in {"starting", "ready", "no_session", "serial_lost"} \cup FailedCodes
    BY DEF HostInv, Phases, Starting, Started
  <2>3. {session, plugged, ring, unified, beacon, monitor} \subseteq BOOLEAN
    BY DEF PlainTypes
  <2>4. QED
    BY <2>1, <2>2, <2>3 DEF TypeOK, PlainTypes, AskedTypes, NamedCameras
<1>3. QED
  BY <1>1, <1>2, PlainNext, AskedNext, NamedNext, HostInvariant, PTL DEF Spec
=============================================================================
