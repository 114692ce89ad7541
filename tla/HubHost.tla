------------------------------- MODULE HubHost ------------------------------
(***************************************************************************)
(* The hub process around its captures: RunHubApp reads the configuration, *)
(* UnifiedStartupFromConfig opens the cameras, the serial port and the     *)
(* shared memory and prepares the hardware trigger, rolling everything     *)
(* back at the first failure; then the process serves, whatever came out   *)
(* of it, and clients connect, disconnect, set and read camera settings,   *)
(* while the serial monitor ticks and the serial adapter may be unplugged. *)
(*                                                                         *)
(* HubCapture has the captures of a session.  Each RPC holds mu_ and is    *)
(* one action; TryRecoverSerialQuick runs just before it without mu_, but  *)
(* changes something only while the port is closed, which a hub that       *)
(* serves never reaches (ServiceSpec), so it is part of the action.        *)
(*                                                                         *)
(* `fault` is the camera and the call into the vendor's SDK that fails in  *)
(* an action, or NoFault.  The operating system (what is plugged in,       *)
(* whether the region or the TCP port can be had) is outside the code.     *)
(***************************************************************************)
EXTENDS CameraDriver, Sequences, FiniteSetsExt

CONSTANTS
  Documents,   \* configuration files: see Document
  Builds,      \* what "daheng" is in this build: "galaxy", "stub" or "none"
  Requests,    \* SetParameters requests: sequences of [type, value]
  MaxFaults    \* bound: failing calls into the vendor's SDK

VARIABLES
  pc,           \* where RunHubApp is
  document,     \* the configuration file
  build,
  conf,         \* HubFileConfig, once loaded
  cameras,      \* open_ of the CameraManager and preset_cameras_: [device, a], by manager id
  com_main,     \* startup_serial_com_main_
  unified,      \* unified_config_mode_
  runtime,      \* hub_runtime_
  ordered,      \* session_devices_ordered_; the session id is its first entry
  session,      \* session_id_ is not empty
  orchestrator, \* which of the two orchestrators exists
  handle,       \* the serial port's handle: none, good, or stale (its device was unplugged)
  plugged,      \* the serial adapter is plugged in
  ring,         \* the shared memory region is mapped
  frames,       \* frames_per_hardware_trigger_
  beacon,       \* the discovery thread runs
  monitor,      \* the serial monitor thread runs
  reply,        \* the last reply: its code and the values read
  swallowed,    \* history: cameras whose callback registration failed unnoticed
  accepted,     \* history: the value last acknowledged for a feature
  torn,         \* history: features refused by a camera since then
  faults        \* history: failed calls into the vendor's SDK

startup == <<document, build, conf, com_main, unified, ring, frames, beacon, monitor>>
asked == <<accepted, torn>>
vars == <<pc, startup, cameras, runtime, ordered, session, orchestrator, handle, plugged, reply,
          swallowed, asked, faults>>

NoConf == [com |-> 0, frames |-> 24, discovery |-> TRUE, cameras |-> <<>>]
NoReply == [code |-> "none", values |-> <<>>]
NoFault == [camera |-> 0, call |-> "none"]
Unquoted == -1  \* a number without quotes: the loader sees no value

\* HubFileConfig::serial numbers, backends and numbers as they stand in the file.
Document ==
  [file : {"missing", "unreadable", "read"}, com : {Unquoted} \cup Nat, frames : {Unquoted} \cup Nat,
   discovery : {"absent", "unquoted", "true", "false", "0"},
   cameras : Seq([device : STRING, serial : BOOLEAN, backend : {"", "daheng", "null", "other"}])]

ASSUME HubHostAssumption ==
  /\ \A d \in Documents : DOMAIN d = {"file", "com", "frames", "discovery", "cameras"}
  /\ Builds \subseteq {"galaxy", "stub", "none"}
  /\ Requests \subseteq Seq([type : STRING, value : Nat])
  /\ MaxFaults \in Nat

FailedCodes == {"config_not_found", "config_invalid", "camera_init_failed", "serial_init_failed",
                "ring_init_failed", "orchestrator_failed"}

Init ==
  /\ pc = "config"
  /\ document \in Documents
  /\ build \in Builds
  /\ conf = NoConf
  /\ cameras = <<>>
  /\ com_main = 0
  /\ unified = FALSE
  /\ runtime = "starting"
  /\ ordered = <<>>
  /\ session = FALSE
  /\ orchestrator = "none"
  /\ handle = "none"
  /\ plugged \in BOOLEAN
  /\ ring = FALSE
  /\ frames = NoConf.frames
  /\ beacon = FALSE
  /\ monitor = FALSE
  /\ reply = NoReply
  /\ swallowed = {}
  /\ accepted = [f \in Features |-> Factory]
  /\ torn = {}
  /\ faults = 0

\* A vendor call that fails is counted.
Faulting(fault) ==
  /\ fault # NoFault => faults < MaxFaults
  /\ faults' = faults + (IF fault = NoFault THEN 0 ELSE 1)

\* TryGetAdapter, through which every call to a camera goes: an id it does not know is refused.
Managed(i) == i \in DOMAIN cameras

FaultsOf(calls) == {NoFault} \cup [camera : DOMAIN cameras, call : calls]

Hits(fault, i, call) == fault = [camera |-> i, call |-> call]

-----------------------------------------------------------------------------
\* Startup.

\* Mutant: only the cameras of the session are closed.
RollbackSession ==
  /\ cameras' = IF ordered = <<>> THEN cameras ELSE <<>>
  /\ session' = FALSE
  /\ ordered' = <<>>
  /\ orchestrator' = "none"
  /\ ring' = FALSE
  /\ handle' = "none"
  /\ com_main' = 0
  /\ unified' = FALSE
  /\ swallowed' = {}

\* CloseAllDevices: each is stopped, closed and dropped.
CloseAllDevices == cameras' = <<>>

\* RollbackUnifiedStartupLocked: the cameras of the manager are closed whether or not they had
\* made it into the session.
Rollback ==
  /\ CloseAllDevices
  /\ session' = FALSE
  /\ ordered' = <<>>
  /\ orchestrator' = "none"
  /\ ring' = FALSE
  /\ handle' = "none"
  /\ com_main' = 0
  /\ unified' = FALSE
  /\ swallowed' = {}

Fails(code) ==
  /\ runtime' = code
  /\ Rollback
  /\ pc' = "listen"
  /\ UNCHANGED <<document, build, frames, beacon, monitor, plugged, reply, asked>>

\* Mutant: the number of frames is taken as it stands.
LoadedUnchecked(d) ==
  [com |-> IF d.com = Unquoted THEN 0 ELSE d.com,
   frames |-> d.frames,
   discovery |-> d.discovery \notin {"false", "0"},
   cameras |-> LET named == SelectSeq(d.cameras, LAMBDA c : c.serial)
               IN [i \in DOMAIN named |->
                     [device |-> named[i].device,
                      backend |-> IF named[i].backend = "" THEN "daheng" ELSE named[i].backend]]]

\* frames_per_hardware_trigger is taken in this range.
FrameCounts == 1 .. 4096

\* LoadHubFileConfig: only quoted values are seen; what is missing or out of range keeps its
\* default, a camera needs a serial number.
Loaded(d) ==
  [com |-> IF d.com = Unquoted THEN 0 ELSE d.com,
   frames |-> IF d.frames \in FrameCounts THEN d.frames ELSE NoConf.frames,
   discovery |-> d.discovery \notin {"false", "0"},
   cameras |-> LET named == SelectSeq(d.cameras, LAMBDA c : c.serial)
               IN [i \in DOMAIN named |->
                     [device |-> named[i].device,
                      backend |-> IF named[i].backend = "" THEN "daheng" ELSE named[i].backend]]]

\* RunHubApp: the file is looked for, loaded, and UnifiedStartupFromConfig begins.
LoadConfig ==
  /\ pc = "config"
  /\ UNCHANGED faults
  /\ \/ /\ document.file = "missing"
        /\ Fails("config_not_found")
        /\ UNCHANGED conf
     \/ /\ document.file # "missing"
        /\ document.file = "unreadable" \/ Loaded(document).cameras = <<>>
        /\ Fails("config_invalid")
        /\ UNCHANGED conf
     \/ /\ document.file = "read"
        /\ Loaded(document).cameras # <<>>
        /\ conf' = Loaded(document)
        /\ pc' = "cameras"
        /\ unified' = TRUE
        /\ com_main' = conf'.com
        /\ UNCHANGED <<document, build, cameras, runtime, ordered, session, orchestrator, handle,
                       plugged, ring, frames, beacon, monitor, reply, swallowed, asked>>

\* RegisterAdapter in main, and the choice of the Daheng adapter at build time.
Prototype(backend) ==
  CASE backend = "daheng" -> build
    [] backend = "null" -> "null"
    [] OTHER -> "none"

\* CreateAndOpenDevice: an unknown backend has no prototype; a device is opened only once.
OpenCamera ==
  LET c == conf.cameras[Len(cameras) + 1]
      opened == Open(New(Prototype(c.backend)), \E i \in DOMAIN cameras : cameras[i].device = c.device)
  IN /\ pc = "cameras"
     /\ Len(cameras) + 1 \in DOMAIN conf.cameras
     /\ UNCHANGED conf
     /\ \/ /\ Prototype(c.backend) # "none"
           /\ opened.ok
           /\ cameras' = Append(cameras, [device |-> c.device, a |-> opened.a])
           /\ UNCHANGED <<pc, startup, runtime, ordered, session, orchestrator, handle, plugged,
                          reply, swallowed, asked, faults>>
        \/ /\ Prototype(c.backend) = "none" \/ ~opened.ok
           /\ Fails("camera_init_failed")
           /\ UNCHANGED faults
        \/ /\ Prototype(c.backend) = "galaxy"
           /\ faults < MaxFaults
           /\ faults' = faults + 1
           /\ Fails("camera_init_failed")

\* The serial port is required, and its device must be there.
OpenSerial ==
  /\ pc = "cameras"
  /\ Len(cameras) = Len(conf.cameras)
  /\ UNCHANGED <<conf, faults>>
  /\ \/ /\ conf.com = 0 \/ ~plugged
        /\ Fails("serial_init_failed")
     \/ /\ conf.com # 0
        /\ plugged
        /\ handle' = "good"
        /\ pc' = "ring"
        /\ UNCHANGED <<document, build, com_main, unified, ring, frames, beacon, monitor, cameras,
                       runtime, ordered, session, orchestrator, plugged, reply, swallowed, asked>>

\* The region may be refused, by another process that holds it or for want of memory.
CreateRing ==
  /\ pc = "ring"
  /\ UNCHANGED <<conf, faults>>
  /\ \/ Fails("ring_init_failed")
     \/ /\ ring' = TRUE
        /\ pc' = "trigger"
        /\ UNCHANGED <<document, build, com_main, unified, frames, beacon, monitor, cameras, runtime,
                       ordered, session, orchestrator, handle, plugged, reply, swallowed, asked>>

\* Mutant: the grab is started before the callback is in place.
PrepareOneGrabFirst(i, fault) ==
  LET cleared == SetResultCallback(cameras[i].a, NoCallback, Hits(fault, i, "unregister"))
      trigger == SetTriggerMode(cleared, "hardware", Hits(fault, i, "trigger"))
      grab == StartStreamGrab(trigger.a, Hits(fault, i, "grab"))
      called == SetResultCallback(grab.a, "hub", Hits(fault, i, "register"))
  IN IF trigger.ok THEN Does(grab.ok, called) ELSE trigger

\* PrepareHardwareTriggerLocked for one camera: the grab starts once the callback is in place.
PrepareOne(i, fault) ==
  LET cleared == SetResultCallback(cameras[i].a, NoCallback, Hits(fault, i, "unregister"))
      trigger == SetTriggerMode(cleared, "hardware", Hits(fault, i, "trigger"))
      called == SetResultCallback(trigger.a, "hub", Hits(fault, i, "register"))
  IN IF trigger.ok THEN StartStreamGrab(called, Hits(fault, i, "grab")) ELSE trigger

\* The first camera that refuses ends it; the ones behind it are not touched.
Refusing(fault) == {i \in DOMAIN cameras : ~PrepareOne(i, fault).ok}
Prepared(fault) ==
  [i \in DOMAIN cameras |->
     IF \E j \in Refusing(fault) : j < i THEN cameras[i]
     ELSE [cameras[i] EXCEPT !.a = PrepareOne(i, fault).a]]
Orchestrator(fault) ==
  IF Refusing(fault) # {} THEN "none" ELSE IF Len(cameras) = 1 THEN "single" ELSE "multi"
Swallowed(fault) ==
  {i \in DOMAIN cameras : Prepared(fault)[i].a.result_cb = "hub" /\ ~Prepared(fault)[i].a.attached}

PrepareFaults == FaultsOf({"unregister", "trigger", "register", "grab"})

\* RestoreActiveSessionLocked, and the same lines of UnifiedStartupFromConfig.
Restore(fault) ==
  /\ ordered' = [i \in DOMAIN cameras |-> i]
  /\ session' = TRUE
  /\ cameras' = Prepared(fault)
  /\ orchestrator' = Orchestrator(fault)
  /\ swallowed' = Swallowed(fault)

StartTrigger(fault) ==
  /\ pc = "trigger"
  /\ Faulting(fault)
  /\ UNCHANGED conf
  /\ \/ /\ Refusing(fault) # {}
        /\ Fails("orchestrator_failed")
     \/ /\ Refusing(fault) = {}
        /\ Restore(fault)
        /\ runtime' = "ready"
        /\ frames' = conf.frames
        /\ pc' = "listen"
        /\ UNCHANGED <<document, build, com_main, unified, ring, beacon, monitor, handle, plugged,
                       reply, asked>>

\* The TCP port is bound or the process ends; the beacon is sent whatever became of the startup.
Listen ==
  /\ pc = "listen"
  /\ \/ /\ pc' = "serving"
        /\ beacon' = (conf # NoConf /\ conf.discovery)
        /\ monitor' = (com_main # 0)
     \/ /\ pc' = "exited"
        /\ UNCHANGED <<beacon, monitor>>
  /\ UNCHANGED <<document, build, conf, com_main, unified, ring, frames, cameras, runtime, ordered,
                 session, orchestrator, handle, plugged, reply, swallowed, asked, faults>>

-----------------------------------------------------------------------------
\* The serial adapter.

\* Mutant: it asks for the device.
DeviceIsThere == handle = "good"

\* SerialPortManager::IsOpen looks at the handle, not at the device.
IsOpen == handle # "none"

\* TryRecoverSerialQuick.
Recovering == com_main # 0 /\ ~IsOpen
RecoveredHandle == IF Recovering /\ plugged THEN "good" ELSE handle
RecoveredRuntime ==
  CASE Recovering /\ ~plugged -> "serial_lost"
    [] Recovering /\ plugged /\ unified -> IF session THEN "ready" ELSE "no_session"
    [] OTHER -> runtime

\* The monitor's tick, every two seconds.
MonitorTick ==
  /\ pc = "serving"
  /\ monitor
  /\ handle' = RecoveredHandle
  /\ runtime' = RecoveredRuntime
  /\ UNCHANGED <<pc, startup, cameras, ordered, session, orchestrator, plugged, reply, swallowed,
                 asked, faults>>

\* Unplugging leaves a handle that fails every call; plugging in again does not mend it (external).
Unplug ==
  /\ plugged
  /\ plugged' = FALSE
  /\ handle' = IF handle = "none" THEN handle ELSE "stale"
  /\ UNCHANGED <<pc, startup, cameras, runtime, ordered, session, orchestrator, reply, swallowed,
                 asked, faults>>

PlugIn ==
  /\ ~plugged
  /\ plugged' = TRUE
  /\ UNCHANGED <<pc, startup, cameras, runtime, ordered, session, orchestrator, handle, reply,
                 swallowed, asked, faults>>

-----------------------------------------------------------------------------
\* The RPCs.

Replies(code, values) == reply' = [code |-> code, values |-> values]

\* Connect: a hub that is ready confirms its session, one that is closed resumes it, any other
\* says why not.  A resumption that fails keeps the session id and stays closed.  The serial
\* command that follows is only logged.
Connect(fault) ==
  /\ pc = "serving"
  /\ handle' = RecoveredHandle
  /\ \/ /\ RecoveredRuntime = "no_session"
        /\ Faulting(fault)
        /\ Restore(fault)
        /\ \/ Refusing(fault) # {} /\ runtime' = "no_session" /\ Replies("orchestrator_failed", <<>>)
           \/ Refusing(fault) = {} /\ runtime' = "ready" /\ Replies("ok", <<>>)
     \/ /\ RecoveredRuntime # "no_session"
        /\ fault = NoFault
        /\ runtime' = RecoveredRuntime
        /\ Replies(IF runtime' = "ready" THEN "ok" ELSE runtime', <<>>)
        /\ UNCHANGED <<cameras, ordered, session, orchestrator, swallowed, faults>>
  /\ UNCHANGED <<pc, startup, plugged, asked>>

\* Mutant: the list of the session's cameras is cleared before it is walked.
DisconnectForgetsFirst(fault) ==
  /\ pc = "serving"
  /\ session
  /\ Faulting(fault)
  /\ ordered' = <<>>
  /\ session' = FALSE
  /\ orchestrator' = "none"
  /\ runtime' = "no_session"
  /\ swallowed' = {}
  /\ Replies("ok", <<>>)
  /\ UNCHANGED <<pc, startup, cameras, handle, plugged, asked>>

\* Disconnect and TeardownSessionLocked: the callbacks go, the cameras stay open and grabbing.
Disconnect(fault) ==
  /\ pc = "serving"
  /\ session
  /\ Faulting(fault)
  /\ cameras' = [i \in DOMAIN cameras |->
                   IF i \in Range(ordered)
                   THEN [cameras[i] EXCEPT !.a =
                           SetResultCallback(@, NoCallback, Hits(fault, i, "unregister"))]
                   ELSE cameras[i]]
  /\ ordered' = <<>>
  /\ session' = FALSE
  /\ orchestrator' = "none"
  /\ runtime' = "no_session"
  /\ swallowed' = {}
  /\ Replies("ok", <<>>)
  /\ UNCHANGED <<pc, startup, handle, plugged, asked>>

\* FillUnifiedGateLocked, at the start of every other RPC.
Gated == RecoveredRuntime # "ready"
Recover ==
  /\ handle' = RecoveredHandle
  /\ runtime' = RecoveredRuntime

Refused ==
  /\ pc = "serving"
  /\ Gated
  /\ Recover
  /\ Replies(RecoveredRuntime, <<>>)
  /\ UNCHANGED <<pc, startup, cameras, ordered, session, orchestrator, plugged, swallowed, asked, faults>>

\* GetPointCloud and GetDetectionResult, and any request with another session's id.
Declined ==
  /\ pc = "serving"
  /\ ~Gated
  /\ Recover
  /\ \E code \in {"wrong_session", "not_provided"} : Replies(code, <<>>)
  /\ UNCHANGED <<pc, startup, cameras, ordered, session, orchestrator, plugged, swallowed, asked, faults>>

SetOne(i, p, fault) == SetFeature(cameras[i].a, p.type, p.value, Hits(fault, i, p.type))

\* A request reaches its pair k on camera i if nothing before it was refused: the pairs in
\* order, for each the cameras in order, and the first refusal ends the call.
Refusals(request, fault) ==
  {r \in (DOMAIN request) \X Range(ordered) :
     \/ request[r[1]].type \notin Features
     \/ ~Managed(r[2])
     \/ ~SetOne(r[2], request[r[1]], fault).ok}
\* Mutant: a refusal is noted, and the loop goes on.
ReachedSkipping(request, fault, k, i) == <<k, i>> \notin Refusals(request, fault)

Reached(request, fault, k, i) ==
  \A r \in Refusals(request, fault) : k < r[1] \/ (k = r[1] /\ i < r[2])
LastSet(request, fault, i, f) ==
  Max({0} \cup {k \in DOMAIN request : request[k].type = f /\ Reached(request, fault, k, i)})

\* SetParameters; SetExposure and SetGain are requests of one pair.
SetParameters(request, fault) ==
  LET refusals == Refusals(request, fault)
      at == IF refusals = {} THEN 0 ELSE Min({r[1] : r \in refusals})
      whole == {k \in DOMAIN request : at = 0 \/ k < at}
  IN /\ pc = "serving"
     /\ ~Gated
     /\ Recover
     /\ Faulting(fault)
     /\ cameras' =
          [i \in DOMAIN cameras |->
             [cameras[i] EXCEPT !.a.settings =
                [f \in Features |->
                   LET k == LastSet(request, fault, i, f)
                   IN IF k = 0 \/ cameras[i].a.backend # "galaxy" THEN @[f] ELSE request[k].value]]]
     /\ Replies(IF at = 0 THEN "ok" ELSE "refused", <<>>)
     /\ accepted' = [f \in Features |->
                       LET ks == {k \in whole : request[k].type = f}
                       IN IF ks = {} THEN accepted[f] ELSE request[Max(ks)].value]
     /\ torn' = (torn \ {request[k].type : k \in whole})
                  \cup (IF at = 0 THEN {} ELSE {request[at].type} \cap Features)
     /\ UNCHANGED <<pc, startup, ordered, session, orchestrator, plugged, swallowed>>

\* GetParameters, GetExposure and GetGain read the first camera of the session.
GetParameters(fault) ==
  LET a == cameras[Head(ordered)].a
  IN /\ pc = "serving"
     /\ ~Gated
     /\ Recover
     /\ Faulting(fault)
     /\ \/ /\ ordered = <<>> \/ ~CanGet(a, Hits(fault, Head(ordered), "get"))
           /\ Replies("refused", <<>>)
        \/ /\ ordered # <<>>
           /\ CanGet(a, Hits(fault, Head(ordered), "get"))
           /\ Replies("ok", IF a.backend = "galaxy" THEN a.settings ELSE <<>>)
     /\ UNCHANGED <<pc, startup, cameras, ordered, session, orchestrator, plugged, swallowed, asked>>

-----------------------------------------------------------------------------
Startup ==
  \/ LoadConfig
  \/ OpenCamera
  \/ OpenSerial
  \/ CreateRing
  \/ \E fault \in PrepareFaults : StartTrigger(fault)
  \/ Listen

Calls ==
  \/ \E fault \in PrepareFaults : Connect(fault)
  \/ \E fault \in FaultsOf({"unregister"}) : Disconnect(fault)
  \/ Refused
  \/ Declined
  \/ \E request \in Requests, fault \in FaultsOf(Features) : SetParameters(request, fault)
  \/ \E fault \in FaultsOf({"get"}) : GetParameters(fault)

Next == Startup \/ Calls \/ MonitorTick \/ Unplug \/ PlugIn

\* The main thread runs until it waits for the server, the monitor thread for as long as it serves.
Spec == Init /\ [][Next]_vars /\ WF_vars(Startup) /\ WF_vars(MonitorTick)

-----------------------------------------------------------------------------
\* Properties.

\* A device that is open is one the configuration names.
Configured == {conf.cameras[i].device : i \in DOMAIN conf.cameras}

TypeOK ==
  /\ pc \in {"config", "cameras", "ring", "trigger", "listen", "serving", "exited"}
  /\ document \in Documents /\ build \in Builds
  /\ cameras \in Seq([device : Configured, a : Adapter])
  /\ runtime \in {"starting", "ready", "no_session", "serial_lost"} \cup FailedCodes
  /\ ordered \in Seq(Nat)
  /\ orchestrator \in {"none", "single", "multi"}
  /\ handle \in {"none", "good", "stale"}
  /\ {session, plugged, ring, unified, beacon, monitor} \subseteq BOOLEAN
  /\ swallowed \subseteq DOMAIN cameras
  /\ accepted \in [Features -> Nat]
  /\ torn \subseteq Features
  /\ frames \in FrameCounts
  /\ faults \in 0 .. MaxFaults

\* A hub that says it is ready can take a capture: its orchestrator fits its cameras, and every
\* vendor's camera of the session delivers to the hub, unless its registration failed, which the
\* adapter swallows (PrepareHardwareTriggerLocked, SetCaptureResultCallback).
ReadyCamerasDeliver ==
  runtime = "ready" =>
    /\ session
    /\ orchestrator = (IF Len(cameras) = 1 THEN "single" ELSE "multi")
    /\ \A i \in DOMAIN cameras :
         cameras[i].a.backend = "galaxy" /\ i \notin swallowed => Delivers(cameras[i].a, "hub")

\* After a Disconnect nothing reaches the hub any more, and nothing can set it off: no camera
\* holds its callback and no orchestrator is left to send a command (TeardownSessionLocked).
TornDownIsSilent ==
  /\ ~session => \A i \in DOMAIN cameras : ~Delivers(cameras[i].a, "hub")
  /\ runtime # "ready" => orchestrator = "none"

\* A startup that failed leaves nothing behind: the serial port, the shared memory and every
\* camera are free for another hub, and no monitor will open the port again
\* (RollbackUnifiedStartupLocked).
FailedStartHoldsNothing ==
  runtime \in FailedCodes =>
    /\ cameras = <<>>
    /\ handle = "none" /\ ~ring
    /\ com_main = 0 /\ ~monitor
    /\ ~session /\ orchestrator = "none"

\* What was acknowledged holds on every camera of the session, and is what is read back, until a
\* camera refuses the feature; disconnecting and reconnecting change nothing (SetParameters,
\* SetExposure, SetGain, GetParameters).
AcknowledgedEverywhere ==
  /\ \A i \in DOMAIN cameras, f \in Features \ torn :
       cameras[i].a.backend = "galaxy" => cameras[i].a.settings[f] = accepted[f]
  /\ reply.values # <<>> => \A f \in Features \ torn : reply.values[f] = accepted[f]

\* What clients are told of the hub.
Status ==
  IF pc # "serving" THEN (IF pc = "exited" THEN "gone" ELSE "starting")
  ELSE CASE runtime = "no_session" -> "closed"
         [] runtime \in FailedCodes -> "failed"
         [] OTHER -> runtime

\* The hub keeps the promise of HubStatus, whatever the serial adapter does: it always decides,
\* and a failed startup is final.  The state "serial_lost" (1010) is not among its states.
Promise == INSTANCE HubStatus WITH status <- Status
ServiceSpec == Promise!Spec

\* hub_service_state_codes.h:22 says of 1010 that the monitor thread sets it when the port is lost
\* after the startup.
LossIsReported ==
  pc = "serving" /\ monitor /\ ~plugged ~> runtime = "serial_lost" \/ plugged
=============================================================================
