------------------------------- MODULE JoyCon2 -------------------------------
(***************************************************************************)
(* The Joy-Con 2 over BLE, crates/device-joycon/src/jc2.rs: a scanner that *)
(* offers a controller it hears advertise, the bring-up of what it offers, *)
(* a reader task per device, and the stop of a device.  All devices made   *)
(* for one controller share its one BLE link, and whoever disconnects it   *)
(* disconnects it for all.                                                 *)
(*                                                                         *)
(* One controller.  The supervisor and the registry are taken as far as    *)
(* they touch it: devices of one controller have one DeviceId.             *)
(***************************************************************************)
EXTENDS Integers, FiniteSets

CONSTANTS
  JcDevs,      \* bound: devices at a time
  JcCooldown,  \* rediscover_after, in ticks (8 s)
  JcMaxFaults, \* bound: failures of a bring-up, links lost, controllers turned off
  JcTrueKind   \* what the controller is: "left", "right" or "pro"

ASSUME JcAssumption ==
  /\ IsFiniteSet(JcDevs) /\ 0 \notin JcDevs
  /\ JcCooldown \in Nat \ {0} /\ JcMaxFaults \in Nat
  /\ JcTrueKind \in {"left", "right", "pro"}

VARIABLES
  jcOn,     \* the controller is on; it advertises while it has no link
  jcLink,   \* its link is up
  jcEvent,  \* the adapter has a DeviceDisconnected for the scanner
  jcKnown,  \* known: ticks until it is offered again; 0 when it may be
  jcDev,    \* where each device is
  jcStage,  \* the step of start() the supervisor is at
  jcCur,    \* the device it starts
  jcReg,    \* the device of the registry's entry, or 0
  jcEnded,  \* devices whose pipeline has yet to handle Disconnected
  jcKind,   \* the kind each device takes its controller for
  jcBias,   \* the kind the magnetometer bias was turned to the axes of
  jcFaults

jcAir   == <<jcOn, jcLink, jcEvent>>
jcStart == <<jcStage, jcCur>>
jcData  == <<jcKind, jcBias>>
jcVars  == <<jcAir, jcKnown, jcDev, jcStart, jcReg, jcEnded, jcData, jcFaults>>

JcKinds == {"left", "right", "pro"}
JcStages == {"idle", "connect", "services", "chars", "kind", "subscribe", "enable", "bias", "stream"}

JcTypeOK ==
  /\ {jcOn, jcLink, jcEvent} \subseteq BOOLEAN /\ jcKnown \in 0 .. JcCooldown
  /\ jcDev \in [JcDevs -> {"free", "offered", "starting", "running", "ended", "stopping"}]
  /\ jcStage \in JcStages /\ jcCur \in JcDevs \cup {0} /\ (jcStage = "idle" <=> jcCur = 0)
  /\ jcReg \in JcDevs \cup {0} /\ jcEnded \subseteq JcDevs
  /\ jcKind \in [JcDevs -> JcKinds] /\ jcBias \in [JcDevs -> JcKinds \cup {"none"}]
  /\ jcFaults \in 0 .. JcMaxFaults

JcInit ==
  /\ jcOn = FALSE /\ jcLink = FALSE /\ jcEvent = FALSE /\ jcKnown = 0
  /\ jcDev = [d \in JcDevs |-> "free"]
  /\ jcStage = "idle" /\ jcCur = 0 /\ jcReg = 0 /\ jcEnded = {}
  /\ jcKind = [d \in JcDevs |-> "right"] /\ jcBias = [d \in JcDevs |-> "none"]
  /\ jcFaults = 0

JcFault == jcFaults < JcMaxFaults /\ jcFaults' = jcFaults + 1
JcDrops == jcLink' = FALSE /\ jcEvent' = (jcEvent \/ jcLink) /\ UNCHANGED jcOn

-----------------------------------------------------------------------------
(* The scanner *)

(* What an advertisement tells of the kind: the product id where the block *)
(* holds one, or a guess.                                                  *)
KindFromAdvert == {JcTrueKind, "right"}

(* Heard and not known, the controller is offered; the time starts anew.   *)
TryEmit(d, kind) ==
  /\ jcOn /\ ~jcLink /\ jcKnown = 0
  /\ jcDev[d] = "free" /\ d \notin jcEnded
  /\ jcKnown' = JcCooldown
  /\ jcDev' = [jcDev EXCEPT ![d] = "offered"]
  /\ jcKind' = [jcKind EXCEPT ![d] = kind] /\ jcBias' = [jcBias EXCEPT ![d] = "none"]
  /\ UNCHANGED <<jcAir, jcStart, jcReg, jcEnded, jcFaults>>

(* Mutant: every advertisement sets it. *)
RefreshAlways ==
  /\ jcOn /\ jcKnown # JcCooldown /\ jcKnown' = JcCooldown
  /\ UNCHANGED <<jcAir, jcDev, jcStart, jcReg, jcEnded, jcData, jcFaults>>

(* Of a controller with a link only the time is set. *)
RefreshConnected ==
  /\ jcOn /\ jcLink /\ jcKnown # JcCooldown /\ jcKnown' = JcCooldown
  /\ UNCHANGED <<jcAir, jcDev, jcStart, jcReg, jcEnded, jcData, jcFaults>>

(* A DeviceDisconnected makes that the next advertisement is taken. *)
HandleDisconnected ==
  /\ jcEvent /\ jcEvent' = FALSE /\ jcKnown' = 0
  /\ UNCHANGED <<jcOn, jcLink, jcDev, jcStart, jcReg, jcEnded, jcData, jcFaults>>

(* That a device waits eight seconds for the supervisor, or to connect     *)
(* (twenty are allowed), is taken as a fault.                              *)
JcTick ==
  /\ jcKnown > 0 /\ jcKnown' = jcKnown - 1
  /\ IF jcStage = "connect" \/ \E d \in JcDevs : jcDev[d] = "offered"
       THEN JcFault ELSE UNCHANGED jcFaults
  /\ UNCHANGED <<jcAir, jcDev, jcStart, jcReg, jcEnded, jcData>>

-----------------------------------------------------------------------------
(* start, in the supervisor's loop *)

TakeOffer(d) ==
  /\ jcStage = "idle" /\ jcDev[d] = "offered"
  /\ jcStage' = "connect" /\ jcCur' = d
  /\ jcDev' = [jcDev EXCEPT ![d] = "starting"]
  /\ UNCHANGED <<jcAir, jcKnown, jcReg, jcEnded, jcData, jcFaults>>

BringupFails == jcStage' = "idle" /\ jcCur' = 0 /\ jcDev' = [jcDev EXCEPT ![jcCur] = "free"]
Onto(stage) == jcStage' = stage /\ UNCHANGED <<jcCur, jcDev>>

(* A step fails for want of a link, or by a fault. *)
Fails == IF jcLink THEN JcFault ELSE UNCHANGED jcFaults
Works == jcLink /\ UNCHANGED jcFaults

EnsureConnected ==
  /\ UNCHANGED <<jcKnown, jcReg, jcEnded, jcData>>
  /\ \/ /\ jcStage = "connect" /\ (jcLink \/ jcOn)
        /\ jcLink' = TRUE /\ Onto("services") /\ UNCHANGED <<jcOn, jcEvent, jcFaults>>
     \/ /\ jcStage = "connect" /\ ~jcLink
        /\ IF jcOn THEN JcFault ELSE UNCHANGED jcFaults
        /\ BringupFails /\ UNCHANGED jcAir
     \/ jcStage = "services" /\ Works /\ Onto("chars") /\ UNCHANGED jcAir
     \/ jcStage = "services" /\ Fails /\ BringupFails /\ JcDrops

(* Tried twenty times over six seconds; in the end the link is dropped. *)
FindRequiredChars ==
  /\ jcStage = "chars" /\ UNCHANGED <<jcKnown, jcReg, jcEnded, jcData>>
  /\ \/ Works /\ Onto("kind") /\ UNCHANGED jcAir
     \/ Fails /\ BringupFails /\ JcDrops

(* The flash may not answer, and the kind stays what the advert said. *)
ResolveKindViaFlash ==
  /\ jcStage = "kind" /\ Onto("subscribe")
  /\ \/ jcLink /\ jcKind' = [jcKind EXCEPT ![jcCur] = JcTrueKind]
     \/ UNCHANGED jcKind
  /\ UNCHANGED <<jcAir, jcKnown, jcReg, jcEnded, jcBias, jcFaults>>

(* No notify property, no subscription: the link stays. *)
SubscribeInput ==
  /\ jcStage = "subscribe" /\ UNCHANGED <<jcAir, jcKnown, jcReg, jcEnded, jcData>>
  /\ \/ Works /\ Onto("enable")
     \/ Fails /\ BringupFails

(* Half a second passes between its two writes, and the stop of a device   *)
(* that had ended is through by then.                                      *)
EnableImuAndMag ==
  /\ jcStage = "enable" /\ (\A d \in JcDevs : jcDev[d] \notin {"ended", "stopping"})
  /\ UNCHANGED <<jcAir, jcKnown, jcReg, jcEnded, jcData>>
  /\ \/ Works /\ Onto("bias")
     \/ Fails /\ BringupFails

(* Mutant: the bias is turned as the advertisement's kind has it. *)
ResolveMagBiasOfAdvert ==
  /\ jcStage = "bias" /\ Onto("stream")
  /\ jcBias' = [jcBias EXCEPT ![jcCur] = "right"]
  /\ UNCHANGED <<jcAir, jcKnown, jcReg, jcEnded, jcKind, jcFaults>>

(* Three tries, none of which is needed. *)
ResolveMagBiasViaFlash ==
  /\ jcStage = "bias" /\ Onto("stream")
  /\ \/ jcLink /\ jcBias' = [jcBias EXCEPT ![jcCur] = jcKind[jcCur]]
     \/ UNCHANGED jcBias
  /\ UNCHANGED <<jcAir, jcKnown, jcReg, jcEnded, jcKind, jcFaults>>

(* A handle that leaves the registry takes the control task with it. *)
Released(dev) == [d \in JcDevs |-> IF d = jcReg THEN "stopping" ELSE dev[d]]

(* The reader is spawned and the device registered in the place of the one *)
(* before, which has the same DeviceId.                                    *)
SpawnReader ==
  /\ jcStage = "stream" /\ UNCHANGED <<jcAir, jcKnown, jcEnded, jcData>>
  /\ \/ /\ jcStage' = "idle" /\ jcCur' = 0 /\ jcReg' = jcCur
        /\ jcDev' = [Released(jcDev) EXCEPT ![jcCur] = "running"] /\ UNCHANGED jcFaults
     \/ Fails /\ BringupFails /\ UNCHANGED jcReg

Bringup ==
  \/ EnsureConnected \/ FindRequiredChars \/ ResolveKindViaFlash \/ SubscribeInput
  \/ EnableImuAndMag \/ ResolveMagBiasViaFlash \/ SpawnReader

-----------------------------------------------------------------------------
(* The reader, its pipeline, and stop *)

(* The notifications end with the link, and the pipeline is told. *)
NotificationsEnd(d) ==
  /\ jcDev[d] = "running" /\ ~jcLink
  /\ jcDev' = [jcDev EXCEPT ![d] = "ended"] /\ jcEnded' = jcEnded \cup {d}
  /\ UNCHANGED <<jcAir, jcKnown, jcStart, jcReg, jcData, jcFaults>>

(* The pipeline removes the entry of its DeviceId; or, its handle dropped  *)
(* before, it may see that first.                                          *)
JcReap(d) ==
  /\ d \in jcEnded /\ jcEnded' = jcEnded \ {d}
  /\ \/ jcReg' = 0 /\ jcDev' = Released(jcDev)
     \/ jcReg # d /\ UNCHANGED <<jcReg, jcDev>>
  /\ UNCHANGED <<jcAir, jcKnown, jcStart, jcData, jcFaults>>

(* The reader is told to stop, or aborted after two seconds, and the link  *)
(* is disconnected, whoever uses it.                                       *)
JcStop(d) ==
  /\ jcDev[d] = "stopping"
  /\ jcDev' = [jcDev EXCEPT ![d] = "free"] /\ JcDrops
  /\ UNCHANGED <<jcKnown, jcStart, jcReg, jcEnded, jcData, jcFaults>>

(* set_led_mask and set_rumble connect a device that has lost its link,    *)
(* before its pipeline is through with it.                                 *)
JcCommand(d) ==
  /\ jcReg = d /\ jcOn /\ ~jcLink
  /\ jcDev[d] \in {"running", "ended"}
  /\ jcLink' = TRUE
  /\ UNCHANGED <<jcOn, jcEvent, jcKnown, jcDev, jcStart, jcReg, jcEnded, jcData, jcFaults>>

JcLoses ==
  /\ jcLink /\ JcFault /\ JcDrops
  /\ UNCHANGED <<jcKnown, jcDev, jcStart, jcReg, jcEnded, jcData>>

JcSwitch ==
  /\ IF jcOn THEN JcFault /\ jcLink' = FALSE /\ jcEvent' = (jcEvent \/ jcLink)
             ELSE UNCHANGED <<jcLink, jcEvent, jcFaults>>
  /\ jcOn' = ~jcOn
  /\ UNCHANGED <<jcKnown, jcDev, jcStart, jcReg, jcEnded, jcData>>

JcDevice(d) == NotificationsEnd(d) \/ JcReap(d) \/ JcStop(d)
JcScanner == HandleDisconnected \/ \E d \in JcDevs, kind \in KindFromAdvert : TryEmit(d, kind)
JcSupervisor == Bringup \/ \E d \in JcDevs : TakeOffer(d)

JcNext ==
  \/ JcScanner \/ RefreshConnected \/ JcTick
  \/ JcSupervisor
  \/ \E d \in JcDevs : JcDevice(d) \/ JcCommand(d)
  \/ JcLoses \/ JcSwitch

(* Everyone is polled and time passes; the link is lost by faults only. *)
JcFairness ==
  /\ WF_jcVars(JcScanner) /\ WF_jcVars(JcTick) /\ WF_jcVars(JcSupervisor)
  /\ \A d \in JcDevs : WF_jcVars(JcDevice(d))

JcSpec == JcInit /\ [][JcNext]_jcVars /\ JcFairness

-----------------------------------------------------------------------------
(* Properties *)

JcRead == jcLink /\ \E d \in JcDevs : jcDev[d] = "running"

(* No device uses the link, and the scanner passes over its controller. *)
JcStranded == jcLink /\ \A d \in JcDevs : jcDev[d] = "free"

(* The bias that is subtracted from a reader's samples was turned to the   *)
(* axes its samples are turned to, though the kind may change between the  *)
(* advertisement and the reports (jc2.rs:736-745, 767-768, 790).           *)
JcAxesAgree ==
  \A d \in JcDevs : jcDev[d] = "running" => jcBias[d] \in {"none", jcKind[d]}

(* A controller that is on ends up being read, through the cooldown, lost  *)
(* links, second devices of the same controller and the disconnects of     *)
(* devices that are stopped late (jc2.rs:891-897, 965-1058); or it is      *)
(* stranded by a bring-up that failed.                                     *)
JcComesBack == jcOn ~> (~jcOn \/ JcRead \/ JcStranded)

=============================================================================
