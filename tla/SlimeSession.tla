---------------------------- MODULE SlimeSession ----------------------------
(***************************************************************************)
(* One tracker's session with the SlimeVR server: the client's two tasks   *)
(* (SlimeClient), the pipeline task that sends through it                  *)
(* (crates/core/src/pipeline.rs, handle_event; crates/core/src/            *)
(* lazy_slime.rs), a network that loses and delays datagrams, and a server *)
(* that may crash and come back with nothing remembered.                   *)
(*                                                                         *)
(* The pipeline learns about the connection only by loading the confirmed  *)
(* flag at the start of each device event.  What it has to say once per    *)
(* handshake (SENSOR_INFO, then FEATURE_FLAGS) is therefore tied to what   *)
(* it happened to observe.                                                 *)
(*                                                                         *)
(* The server is not in this repository.  It is modelled from what the     *)
(* code relies on: it learns a tracker from its handshake, a sensor from   *)
(* SENSOR_INFO, answers FEATURE_FLAGS with its own, and PINGs (its reply   *)
(* to a handshake is, to the client, just another datagram).               *)
(***************************************************************************)
EXTENDS SlimeClient, FiniteSets

CONSTANTS
  Events,     \* the device events that occur, a subset of EventKinds
  HasMag,     \* whether the device has a magnetometer
  MagSettings,   \* the magnetometer settings the user chooses, a subset of BOOLEAN
  PauseSettings, \* the pause settings the user chooses, a subset of BOOLEAN
  BundleSupport, \* what servers say of BUNDLE, a subset of BOOLEAN
  MaxCrashes, \* bound: server crashes
  MaxFaults   \* bound: lost datagrams and failing sends

(* ChannelInfo as far as the session can tell: "quiet" is Connected or an  *)
(* empty batch, "data" samples or a battery level, "reset" a reset button, *)
(* "gone" Disconnected.                                                    *)
EventKinds == {"quiet", "data", "reset", "gone"}

ASSUME EventsAssumption == Events \subseteq EventKinds
ASSUME HasMagAssumption == HasMag \in BOOLEAN
ASSUME SettingsAssumption ==
  /\ MagSettings \subseteq BOOLEAN /\ PauseSettings \subseteq BOOLEAN
  /\ BundleSupport \subseteq BOOLEAN
ASSUME BoundsAssumption == MaxCrashes \in Nat /\ MaxFaults \in Nat

VARIABLES
  opened,     \* LazySlime holds a client; its tasks run
  pl,         \* where the pipeline task is
  evt,        \* the event it is handling
  infoSent,   \* sensor_info_sent
  cfgSent,    \* last_sensor_mag_config
  flagsSent,  \* feature_flags_sent
  magOn,      \* PipelineConfig.magnetometer_enabled, set live by the UI
  paused,     \* AppState.paused, set by the UI
  plRise,     \* history: which confirmation the pipeline observed last
  flagsFor,   \* history: the confirmation it last sent FEATURE_FLAGS in
  toServer,   \* datagrams under way to the server, by kind
  toClient,   \* datagrams under way to the client, by kind
  srvUp, srvKnown, srvSensor,  \* server: running, knows the tracker, its sensor
  srvBundle,  \* server: supports BUNDLE (may change at a restart)
  crashes, faults

plVars  == <<pl, evt, infoSent, cfgSent, flagsSent, plRise, flagsFor>>
uiVars  == <<magOn, paused>>
netVars == <<toServer, toClient>>
srvVars == <<srvUp, srvKnown, srvSensor, srvBundle>>
bounds  == <<crashes, faults>>
sessionVars == <<clientVars, opened, plVars, uiVars, netVars, srvVars, bounds>>

None == "none"
MagConfigs == {"absent", "on", "off"}
ToServer == {"handshake", "info", "flags"}
ToClient == {"ping", "flagsOn", "flagsOff"}

SessionTypeOK ==
  /\ opened \in BOOLEAN
  /\ pl \in {"idle", "gate", "session", "data", "exited"}
  /\ evt \in EventKinds
  /\ infoSent \in BOOLEAN /\ flagsSent \in BOOLEAN
  /\ cfgSent \in MagConfigs \cup {None} /\ (infoSent => cfgSent \in MagConfigs)
  /\ magOn \in BOOLEAN /\ paused \in BOOLEAN
  /\ plRise \in Nat /\ flagsFor \in Nat
  /\ toServer \subseteq ToServer /\ toClient \subseteq ToClient
  /\ srvUp \in BOOLEAN /\ srvKnown \in BOOLEAN
  /\ srvSensor \in BOOLEAN /\ srvBundle \in BOOLEAN
  /\ crashes \in 0 .. MaxCrashes /\ faults \in 0 .. MaxFaults

SessionInit ==
  /\ Init
  /\ opened = FALSE
  /\ pl = "idle" /\ evt = "quiet"
  /\ infoSent = FALSE /\ cfgSent = None /\ flagsSent = FALSE
  /\ magOn = FALSE /\ paused = FALSE
  /\ plRise = 0 /\ flagsFor = 0
  /\ toServer = {} /\ toClient = {}
  /\ srvUp = TRUE /\ srvKnown = FALSE /\ srvSensor = FALSE /\ srvBundle \in BundleSupport
  /\ crashes = 0 /\ faults = 0

Fault == faults < MaxFaults /\ faults' = faults + 1

-----------------------------------------------------------------------------
(* The client's tasks, with their datagrams *)

Recv(m) ==
  /\ opened
  /\ m \in toClient
  /\ toClient' = toClient \ {m}
  /\ RxRecv(m)
  /\ UNCHANGED <<opened, plVars, uiVars, toServer, srvVars, bounds>>

(* Mutated form: the watchdog never sends the handshake again. *)
WatchdogSilent ==
  /\ opened /\ WdStep
  /\ UNCHANGED <<opened, plVars, uiVars, netVars, srvVars, bounds>>

(* The watchdog re-sends the handshake when it finds the flag cleared.     *)
Watchdog ==
  /\ opened /\ WdStep
  /\ toServer' = IF wd = "check" /\ ~confirmed THEN toServer \cup {"handshake"} ELSE toServer
  /\ UNCHANGED <<opened, plVars, uiVars, toClient, srvVars, bounds>>

Receiver ==
  /\ opened /\ RxStep
  /\ UNCHANGED <<opened, plVars, uiVars, netVars, srvVars, bounds>>

Time ==
  /\ opened /\ Tick
  /\ UNCHANGED <<opened, plVars, uiVars, netVars, srvVars, bounds>>

-----------------------------------------------------------------------------
(* The pipeline task *)

(* Mutated form: what was said is forgotten on each event. *)
ObserveForgets ==
  /\ infoSent' = FALSE /\ cfgSent' = None /\ flagsSent' = FALSE
  /\ IF confirmed
     THEN pl' = "session" /\ plRise' = rises
     ELSE pl' = "data" /\ UNCHANGED plRise

(* Mutated form: only FEATURE_FLAGS counts as said. *)
ObserveKeepsFlags ==
  IF confirmed
  THEN /\ pl' = "session"
       /\ plRise' = rises
       /\ UNCHANGED <<infoSent, cfgSent, flagsSent>>
  ELSE /\ pl' = "data"
       /\ infoSent' = FALSE /\ cfgSent' = None
       /\ UNCHANGED <<plRise, flagsSent>>

(* handshake_confirmed is loaded, once per event.  Unconfirmed: what was   *)
(* said to the server no longer counts.                                    *)
Observe ==
  IF confirmed
  THEN /\ pl' = "session"
       /\ plRise' = rises
       /\ UNCHANGED <<infoSent, cfgSent, flagsSent>>
  ELSE /\ pl' = "data"
       /\ infoSent' = FALSE /\ cfgSent' = None /\ flagsSent' = FALSE
       /\ UNCHANGED plRise

(* A device event is handled on an open connection. *)
Take(e) ==
  /\ pl = "idle" /\ opened
  /\ evt' = e
  /\ Observe
  /\ UNCHANGED <<clientVars, opened, flagsFor, uiVars, netVars, srvVars, bounds>>

(* LazySlime connects on the first event and sends the initial handshake;  *)
(* a failing connect drops the event, a Disconnected included.             *)
Connect(e) ==
  /\ pl = "idle" /\ ~opened
  /\ \/ /\ opened' = TRUE
        /\ evt' = e /\ pl' = "gate"
        /\ toServer' = toServer \cup {"handshake"}
        /\ UNCHANGED faults
     \/ /\ Fault
        /\ UNCHANGED <<opened, evt, pl, toServer>>
  /\ UNCHANGED <<clientVars, infoSent, cfgSent, flagsSent, plRise, flagsFor,
                 uiVars, toClient, srvVars, crashes>>

(* The event that opened the connection goes on to load the flag. *)
Gate ==
  /\ pl = "gate"
  /\ Observe
  /\ UNCHANGED <<clientVars, opened, evt, flagsFor, uiVars, netVars, srvVars, bounds>>

(* sensor_mag_config *)
MagConfig == IF ~HasMag THEN "absent" ELSE IF magOn THEN "on" ELSE "off"

(* Mutated form: only a changed magnetometer setting is announced. *)
NeedInfoOnChange == cfgSent # None /\ cfgSent # MagConfig

NeedInfo == ~infoSent \/ cfgSent # MagConfig

(* The confirmed branch: SENSOR_INFO if it is due, then FEATURE_FLAGS if   *)
(* it was not sent yet.  Either send may fail; a failure is logged and     *)
(* retried on a later event.                                               *)
Announce ==
  /\ pl = "session"
  /\ \E infoOk, flagsOk \in BOOLEAN :
       LET info  == NeedInfo /\ infoOk
           flagz == infoSent' /\ ~flagsSent /\ flagsOk
       IN  /\ infoSent' = (infoSent \/ info)
           /\ cfgSent' = IF info THEN MagConfig ELSE cfgSent
           /\ flagsSent' = (flagsSent \/ flagz)
           /\ flagsFor' = IF flagz THEN plRise ELSE flagsFor
           /\ toServer' = toServer \cup (IF info THEN {"info"} ELSE {})
                                   \cup (IF flagz THEN {"flags"} ELSE {})
           /\ IF infoOk /\ flagsOk THEN UNCHANGED faults ELSE Fault
  /\ pl' = "data"
  /\ UNCHANGED <<clientVars, opened, evt, plRise, uiVars, toClient, srvVars, crashes>>

(* The event itself.  Samples and battery levels are held back while       *)
(* paused, resets are not; a send that fails ends the pipeline, and so     *)
(* does Disconnected.                                                      *)
Forward ==
  /\ pl = "data"
  /\ \/ evt # "gone" /\ pl' = "idle" /\ UNCHANGED faults
     \/ evt = "data" /\ ~paused /\ Fault /\ pl' = "exited"
     \/ evt = "reset" /\ Fault /\ pl' = "exited"
     \/ evt = "gone" /\ pl' = "exited" /\ UNCHANGED faults
  /\ evt' = "quiet"
  /\ UNCHANGED <<clientVars, opened, infoSent, cfgSent, flagsSent, plRise, flagsFor,
                 uiVars, netVars, srvVars, crashes>>

-----------------------------------------------------------------------------
(* The user *)

SetMag(b) ==
  /\ magOn # b /\ magOn' = b
  /\ UNCHANGED <<clientVars, opened, plVars, paused, netVars, srvVars, bounds>>

SetPaused(b) ==
  /\ paused # b /\ paused' = b
  /\ UNCHANGED <<clientVars, opened, plVars, magOn, netVars, srvVars, bounds>>

-----------------------------------------------------------------------------
(* The network and the server (not in this repository) *)

Lose(m) ==
  /\ m \in toServer \cup toClient
  /\ Fault
  /\ \/ m \in toServer /\ toServer' = toServer \ {m} /\ UNCHANGED toClient
     \/ m \in toClient /\ toClient' = toClient \ {m} /\ UNCHANGED toServer
  /\ UNCHANGED <<clientVars, opened, plVars, uiVars, srvVars, crashes>>

(* A datagram arrives at the server's port; it is lost if nobody listens,  *)
(* ignored if the tracker is unknown.                                      *)
ServerHandle(m) ==
  /\ m \in toServer
  /\ toServer' = toServer \ {m}
  /\ srvKnown' = (srvKnown \/ (srvUp /\ m = "handshake"))
  /\ srvSensor' = (srvSensor \/ (srvKnown /\ m = "info"))
  /\ toClient' = toClient \cup
       (IF srvUp /\ m = "handshake" THEN {"ping"}
        ELSE IF srvKnown /\ m = "flags" THEN {IF srvBundle THEN "flagsOn" ELSE "flagsOff"}
        ELSE {})
  /\ UNCHANGED <<clientVars, opened, plVars, uiVars, srvUp, srvBundle, bounds>>

(* A PING; bound: only once everything sent before has arrived.            *)
ServerPing ==
  /\ srvKnown
  /\ toClient = {}
  /\ toClient' = {"ping"}
  /\ UNCHANGED <<clientVars, opened, plVars, uiVars, toServer, srvVars, bounds>>

ServerCrash ==
  /\ srvUp /\ crashes < MaxCrashes
  /\ crashes' = crashes + 1
  /\ srvUp' = FALSE /\ srvKnown' = FALSE /\ srvSensor' = FALSE
  /\ UNCHANGED <<clientVars, opened, plVars, uiVars, netVars, srvBundle, faults>>

ServerStart ==
  /\ ~srvUp /\ srvUp' = TRUE
  /\ srvBundle' \in BundleSupport
  /\ UNCHANGED <<clientVars, opened, plVars, uiVars, netVars, srvKnown, srvSensor, bounds>>

Pipeline == (\E e \in Events : Take(e) \/ Connect(e)) \/ Gate \/ Announce \/ Forward
User     == (\E b \in MagSettings : SetMag(b)) \/ (\E b \in PauseSettings : SetPaused(b))
Network  == \E m \in ToServer \cup ToClient : Lose(m)
Server   == (\E m \in ToServer : ServerHandle(m)) \/ ServerPing \/ ServerCrash \/ ServerStart

SessionNext ==
  \/ (\E m \in ToClient : Recv(m)) \/ Receiver \/ Watchdog \/ Time
  \/ Pipeline \/ User \/ Network \/ Server

SessionSpec == SessionInit /\ [][SessionNext]_sessionVars

(***************************************************************************)
(* For liveness, time is what it is on a machine that is not overloaded:   *)
(* half a second passes only when the client's tasks are at rest and       *)
(* everything sent has arrived, and a server that knows the tracker PINGs  *)
(* it often enough that the silence stays below the timeout                *)
(* (client.rs:595-596: one PING a second).  tokio runs the tasks, the      *)
(* device keeps streaming and the socket buffers are FIFO, so no kind of   *)
(* datagram is overtaken for ever.                                         *)
(***************************************************************************)
PromptTime ==
  /\ Quiet /\ toServer = {} /\ toClient = {}
  /\ Time
  /\ srvKnown => (Lapsed(age') => Lapsed(age))

PromptNextSession ==
  \/ (\E m \in ToClient : Recv(m)) \/ Receiver \/ Watchdog \/ PromptTime
  \/ Pipeline \/ User \/ Network \/ Server

PromptSession == SessionInit /\ [][PromptNextSession]_sessionVars

Fairness ==
  /\ WF_sessionVars(Receiver) /\ WF_sessionVars(Watchdog)
  /\ WF_sessionVars(PromptTime)
  /\ \A m \in ToClient : SF_sessionVars(Recv(m))
  /\ WF_sessionVars(\E e \in Events : Take(e) \/ Connect(e))
  /\ WF_sessionVars(Gate) /\ WF_sessionVars(Announce) /\ WF_sessionVars(Forward)
  /\ \A m \in ToServer : WF_sessionVars(ServerHandle(m))
  /\ WF_sessionVars(ServerPing) /\ WF_sessionVars(ServerStart)

LiveSpec == PromptSession /\ Fairness

-----------------------------------------------------------------------------
(* Properties *)

(* FEATURE_FLAGS goes out at most once per confirmed handshake, although   *)
(* the pipeline samples the confirmed flag while the watchdog and the      *)
(* receive loop flip it (pipeline.rs:590-594, 606-625).                    *)
FlagsAtMostOncePerHandshake ==
  [][flagsSent' /\ ~flagsSent => plRise > flagsFor]_sessionVars

(* The server is told of the sensor before it is told of our flags, and    *)
(* BUNDLE is only switched on by a server that heard our flags             *)
(* (pipeline.rs:596-613, PROTOCOL.md:128).                                 *)
AnnouncedInOrder ==
  /\ flagsSent => infoSent /\ flagsFor > 0
  /\ bundle => flagsFor > 0

(* The connection comes back: whatever crash or loss came before, from     *)
(* some point on the handshake stays confirmed (client.rs:575-632).        *)
Reconnects == <>[]confirmed

(* The first session settles: unless the server crashes or something is    *)
(* lost, the server gets to know the sensor, and the hot path uses BUNDLE  *)
(* exactly if the server supports it (pipeline.rs:596-625,                 *)
(* PROTOCOL.md:141-148).                                                   *)
Settles == <>[](crashes + faults > 0 \/ (srvSensor /\ bundle = srvBundle))

(* What pipeline.rs:606-612 says: FEATURE_FLAGS is advertised once per     *)
(* confirmed handshake, so that the server's reply lifts us off the        *)
(* two-send fallback.  An event that finds the flag set again has not seen *)
(* the handshake in between, and nothing is sent in the new session.       *)
FlagsOncePerHandshake == pl = "data" /\ flagsSent => flagsFor = plRise

=============================================================================
