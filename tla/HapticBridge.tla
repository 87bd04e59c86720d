---------------------------- MODULE HapticBridge ----------------------------
(***************************************************************************)
(* The OSC haptic bridge, crates/osc-haptics/src/listener.rs: one task     *)
(* that turns OSC datagrams into rumble writes, with a rate limit, timed   *)
(* pulses and an idle watchdog, and that starts over with an empty         *)
(* LoopState whenever its configuration is sent again.                     *)
(*                                                                         *)
(* The biased select! looks at the configuration first, then at the        *)
(* socket, then at the tick.  One unit of time is MIN_SEND_GAP; a pulse    *)
(* and the idle timeout are a few units.  Intensities are levels: equal    *)
(* levels are those less than INTENSITY_EPSILON apart.                     *)
(*                                                                         *)
(* The actions of a datagram are applied one after the other, each         *)
(* awaiting the device's control channel, and what the application does    *)
(* meanwhile is seen when they are through.  They take less than a unit of *)
(* time: all of them use the instant at which the datagram was looked at.  *)
(***************************************************************************)
EXTENDS Integers, Sequences, Functions

CONSTANTS
  Macs,         \* the devices
  Addresses,    \* OSC addresses that arrive
  Rules,        \* HapticConfig.rules: a sequence of [address, mac, mode]
  PulseTicks,   \* pulse_ms
  IdleTicks,    \* WATCHDOG_IDLE
  MaxPackets,   \* bound: datagrams
  MaxChanges,   \* bound: times the configuration is sent
  BindMayFail   \* whether the port can be taken by somebody else

ASSUME TicksAssumption == PulseTicks \in Nat \ {0} /\ IdleTicks \in Nat \ {0}
ASSUME BridgeBounds ==
  MaxPackets \in Nat /\ MaxChanges \in Nat /\ BindMayFail \in BOOLEAN

Modes == {"proximity", "pulse"}
ASSUME RulesAssumption ==
  Rules \in Seq([address : Addresses, mac : Macs, mode : Modes])

VARIABLES
  enabled,   \* HapticConfig.enabled, as last sent
  unseen,    \* the bridge has not seen what was sent last
  closed,    \* the configuration's sender is gone
  bridge,    \* where run_bridge is
  sent,      \* LoopState.last_sent, the value
  fresh,     \* LoopState.last_sent, less than MIN_SEND_GAP ago
  pulse,     \* LoopState.pulse_until, as time left
  idle,      \* time since LoopState.last_packet
  silenced,  \* LoopState.idle_silenced
  todo,      \* the actions handle_packet has yet to apply, each at its rule's position
  motor,     \* what each device was last told
  by,        \* history: what last wrote to each device, or that its loop is gone
  packets, changes

loopVars == <<sent, fresh, pulse, idle, silenced>>
bridgeVars == <<enabled, unseen, closed, bridge, loopVars, todo, motor, by, packets, changes>>

None   == -1
Levels == 0 .. 2   \* off; up to a half; above a half
Full   == 2

HapticActions == [mac : Macs, intensity : Levels, pulsed : BOOLEAN]
NoActions == [i \in {} |-> None]

BridgeTypeOK ==
  /\ enabled \in BOOLEAN /\ unseen \in BOOLEAN /\ closed \in BOOLEAN
  /\ bridge \in {"top", "waiting", "serving", "ended"}
  /\ sent \in [Macs -> Levels \cup {None}]
  /\ fresh \in [Macs -> BOOLEAN]
  /\ pulse \in [Macs -> {None} \cup 0 .. PulseTicks]
  /\ idle \in 0 .. IdleTicks
  /\ silenced \in BOOLEAN
  /\ DOMAIN todo \subseteq DOMAIN Rules /\ \A i \in DOMAIN todo : todo[i] \in HapticActions
  /\ motor \in [Macs -> Levels]
  /\ by \in [Macs -> {"off", "live", "pulse", "stray"}]
  /\ packets \in 0 .. MaxPackets /\ changes \in 0 .. MaxChanges

(* LoopState::new *)
NewLoop ==
  /\ sent' = [m \in Macs |-> None]
  /\ fresh' = [m \in Macs |-> FALSE]
  /\ pulse' = [m \in Macs |-> None]
  /\ idle' = 0 /\ silenced' = FALSE

BridgeInit ==
  /\ enabled \in BOOLEAN /\ unseen = FALSE /\ closed = FALSE
  /\ bridge = "top"
  /\ sent = [m \in Macs |-> None] /\ fresh = [m \in Macs |-> FALSE]
  /\ pulse = [m \in Macs |-> None]
  /\ idle = 0 /\ silenced = FALSE /\ todo = NoActions
  /\ motor = [m \in Macs |-> 0] /\ by = [m \in Macs |-> "off"]
  /\ packets = 0 /\ changes = 0

-----------------------------------------------------------------------------
(* What an OSC message does *)

(* apply_mode: the action a rule makes of a value. *)
Action(rule, v) ==
  IF rule.mode = "proximity"
  THEN [mac |-> rule.mac, intensity |-> v, pulsed |-> FALSE]
  ELSE [mac |-> rule.mac, intensity |-> IF v = Full THEN Full ELSE 0, pulsed |-> v = Full]

(* resolve *)
Actions(a, v) ==
  [i \in {j \in DOMAIN Rules : Rules[j].address = a} |-> Action(Rules[i], v)]

(* LoopState::send, the filters: too soon, or unchanged; zero is exempt.   *)
Suppressed(m, v) ==
  sent[m] # None /\ (fresh[m] \/ v = sent[m]) /\ v > 0

(* Mutated form: only live values are recorded. *)
WritePulseUnrecorded(m, v, how) ==
  /\ sent' = IF how = "live" THEN [sent EXCEPT ![m] = v] ELSE sent
  /\ fresh' = [fresh EXCEPT ![m] = TRUE]
  /\ motor' = [motor EXCEPT ![m] = v] /\ by' = [by EXCEPT ![m] = how]

(* LoopState::send, the write. *)
Write(m, v, how) ==
  /\ sent' = [sent EXCEPT ![m] = v] /\ fresh' = [fresh EXCEPT ![m] = TRUE]
  /\ motor' = [motor EXCEPT ![m] = v] /\ by' = [by EXCEPT ![m] = how]

(* apply_action: a pulse is timed and forced through; a live value ends a  *)
(* pending pulse, whether or not it is then written.                       *)
Apply(act) ==
  IF act.pulsed
  THEN pulse' = [pulse EXCEPT ![act.mac] = PulseTicks] /\ Write(act.mac, act.intensity, "pulse")
  ELSE /\ pulse' = [pulse EXCEPT ![act.mac] = None]
       /\ IF Suppressed(act.mac, act.intensity) THEN UNCHANGED <<sent, fresh, motor, by>>
          ELSE Write(act.mac, act.intensity, "live")

(* Forced to zero. *)
Silence(S) ==
  /\ sent' = [m \in Macs |-> IF m \in S THEN 0 ELSE sent[m]]
  /\ fresh' = [m \in Macs |-> m \in S \/ fresh[m]]
  /\ pulse' = [m \in Macs |-> IF m \in S THEN None ELSE pulse[m]]
  /\ motor' = [m \in Macs |-> IF m \in S THEN 0 ELSE motor[m]]
  /\ by' = [m \in Macs |-> IF m \in S THEN "off" ELSE by[m]]

Active == {m \in Macs : sent[m] > 0}
Due    == {m \in Macs : pulse[m] = 0}

-----------------------------------------------------------------------------
(* run_bridge *)

(* Nothing of a datagram is left to do, and the loop selects anew.         *)
Handled == todo = NoActions

(* The configuration is taken up: disabled, or the port cannot be bound,   *)
(* the bridge waits for the next one; otherwise it serves, from scratch.   *)
Enter ==
  /\ bridge = "top"
  /\ unseen' = FALSE
  /\ \/ enabled /\ bridge' = "serving" /\ NewLoop
     \/ /\ ~enabled \/ BindMayFail
        /\ bridge' = "waiting"
        /\ UNCHANGED loopVars
  /\ UNCHANGED <<enabled, closed, todo, motor, by, packets, changes>>

WaitingChanged ==
  /\ bridge = "waiting" /\ (unseen \/ closed)
  /\ bridge' = IF unseen THEN "top" ELSE "ended"
  /\ UNCHANGED <<enabled, unseen, closed, loopVars, todo, motor, by, packets, changes>>

(* serve returns Rebind, and its LoopState is gone. *)
Rebind ==
  /\ bridge = "serving" /\ Handled /\ unseen
  /\ bridge' = "top"
  /\ by' = [m \in Macs |-> IF motor[m] > 0 THEN "stray" ELSE by[m]]
  /\ UNCHANGED <<enabled, unseen, closed, loopVars, todo, motor, packets, changes>>

(* The sender is gone: every motor known to run is silenced. *)
ShutDown ==
  /\ bridge = "serving" /\ Handled /\ closed /\ ~unseen
  /\ bridge' = "ended"
  /\ Silence(Active)
  /\ UNCHANGED <<enabled, unseen, closed, idle, silenced, todo, packets, changes>>

Serving == bridge = "serving" /\ Handled /\ ~unseen /\ ~closed

(* A datagram: a message for a, or (a not an address of any rule) one that *)
(* matches nothing or does not decode.                                     *)
Packet(a, v) ==
  /\ Serving /\ packets < MaxPackets
  /\ packets' = packets + 1
  /\ idle' = 0 /\ silenced' = FALSE
  /\ todo' = Actions(a, v)
  /\ UNCHANGED <<enabled, unseen, closed, bridge, sent, fresh, pulse, motor, by, changes>>

(* The next of its actions, in the order of the rules. *)
HandlePacket == \E i \in DOMAIN todo :
  /\ \A j \in DOMAIN todo : i <= j
  /\ Apply(todo[i])
  /\ todo' = Restrict(todo, DOMAIN todo \ {i})
  /\ UNCHANGED <<enabled, unseen, closed, bridge, idle, silenced, packets, changes>>

(* Mutated form: the watchdog forgets who is active. *)
OnTickPulsesOnly ==
  /\ Serving
  /\ Due # {} \/ (~silenced /\ idle = IdleTicks)
  /\ Silence(Due)
  /\ silenced' = (silenced \/ idle = IdleTicks)
  /\ UNCHANGED <<enabled, unseen, closed, bridge, idle, todo, packets, changes>>

(* on_tick: pulses that are over are ended; once nothing has arrived for   *)
(* IdleTicks, everything is.                                               *)
OnTick ==
  /\ Serving
  /\ Due # {} \/ (~silenced /\ idle = IdleTicks)
  /\ Silence(Due \cup (IF ~silenced /\ idle = IdleTicks THEN Active ELSE {}))
  /\ silenced' = (silenced \/ idle = IdleTicks)
  /\ UNCHANGED <<enabled, unseen, closed, bridge, idle, todo, packets, changes>>

(* MIN_SEND_GAP passes. *)
Time ==
  /\ Handled
  /\ \/ idle < IdleTicks
     \/ \E m \in Macs : fresh[m] \/ pulse[m] > 0
  /\ idle' = IF idle < IdleTicks THEN idle + 1 ELSE idle
  /\ fresh' = [m \in Macs |-> FALSE]
  /\ pulse' = [m \in Macs |-> IF pulse[m] > 0 THEN pulse[m] - 1 ELSE pulse[m]]
  /\ UNCHANGED <<enabled, unseen, closed, bridge, sent, silenced, todo, motor, by, packets, changes>>

-----------------------------------------------------------------------------
(* The application *)

SendConfig(b) ==
  /\ ~closed /\ changes < MaxChanges
  /\ changes' = changes + 1
  /\ enabled' = b /\ unseen' = TRUE
  /\ UNCHANGED <<closed, bridge, loopVars, todo, motor, by, packets>>

Close ==
  /\ ~closed /\ closed' = TRUE
  /\ UNCHANGED <<enabled, unseen, bridge, loopVars, todo, motor, by, packets, changes>>

Bridge == Enter \/ WaitingChanged \/ Rebind \/ ShutDown \/ HandlePacket \/ OnTick

BridgeNext == \/ Bridge
        \/ \E a \in Addresses, v \in Levels : Packet(a, v)
        \/ Time
        \/ \E b \in BOOLEAN : SendConfig(b)
        \/ Close

BridgeSpec == BridgeInit /\ [][BridgeNext]_bridgeVars

(* tokio runs the task; the port becomes free in the end.                  *)
BridgeFairSpec == BridgeSpec /\ WF_bridgeVars(Bridge) /\ WF_bridgeVars(Time)

-----------------------------------------------------------------------------
(* Properties *)

(* The loop knows of every motor it turned on what it is doing, so that    *)
(* the watchdog and the shutdown reach it; the motors of a loop that is    *)
(* gone excepted (listener.rs:244-245, 267-280).                           *)
KnowsRunning ==
  bridge = "serving" =>
    \A m \in Macs : motor[m] > 0 /\ by[m] # "stray" => sent[m] = motor[m]

(* No motor of a loop that still serves or was shut down sticks: once      *)
(* datagrams cease they are all off (listener.rs:30-32, 153-156, 267-280). *)
OwnMotorsStop == <>[](\A m \in Macs : by[m] # "stray" => motor[m] = 0)

(* Once a configuration that disables the bridge was taken up, no motor is *)
(* turned on or up, whatever is in flight (listener.rs:74-82, 152-158).    *)
DisabledDrivesNothing ==
  [][~enabled /\ ~unseen => \A m \in Macs : motor'[m] <= motor[m]]_bridgeVars

(* What listener.rs:30-31 says: if nothing arrives, every active motor is  *)
(* forced off.                                                             *)
MotorsStop == <>[](\A m \in Macs : motor[m] = 0)
=============================================================================
