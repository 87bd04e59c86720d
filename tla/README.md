# everything-imu in TLA+

`everything-imu` reads motion controllers, phones and consoles, fuses their IMU
samples and presents each device to a SlimeVR server as a UDP tracker; it also
turns VRChat's OSC messages into rumble.  This directory models the parts of it
that run concurrently, are told things out of order, lose what they were told,
or decode what others lay out; it checks them with TLC and, with TLAPS, proves
nearly every safety property that TLC checks for every value of the constants.
Line numbers are those of the repository's sources.

## 1. The system

```
 factories ──(meta, Device)──> Supervisor ──register_device──> AppState.devices
   │ one per transport             │ control task                   │ DeviceHandle: channels to ...
   │                               v                                v
 RemoteHub, Wii, UDP, HID, BLE ──ChannelInfo──> Pipeline (one task per device)
                                             │ LazySlime
                                             v
                              SlimeClient (receive_loop, handshake_watchdog) <──UDP──> server
 VRChat ──OSC──> haptic bridge ──set_rumble──> AppState ──DeviceControl──> device
 UI ──commands──> AppState (live config, calibration, pause, reset) and the database
 AppState ──events──> window (EventBridge, stores)
```

| Component | State | What is hard | What makes it correct | Modules |
|---|---|---|---|---|
| SlimeVR client (`slime-tracker/client.rs`) | confirmed flag, bundle bit, last inbound, reset counter, broadcast | two tasks, four atomics, no lock; decisions from stale loads | counter and events exact; every reset has its cause | SlimeClient |
| Pipeline and `LazySlime` (`core/pipeline.rs`, `lazy_slime.rs`) | what was announced, paused | learns of the connection by sampling a flag | order of announcements; flags once per handshake; BUNDLE used when offered | SlimeSession |
| Wire protocol (`slime-proto`, `client.rs`) | shared sequence number | number taken and datagram sent in separate steps, by several tasks | an acceleration meets its own rotation | WireOrder, WireLayouts |
| Clock and filter of a pipeline (`pipeline.rs`, `imu-fusion`) | time step, bias, reference field | bursts, silences, lost reports; disturbed fields; short sessions | step settles at the true rate; a learned bias is kept; heading follows the field | SampleClock, Fusion, VqfField |
| Registry and supervisor (`core/app_state.rs`, `supervisor.rs`) | map DeviceId → handle; the channel all factories share | lock released between evict and insert, while `restart_synthetic` adds supervisors that register the same devices; tasks that remove themselves; starts that hold up every factory | one entry per MAC; nothing forgotten; starts in order, waits bounded | DeviceRegistry, DeviceDirectory, DiscoveryChannel |
| Live configuration (`app_state.rs`, `commands.rs`) | `PipelineConfig` in a watch, settings in the database | read-modify-write under a read lock, registration between | live = stored, but for named interleavings | LiveConfig |
| Calibration session (panel, `commands.rs`, `app_state.rs`, `pipeline.rs`) | phase, three watch channels, buffer | single-slot channels, closed panels, partial failure | samples of one session only | MagCalibration |
| OSC haptic bridge (`osc-haptics`) | last values, pulses, idle timer | rate limit, timed pulses, restarts | every motor turned on is turned off | HapticBridge |
| Remote hub (`device-remote`) | routes, one rumble target per hub, loss statistics | reconnects, late datagrams, devices that outlive routes | rumble follows the hub; a tracker comes back; losses are counted | RemoteHub, RemoteLoss |
| Wii forwarder and companion (`device-wii`, `companions/wii`) | routes and rumble by address; one record per frame | overlapping connections; TCP splits; modes that change under way | tables kept; neither side waits for ever | WiiForwarder, WiiConsole |
| 3DS and Vita (`device-3ds`, `device-vita`) | a route per source address | eviction by silence, full channels | a silent console's pipeline is told | UdpForwarder |
| HID controllers (`device-joycon`, `-dualsense`, `-psmove`, `-deck`, `-steam-controller`, `-ds3`) | known paths, reader threads, output thread, SPI blocks | pads that come and go between scans; threads that end; beats racing a stop | present pads are offered, never read twice; an end is told; a stopped pad is dark | HidScan, HidReader, HidOutput, SpiCalibration |
| Joy-Con 2 (`jc2.rs`) | pending, connected, cooldown, one link per controller | devices share a link; bring-up fails half way; kind changes | the controller comes back; bias and samples use the same axes | JoyCon2 |
| HOPX, Tesla (`device-hopx`, `device-tesla`) | parser's buffer; tokens and backoff | notifications split anywhere; single-use tokens | records whole and in order; the stream comes back | HopxSource, RecordStream, TeslaSource |
| Reset buttons (`device-traits/reset.rs`) | debounce and press times | two buttons, one debounce | a reset answers a press of its own | ResetButtons |
| Window (`supervisor_boot.rs`, `tracker_emitter.rs`, `EventBridge.tsx`, stores) | devices and trackers shown | events, calls and answers overtake each other; a lagging broadcast drops | trackers shown are those registered | UiEvents |
| Mathematics (`imu-math`), persistence, boot, tray, logging, updater, CLI, views | – | floating point, or wiring and I/O | – | – |

`PROJECT.json` lists every component with its sources and status, and under
"hazards" what is hard to test, at its line.

## 2. Modules

Each component has a module of its own; its variables and actions carry the
code's names where TLA+ allows, the rest a prefix (`wii`, `jc`, ...) because
several modules are checked in one run.

**SlimeClient.**  `receive_loop` and `handshake_watchdog`: every access to a
shared atomic is one action (`RxRecv`, `RxSwap`, `RxLoad`, `RxEmit`, `RxHandle`;
`WdLoad`, `WdDecide`, `WdReset`, `WdClearBundle`, `WdCount`, `WdEmit`,
`WdCheck`), and so is every reading of the clock: `receive_loop` reads it before
it stores (`RxRecv`, `RxStore`), the watchdog after it has loaded (`WdLoad`,
`WdClock`).  What was read grows old with each tick (`rxAge`, `wdAge`).  `Tick` is
half a second.  Times are ages, saturated just above the timeout; the wall clock
is taken to go forward at the pace of the ticks.  `rises`, `falls`, `ups`,
`downs`, `lapses`, `stalls` are history: a stall is a reset decided on a stamp that was
out of date by the time the clock was read.

**SlimeSession** (EXTENDS SlimeClient).  The client composed with one pipeline
task (`Take`, `Connect`, `Gate`, `Observe`, `Announce`, `Forward`), the user, a
network that loses and reorders, and a server that may crash and forget.  The
server is external and known only by what the code relies on: a handshake makes
it know the tracker, SENSOR_INFO the sensor, FEATURE_FLAGS are answered.

**WireOrder.**  Pipeline, watchdog and the user's resets take numbers of one
counter and send in a later step (`SendRotationAndAccel`, `SendAcceleration`,
`SendBetween`, `SendHandshake`, `RequestReset`, `SendPacket`); the network delays, repeats
and loses, the server drops what is not newer.  Bundles are one datagram.

**WireLayouts.**  Every decoder and encoder of the crates as a function from
field names to byte positions, for every length and every claim the message
makes of its own contents.  Values, and refusals by content (markers, ids,
UTF-8, checksums), are left out.

**SampleClock, Fusion, VqfField.**  `calibrate_rate`, the hardware clock's step
and `corrected_timestep` with times scaled to small integers; which bias a
session seeds, estimates and stores; and when VQF takes the magnetic field for
disturbed, adopts a new one and corrects the heading.  The filters' arithmetic
is not modelled; of numbers only what decisions tell apart is kept.

**DeviceRegistry**, refining **DeviceDirectory**.  Each discovery is a new
*incarnation*, found by one supervisor (`finder`).  Supervisor 0 is the
application's; each call of `restart_synthetic` shuts the registered devices down
(`Drain`, `DrainStop`, `DrainDone`) and then starts one more (`RestartSynthetic`)
beside those there are, all of which find synthetic devices of the same DeviceIds.
`Discover`, `Start`, `Evict`, `Spawn`, `Insert` are a
supervisor between lock releases, so two may be at any pair of them; `DeviceEnds`, `PipelineDisconnected`,
`PipelineFails`, `PipelineStops`, `Reap`, `AbortLands` the pipeline task;
`ControlEnds` the control task.
`held` says where an incarnation's `DeviceHandle` is, since dropping it is what
ends the other tasks.  DeviceDirectory is the abstract promise: arrivals
replace what has the same MAC, departures only remove, and nothing older *of the
same source* returns.  Between sources nothing is promised: an older incarnation
of one supervisor may replace a newer one of another.

**DiscoveryChannel.**  One supervisor's channel of 16 places that all its factories' loops share
(`Offer`, and `FillPlace` for a loop that had to wait) and the supervisor empties
one start at a time (`TakeDevice`, `EndStart`).  tokio's channel is external: a
free place goes to whoever waited longest, and who got one fills it when it is
polled, so that two may fill theirs in the other order.  What a registration
does is DeviceRegistry's; here a start only takes time and ends.

**LiveConfig.**  The commands as the sequences of settings they store and
setters they call, each setter in two steps (copy, put back), and registration
reading the settings one by one before it inserts.

**MagCalibration.**  The panel (`Start`, `Poll`, `Finish`, `Cancel`, `Reopen`), the
commands (`TakeResult`, `GiveUp`, `Store`, `StoreEnabled`, `Apply`, `Clear`,
`ApplyClear`) and the pipeline (`Collect`, `HandleMagCalCmd`, `PipelineEnds`).  A
watch channel is its last value and whether it was seen; a calibration is the
set of sessions its samples are of.

**HapticBridge.**  The bridge's one task (`Enter`, `WaitingChanged`, `Rebind`,
`Packet`, `HandlePacket`, `OnTick`, `ShutDown`), time in units of `MIN_SEND_GAP`.
A datagram's actions are applied one at a time (`todo`), since each awaits a
device and the application may send a new configuration, or drop the bridge's,
in between.  `Suppressed`, `Write`, `Apply`, `HapticActions` are `LoopState::send`
and the modes.

**RemoteHub, RemoteLoss.**  The hub's receive loop (`Announce`, `Event`, `Remove`,
`Hello`, `Sweep`) and its devices (`Register`, `Read`, `RouteClosed`, `Reap`,
`Leave`, `StopDriver`); `LossStats` over numbers that wrap.

**WiiForwarder, WiiConsole.**  The handlers of one console, which share its
routes and rumble bits by address, step by step between awaits; and the
companion's loop against one handler over a stream whose segments a read takes
in any portions.

**UdpForwarder.**  Both listeners, told apart by `udpKind` (what an error or a
malformed datagram does, and how long a silence may be).

**HidScan, HidReader, HidOutput.**  One enumerate loop, one reader and one
output path, with a variable that says which driver a behaviour is about; where
the drivers differ, they have actions of their own.

**HopxSource.**  The notifications of one tracker and the parser's loop, one pass
of it a step (`Feed`, `DrainChunks`): `DrainFrom` skips to a marker, `DrainAll`
empties the buffer where there is none, and a payload may hold either marker.
It refines **RecordStream**: records come out one by one, whole and in order, none
before its last byte was sent, all before more bytes are read.

**SpiCalibration, ResetButtons, JoyCon2, TeslaSource, UiEvents** follow the files
named above; each begins with what it takes as given.

**MC modules.**  `MCDeviceRegistry` is DeviceRegistry with the behaviours of two
kinds worth their states: one controller with one shutdown (`OneShutdown`), or
synthetic devices of one DeviceId (`OneDevice`).  `MCCore`, `MCSafety`, `MCNetwork` host several modules in one
specification.  The modules share no variable; `source`, chosen initially and
constant, says whose steps a behaviour has, and the others stay at their initial
states.  State spaces add up instead of multiplying.  Fairness is guarded with
the source (`WF_v(source = s /\ A)`): unguarded, a behaviour of another source
would keep A enabled and never take it, so it would be excluded as unfair, and
every liveness property would hold of nothing.

## 3. Runs

| Run | Instance | Shows |
|---|---|---|
| `core` | MCCore, 13 modules | client: events exact, at most three resets to a silence and one to a stall; haptics: the loop knows its motors and stops them; calibration: no mixing; clock settles; learned bias kept; heading and trackers follow; HID pads offered, read once, ends told; a stopped PS Move dark; Joy-Con 2 comes back, axes agree; HOPX refines RecordStream; Tesla streams |
| `safety` | MCSafety, 9 modules | sensor before flags before BUNDLE; flags once per handshake; an acceleration meets its rotation; fields inside the message and apart, read as written; live = stored; a loop waits for one start of each loop at most, and its finds are started in order; Wii tables kept; losses counted; SPI calibration resolved; a reset answers a press |
| `session_live` | SlimeSession, one crash, one fault | the handshake is confirmed again for good; an undisturbed session settles |
| `registry` | MCDeviceRegistry: one device found three times, a controller under 2 serials with one shutdown, or a synthetic one by up to three supervisors; one fault | one entry per MAC; refines DeviceDirectory; what left is stopped |
| `network` | MCNetwork, 3 modules | one rumble target per hub; rumble follows; the tracker comes back; the Wii console is answered; a silent UDP console's pipeline is told |
| `session_flags` | one crash | *violated*, §6.1 |
| `registry_ghost` | one device | *violated*, §6.2 |
| `haptics_rebind` | one device, one datagram, one configuration | *violated*, §6.3 |
| `magcal_stale` | two sessions | *violated*, §6.4 |
| `psmove_blob` | all layouts | *violated*, §6.5 |
| `wii_gyro` | one console | *violated*, §6.6 |
| `ui_mirror` | two devices | *violated*, §6.7 |

Each property of a passing run has a mutant in `PROJECT.json`: a changed
definition under which the run finds the property violated.

**Bounds, and why they suffice.**
*Client*: a timeout of two ticks makes an age fresh, old or lapsed; a second
silence meets decisions left from the first, and the proof covers any number of
both; `core` has one silence and one stall, which reach the bound together.
*Session* (safety): the properties relate two consecutive handshakes, which one
disturbance (a silence, a stall, a loss or failed send, the magnetometer setting
or the pause switched) separates: `OneDisturbance`.  At most two kinds of datagrams are
under way, one of them to the client (`FewUnderWay`), so that a datagram can
overtake another and cross a PING, and a silence's second and third reset are left
to `core` (`OneReset`); the proofs of both session properties hold without any
of this, and `session_live` has none of the constraints.
`MaxLapses` 6 there is what a crash and a loss can cause at three resets each.
*Order*: four numbers hold a rotation, its acceleration, one datagram of
another task and the next rotation.
*Layouts*: lengths 0..130 go beyond the longest fixed layout; the claims are
0, 1, the sizes around each variable part's boundary and one above a byte.
*Settings*: two callers with two commands interleave with one registration; one
write may fail.
*Wii*: two handlers overlap, two devices replace each other; a channel of one
is full at once.  The properties speak of one controller at a time.  (One
controller id in TLC; the proof has any number.)
*Loss*: numbers modulo 5, nine sent, two under way: two wraps, with reordering
over the wrap.
*Haptics*: a pulse of two and an idle time of three units let a pulse end
before, at and after the watchdog.  *Calibration*: a result of session 1, a
command of session 2 overwritten by one of session 3.
*Registry*: the incarnation being registered, the one it replaces, and one
replaced before that still acts; or three of one DeviceId, each being inserted by
a supervisor of its own at the same time.  Devices of different MACs share
nothing but a supervisor's time.
*Channel*: two places, three loops and three finds each: all loops wait at once,
two places given are filled in the other order, and the bound on the wait is
reached.  (One place to a channel would hide the order; 16 add states, not cases.)
*Hub*: a device with a route, one that lost it, one on its way; two faults let a
reconnect be followed by a late datagram.  *Console*: a frame of two segments,
split twice.  *HID*: a pad's path and one of a vendor's collection, each
plugged in twice.  *Joy-Con 2*: two devices of one controller, a cooldown of
two ticks, one fault.  *Tesla*: tokens of two ticks, two faults.  *HOPX*: records
of three bytes, notifications of up to four: every split across a boundary.

**Deadlock** is checked in `safety` and `session_live`: the session, the Wii
forwarder and the buttons never come to a stop (the other sources of `safety`
run out of their bounds and have a stutter for it).  In `core`, `network` and
`registry` the bounded environment runs out and the program idles
legitimately.

## 4. Fairness

tokio polls its tasks and the OS runs threads: weak fairness of each task's
step, per task where several exist.  Nothing obliges devices, users, faults,
crashes or silences to happen.  In particular:

- *Session*: `PromptTime` lets a tick pass only when the client's tasks are at
  rest and what was sent has arrived, and a server that knows the tracker PINGs
  within the timeout (client.rs:595-596).  Receiving a given kind of datagram is
  strongly fair: socket buffers are FIFO.
- *Haptics*: the loop runs and time passes; datagrams need not come.
- *Calibration*: the pipeline handles commands, commands finish; the user may
  stop anywhere.
- *Clock, heading*: the device delivers samples.
- *Window*: the emitters are strongly fair.  Emitting never waits in the code;
  only the model's bound on the page's queue disables it at times.
- *Hub*: tasks are polled, each separately; hubs announce every few seconds and
  trackers stream (PROTOCOL.md and the companion app), from the port they have.
- *UDP*: time passes and datagrams need not come.  *Console*: both loops run.
- *HID*: the enumerate loop is polled.  *Joy-Con 2*: scanner, supervisor and
  devices are polled and time passes; an offer or a connect that outlasts the
  cooldown counts as a fault, and the 500 ms of `EnableImuAndMag` let the stops
  that are pending finish.  *Tesla*: the runner is polled.

## 5. Proofs

| Module | Theorems | Argument |
|---|---|---|
| `SlimeClientProofs` | `TypeCorrect`, `ResetCountExact`, `EventsExact`, `BoundedFlapping` | the client's `IInv`: a task between its accesses owes exactly one count and one event, and `Credit` bounds how many resets the silence so far can still cause, so `falls + Credit <= 3 * lapses + stalls` is inductive where `falls <= 3 * lapses + stalls` is not |
| `SlimeSessionProofs` | `SensorBeforeFlags`, `FlagsOnce` | `Confirmations`: while the flags are unsent, a confirmed flag stands for a confirmation later than any they were sent in, and what the pipeline observed is such a one; `FlagsLeaveFirst` follows the flags through the network to the bundle bit |
| | `SessionImplementsClient`, `SessionKeepsPromises` | each step of the session is a step of the client or leaves it alone, so what is proved of the client holds in a session, whatever server and network do |
| `WireProofs` | `RotationFirst` | the numbers order the samples, so the server's rotation is never ahead of a datagram it will still take; and before every acceleration a smaller number was given to the rotation of its sample, which the server has taken, or lacks |
| | `FieldsFit`, `ReadBack` | each decoder's record is `Sound` (inside, and apart) for every length and claim; records that are joined share no byte; the places of a bundle's packets follow from unfolding `PartAt` |
| `DeviceRegistryProofs` | `RegistryCorrect`, `RegistryIsDirectory` | from eviction to insertion the only entry with the MAC being registered has the very same DeviceId, for what another supervisor inserts meanwhile under that MAC is the same synthetic device; and of one source's incarnations the one being registered is the newest.  With that each step maps to an arrival, a departure or a stutter |
| | `ChannelTypeCorrect`, `WaitBounded`, `StartedInOrder` | a loop's rank in the queue and the starts it has sat out, together with the one under way, are at most the number of loops: a start takes one loop out of the queue before the next begins; and of each loop the channel holds what follows the last device begun, to the last one sent, in order |
| `PipelineProofs` | `SessionsApart`, `MagTypeCorrect` | every command leaves the buffer empty, so it holds samples of the session last started; a fit needs samples, hence is of that session, and the rest is copying |
| | `BiasKept` | a session that would store anything but a learned bias over one either runs another algorithm or was seeded with what is stored (`BiasHeld`) |
| | `LiveStored`, `LcTypeCorrect` | a setter under way still owes the registered device what it read (`LiveReflects`), a registration what it has read of the settings (`ReadReflects`); what a command owes is what it stored (`OwedIsStored`); and fields do not touch each other (`FieldsApart`) |
| `NetworkProofs` | `TargetShared`, `HubTypeCorrect` | `RoutesOwn`: a route leads to a device of its own hub, so the sweep, which keeps the cells of hubs with routes, never unties a device that has one |
| | `LossExact` | the gaps counted are the numbers between those taken, modulo the width, while no number came late or twice |
| | `NetworkTypeCorrect`, `NetworkTargetShared` | the types of all three modules, and the hub's invariant, over the specification the `network` run checks; the console's answers are bounded because frames unread and replies under way are at most the splits and one |
| | `TablesKept` | while no connection overlapped another there is at most one handler, so a teardown removes nobody else's rumble bits; routes are only written together with the key that removes them |
| `ReaderProofs` | `GoneIsTold`, `RdTypeCorrect` | a reader that has ended told it, or the pipeline's end is under way |
| | `ReadIsKnown` | a path leaves the known set only with its device, and a scan keeps what it found until it has looked for those that left |
| | `AxesAgree` | the kind a bias was read for is the kind the samples are turned by, from the advert to the stop |
| | `CalibrationResolved` | each block of the calibration is answered, or its retries are not used up |
| | `HopxTypeCorrect`, `RecordsReassembled` | for some k the records out are the first k of those sent, and the buffer begins where they end, however the notifications were cut |
| | `RecordsStreamed` | with that, a pass of the parser's loop that cuts a record out is a `Deliver`, one that skips bytes a stutter, and a notification a `Send` |
| `CoreProofs` | `PressesAnsweredOnce`, `RbTypeCorrect` | a press of Home is answered at its release, reports later, and a press of Capture may hide it in between; so the resets asked for and the one Home still owes are counted together |
| | `StoppedIsDark` | once the thread is joined nothing writes, and the write before the join is of zeros |
| | `RunningIsKnown`, `BridgeTypeCorrect`, `DisabledIsStill` | a motor running is one the loop remembers, or one it has forgotten by a re-configuration (`GoneAreStray`); while the bridge serves no task it is disabled, and only writes zeros |
| | `CoreTypeCorrect`, `CoreKeepsPromises` | each step of MCCore is one module's and a stutter of the others, so the conjunction of their invariants is inductive; new with it are the clock's (a period is positive, as a window with a sample in it gives at least a sixteenth of a sample per tick), the field's, Tesla's and the window's, whose queues hold events of their own kind within their capacity |
| | `CoreStepsKeepPromises` | the action properties and the refinement over the same specification: a step of another source leaves the variables alone, one of the module's own is in its own theorem |

Each follows Init ⇒ IInv, IInv ∧ [Next] ⇒ IInv′, IInv ⇒ Inv.  The assumptions
are the ASSUMEs of the modules: bounds are naturals, timeouts and capacities
positive, the hub has a handle, ports and slots are positive numbers (0 stands
for none), `WiiNone` is no device; the clock's units are fine enough to tell the
slowest rate from none and the fastest's period from zero.  TLC evaluates them
in the runs.  The theorems are about each module's own specification, whose steps are those of
its source in the hosting run; those named after the network and the core, about
the specifications those two runs check.

Only model-checked:
- all liveness, which needs fairness and ENABLED, out of the prover's reach;
- bundles of more than two packets: where the n-th one stands is defined by
  recursion over the lengths, and what that gives for every n is an induction over data.

## 6. What the violated runs say of the code

1. `session_flags`: the pipeline compares nothing but samples of the confirmed
   flag.  A reset and a re-confirmation between two device events leave the new
   server without SENSOR_INFO and FEATURE_FLAGS.  A counter of confirmations
   would tell.
2. `registry_ghost`: the pipeline task is spawned before its entry is inserted;
   a Disconnected it handles first removes nothing, and the entry stays.
3. `haptics_rebind`: a re-configuration drops the loop's state without
   `silence_all`; a running motor is forgotten.
4. `magcal_stale`: `finish_mag_calibration` clones a receiver that has never
   looked at its channel; from the second session on `changed()` returns at once
   with an earlier result, which is stored and applied.
5. `psmove_blob`: the two blocks of the PS Move's calibration are joined with
   their headers, and the first gyroscope sample straddles the second header:
   one byte of the gain's number is a report id.
6. `wii_gyro`: a record of a bare Wii Remote, without MotionPlus, has zeros where
   the rotation would be; 8192 is subtracted all the same, and the pipeline is
   given a constant rotation.  The flag that would tell is not looked at.
7. `ui_mirror`: the page asks for the devices once.  A registration announced
   after that call was answered and before the page listens is never made up for.
   (Nor would be one whose event a lagging broadcast drops.)

## 7. Behaviour met while modelling

Not runs, because no line of the repository promises otherwise, or because the
models take it as a stated fault; worth knowing beside the code:

- *Pipeline*: a failing send ends the pipeline but leaves its entry in the
  registry (`PipelineFails`; app_state.rs:158 removes on Disconnected only).
  Handshake events of the two client tasks can overtake each other.
  `calibrate_rate` counts one burst too many in its first window.  A session
  with BasicVqf or Madgwick stores a bias of zero over VQF's
  (pipeline.rs:294-300, 955-976).  Clearing a magnetometer calibration leaves the
  frozen 9D heading offset in use.
- *Client*: a watchdog held up between its load of the last arrival
  (client.rs:591) and its reading of the clock (592) resets a connection that was
  never silent, against what 594-596 says of a live one; `stalls` counts it.
- *Registry*: `restart_synthetic` called again leaves every earlier supervisor
  running, and whichever inserts last stays registered, be it the older
  incarnation; a device whose registration is under way at the shutdown
  is not dropped with the others (commands.rs:144-164).
- *Settings*: two setters of one device can lose one's update; two calls for the
  same field may leave the older one live; a setter during a registration
  misses the device; a calibration's writes are torn by a clear, which then
  leaves the live magnetometer on.  `LiveIsStored` excludes exactly these, by name.
  `udp_haptic` upsert and remove are a read-modify-write (commands.rs:1176-1221).
- *Haptics*: zeros are exempt from the rate limit (listener.rs:239), so
  below-threshold floods are written through; the biased select starves the tick
  above a thousand datagrams a second (listener.rs:150).  A second
  `test_rumble_at` is cut short by the stop of the first.
- *Hub*: an announce waits for the supervisor inside the receive loop
  (factory.rs:203): for one start per factory task at most (`WaitsAreBounded`), but a
  Bluetooth connect may take 20 s (jc2.rs:358) and no hub is heard meanwhile; routes
  are dropped after 15 s (factory.rs:18), so the next sweep may drop some whose hubs
  were sending all along, until they announce again.  A late or repeated number
  makes the next one a gap (factory.rs:52).
- *Wii*: the forwarder answers per read and the console awaits one answer per
  frame; answers left over from a split frame stay ahead for good, so that rumble
  lags.  A slot whose controller is swapped keeps its device.  Where connections of
  one address overlap, the first to end removes the other's rumble bits:
  `WiiTablesKept` promises those only without overlap.
- *3DS, Vita*: a silent console's route is evicted only when another datagram
  arrives (vita factory.rs:10-12); with one console that is never.
- *HID*: a path that leaves and returns between two scans is not offered again
  (joycon factory.rs:103-107).  jc1.rs:318-319 guards with a condition that
  always holds.  A PS Move heartbeat may repeat a rumble after it was set to zero;
  a DualSense ignores commands before its first report and is left with motors on
  by a stop.
- *Joy-Con 2*: failures at jc2.rs:745-755 and 768-772 leave the link up although
  727-730 says otherwise; the controller is then passed over (`JcStranded`).
- *Tesla*: a lost answer to a refresh locks the account out; a stream that ends
  in an error does not reset the backoff; after its pipeline hung up, the runner
  reconnects until it is stopped.
- *Clock*: a claimed step outside the clamp, but within 5 % of it, stays: the
  clamp is on what is measured, and a correction that small is not applied
  (pipeline.rs:929-931).  `CkTypeOK` allows for it.
- *Window*: DeviceStateChanged and DeviceHistoryUpdated are never emitted, so
  the low-battery notification is not re-armed (EventBridge.tsx:132-134).

## 8. Not modelled

- Quaternions, coordinates, the sphere fit and the filters' arithmetic: floating
  point.  Values of samples and checksums: the models keep where they lie.
- SQLite: every call is atomic behind one mutex, and modelled so where called.
- Boot, tray, logging, updater, address discovery, the CLI, views and styles:
  wiring and I/O.  Of the UI: the per-device settings cache, the log store,
  battery toasts.
- Of the pipeline: latency windows and snapshots, which only report.
- HOPX's stream is loss-free and begins at a record, so the parser's
  resynchronisation (protocol.rs:134-139) meets markers only inside payloads.
- Of the sources: HOPX's alternative records (0x25), Tesla's telemetry contents,
  GATT discovery, IR/NFC registers, OSCQuery and the OSC sniffer.
- `HealthClassifier`: used by its own tests only.
- The type invariants of the modules in `safety` are no properties of that run;
  those of the client, settings, buttons and the Wii forwarder are in the
  inductive invariants of their proofs, and hold for every value of the constants.
  So do `NetworkTypeOK`, `HxReassembled` (which `IsRecordStream` subsumes in the runs)
  and `DisabledDrivesNothing`: proved, and not repeated by a run.

## 9. Where to go on

1. Starts that take real time, beside the hub's sweep: `DiscoveryChannel` counts the
   starts a receive loop waits for, `RemoteHub` takes them as short.
2. An abstract tracker session that SlimeSession implements, beside the client
   it is shown to implement, with the promises of the pipeline's announcements.
3. The safety run's modules over one specification, as is done for MCCore's and
   MCNetwork's.
