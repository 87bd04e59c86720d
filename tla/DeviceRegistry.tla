--------------------------- MODULE DeviceRegistry ---------------------------
(***************************************************************************)
(* The device registry: AppState.devices (crates/core/src/app_state.rs),   *)
(* the supervisors that register what the factories discover               *)
(* (crates/core/src/supervisor.rs), and per device the pipeline task, the  *)
(* control task and the driver.                                            *)
(*                                                                         *)
(* There is one supervisor from the start (supervisor_boot.rs), and every  *)
(* call of restart_synthetic shuts the registry down and then starts one   *)
(* more on the same AppState, for synthetic devices; the others go on, and *)
(* so may an earlier call.                                                 *)
(*                                                                         *)
(* Every time a device is discovered it is a new incarnation, numbered in  *)
(* the order of discovery.  An incarnation is registered under its         *)
(* DeviceId, a MAC and a serial; the same physical device may come back    *)
(* with the same serial or with another.  A synthetic device has the       *)
(* DeviceId of its seed whichever supervisor finds it, and each of them    *)
(* finds it once.                                                          *)
(*                                                                         *)
(* The registry is behind an RwLock, so each critical section is a step;   *)
(* the lock is released between them.  A DeviceHandle that is dropped      *)
(* takes along the stop sender (the pipeline's select! wakes up) and the   *)
(* control sender (the control task ends and stops the driver).            *)
(***************************************************************************)
EXTENDS Integers, FiniteSets

CONSTANTS
  N,               \* bound: how many times a device is discovered
  Macs,            \* the MAC addresses
  Serials,         \* the serials
  SyntheticMacs,   \* the MACs of synthetic devices, no other device's
  SyntheticSerial, \* the serial that goes with such a MAC
  MaxDrains,       \* bound: calls of restart_synthetic, or of AppState::shutdown alone
  MaxFaults        \* bound: failing starts and sends, drivers that die silently

ASSUME NAssumption == N \in Nat
ASSUME BoundsAssumption == MaxDrains \in Nat /\ MaxFaults \in Nat

Incarnations == 1 .. N
DeviceId == [mac : Macs, serial : Serials]

(* A call of restart_synthetic is named as the supervisor it starts; 0 is  *)
(* the one started with the program.  A shutdown that nothing follows is a *)
(* call whose supervisor finds nothing.                                    *)
Boot == 0
Calls == 1 .. MaxDrains
Supervisors == {Boot} \cup Calls

VARIABLES
  ident,    \* the DeviceId each incarnation will be discovered with
  finder,   \* the supervisor that will discover it
  found,    \* how many incarnations have been discovered
  sup,      \* where each supervisor, or the call that starts it, is
  cur,      \* the incarnation it is registering, or registered last
  held,     \* where an incarnation's DeviceHandle is
  dev,      \* the driver and its control task
  task,     \* the pipeline task
  bye,      \* incarnations with a Disconnected in their event channel
  aborted,  \* incarnations whose pipeline task was aborted
  told,     \* incarnations whose stop channel was sent TRUE
  drained,  \* the incarnations whose handles a call's shutdown has left
  waiting,  \* the incarnation it waits for, 0 if none
  reaped,   \* history: incarnations whose task removed its registry entry
  inserted, \* history: the incarnation each supervisor inserted last
  faults

script    == <<ident, finder>>
supVars   == <<found, sup, cur>>
taskVars  == <<task, bye, aborted, reaped>>
drainVars == <<told, drained, waiting>>
vars == <<script, supVars, held, dev, taskVars, drainVars, inserted, faults>>

Registry == {i \in Incarnations : held[i] = "entry"}
Mac(i)   == ident[i].mac

(* What is discovered, and by whom. *)
Script ==
  /\ ident \in [Incarnations -> DeviceId] /\ finder \in [Incarnations -> Supervisors]
  /\ \A i \in Incarnations :
       /\ Mac(i) \in SyntheticMacs => ident[i].serial = SyntheticSerial
       /\ finder[i] # Boot => Mac(i) \in SyntheticMacs
  /\ \A i, j \in Incarnations :
       finder[i] = finder[j] /\ Mac(i) = Mac(j) /\ Mac(i) \in SyntheticMacs => i = j

RegistryTypeOK ==
  /\ Script
  /\ found \in 0 .. N
  /\ sup \in [Supervisors -> {"unborn", "drain", "idle", "start", "evict", "spawn", "insert"}]
  /\ cur \in [Supervisors -> 0 .. N] /\ inserted \in [Supervisors -> 0 .. N]
  /\ held \in [Incarnations -> {"none", "frame", "entry", "drain", "dropped"}]
  /\ dev \in [Incarnations -> {"unborn", "on", "off", "stopped"}]
  /\ task \in [Incarnations -> {"none", "run", "reap", "done"}]
  /\ bye \subseteq Incarnations /\ aborted \subseteq Incarnations
  /\ told \subseteq Incarnations /\ reaped \subseteq Incarnations
  /\ drained \in [Calls -> SUBSET Incarnations] /\ waiting \in [Calls -> 0 .. N]
  /\ faults \in 0 .. MaxFaults

Init ==
  /\ Script
  /\ found = 0
  /\ sup = [s \in Supervisors |-> IF s = Boot THEN "idle" ELSE "unborn"]
  /\ cur = [s \in Supervisors |-> 0] /\ inserted = [s \in Supervisors |-> 0]
  /\ held = [i \in Incarnations |-> "none"]
  /\ dev = [i \in Incarnations |-> "unborn"]
  /\ task = [i \in Incarnations |-> "none"]
  /\ bye = {} /\ aborted = {} /\ told = {} /\ reaped = {}
  /\ drained = [c \in Calls |-> {}] /\ waiting = [c \in Calls |-> 0]
  /\ faults = 0

Fault == faults < MaxFaults /\ faults' = faults + 1

(* The handles of S are dropped. *)
Drop(S) == [i \in Incarnations |-> IF i \in S THEN "dropped" ELSE held[i]]

-----------------------------------------------------------------------------
(* A supervisor: one discovered device after the other *)

(* The next device is received from the channel of this supervisor. *)
Discover(s) ==
  /\ sup[s] = "idle" /\ found < N
  /\ finder[found + 1] = s
  /\ found' = found + 1
  /\ cur' = [cur EXCEPT ![s] = found + 1]
  /\ sup' = [sup EXCEPT ![s] = "start"]
  /\ UNCHANGED <<script, held, dev, taskVars, drainVars, inserted, faults>>

(* device.start(), and the control task is spawned; a device that fails to *)
(* start is dropped.                                                       *)
Start(s) ==
  /\ sup[s] = "start"
  /\ \/ /\ sup' = [sup EXCEPT ![s] = "evict"]
        /\ dev' = [dev EXCEPT ![cur[s]] = "on"]
        /\ held' = [held EXCEPT ![cur[s]] = "frame"]
        /\ UNCHANGED faults
     \/ /\ Fault
        /\ sup' = [sup EXCEPT ![s] = "idle"]
        /\ UNCHANGED <<dev, held>>
  /\ UNCHANGED <<script, found, cur, taskVars, drainVars, inserted>>

(* Mutated form: a serial tells a device apart. *)
StaleBySerial(k) == {j \in Registry : ident[j].serial = ident[k].serial /\ Mac(j) # Mac(k)}

(* The same MAC under another DeviceId. *)
Stale(k) == {j \in Registry : ident[j] # ident[k] /\ Mac(j) = Mac(k)}

(* register_device, first critical section: stale entries are told to      *)
(* stop, aborted and dropped.                                              *)
Evict(s) ==
  /\ sup[s] = "evict"
  /\ sup' = [sup EXCEPT ![s] = "spawn"]
  /\ held' = Drop(Stale(cur[s]))
  /\ aborted' = aborted \cup Stale(cur[s])
  /\ UNCHANGED <<script, found, cur, dev, task, bye, reaped, drainVars, inserted, faults>>

(* The pipeline task is running before the device is in the registry. *)
Spawn(s) ==
  /\ sup[s] = "spawn"
  /\ sup' = [sup EXCEPT ![s] = "insert"]
  /\ task' = [task EXCEPT ![cur[s]] = "run"]
  /\ UNCHANGED <<script, found, cur, held, dev, bye, aborted, reaped, drainVars, inserted, faults>>

(* What is registered under the DeviceId of incarnation k. *)
SameId(k) == {j \in Registry : ident[j] = ident[k]}

(* Mutated form: the entry under the same DeviceId is not dropped. *)
InsertKeeps(s) ==
  /\ sup[s] = "insert"
  /\ sup' = [sup EXCEPT ![s] = "idle"]
  /\ held' = [held EXCEPT ![cur[s]] = "entry"]
  /\ inserted' = [inserted EXCEPT ![s] = cur[s]]
  /\ UNCHANGED <<script, found, cur, dev, taskVars, drainVars, faults>>

(* Second critical section: HashMap::insert, which drops the handle that   *)
(* was there under the same DeviceId.                                      *)
Insert(s) ==
  /\ sup[s] = "insert"
  /\ sup' = [sup EXCEPT ![s] = "idle"]
  /\ held' = [Drop(SameId(cur[s])) EXCEPT ![cur[s]] = "entry"]
  /\ inserted' = [inserted EXCEPT ![s] = cur[s]]
  /\ UNCHANGED <<script, found, cur, dev, taskVars, drainVars, faults>>

-----------------------------------------------------------------------------
(* The driver and its control task *)

(* The driver ends, saying Disconnected, or not: its channel was full, or  *)
(* it never says so.                                                       *)
DeviceEnds(i) ==
  /\ dev[i] = "on"
  /\ dev' = [dev EXCEPT ![i] = "off"]
  /\ \/ bye' = bye \cup {i} /\ UNCHANGED faults
     \/ Fault /\ UNCHANGED bye
  /\ UNCHANGED <<script, supVars, held, task, aborted, reaped, drainVars, inserted>>

(* The control channel is closed: the control task stops the driver. *)
ControlEnds(i) ==
  /\ dev[i] \in {"on", "off"} /\ held[i] = "dropped"
  /\ dev' = [dev EXCEPT ![i] = "stopped"]
  /\ UNCHANGED <<script, supVars, held, taskVars, drainVars, inserted, faults>>

-----------------------------------------------------------------------------
(* The pipeline task *)

(* Mutated form: only a value sent on the stop channel ends the pipeline,  *)
(* not the sender's being dropped.                                         *)
StoppingIfTold(i) == i \in told

(* stop.changed() is ready: TRUE was sent or the sender is gone. *)
Stopping(i) == i \in told \/ held[i] = "dropped"

(* The stop branch of the select!. *)
PipelineStops(i) ==
  /\ task[i] = "run" /\ Stopping(i)
  /\ task' = [task EXCEPT ![i] = "done"]
  /\ UNCHANGED <<script, supVars, held, dev, bye, aborted, reaped, drainVars, inserted, faults>>

(* The events branch, which select! may as well choose: Disconnected ends  *)
(* the pipeline and the task goes on to the registry.  If the connection   *)
(* was never opened and cannot be now, the event is dropped.               *)
PipelineDisconnected(i) ==
  /\ task[i] = "run" /\ i \in bye
  /\ bye' = bye \ {i}
  /\ \/ task' = [task EXCEPT ![i] = "reap"] /\ UNCHANGED faults
     \/ Fault /\ UNCHANGED task
  /\ UNCHANGED <<script, supVars, held, dev, aborted, reaped, drainVars, inserted>>

(* A send fails: the pipeline exits, its entry stays. *)
PipelineFails(i) ==
  /\ task[i] = "run" /\ dev[i] = "on"
  /\ Fault
  /\ task' = [task EXCEPT ![i] = "done"]
  /\ UNCHANGED <<script, supVars, held, dev, bye, aborted, reaped, drainVars, inserted>>

(* devices.remove(&reap_id): whatever is registered under the DeviceId.    *)
Reap(i) ==
  /\ task[i] = "reap"
  /\ task' = [task EXCEPT ![i] = "done"]
  /\ held' = Drop(SameId(i))
  /\ reaped' = reaped \cup {i}
  /\ UNCHANGED <<script, supVars, dev, bye, aborted, drainVars, inserted, faults>>

(* An abort takes effect when the task is next polled. *)
AbortLands(i) ==
  /\ i \in aborted /\ task[i] \in {"run", "reap"}
  /\ task' = [task EXCEPT ![i] = "done"]
  /\ UNCHANGED <<script, supVars, held, dev, bye, aborted, reaped, drainVars, inserted, faults>>

-----------------------------------------------------------------------------
(* AppState::shutdown, called by restart_synthetic *)

(* The calls, named in the order they come: all entries are taken out.     *)
Drain(c) ==
  /\ sup[c] = "unborn" /\ \A d \in 1 .. (c - 1) : sup[d] # "unborn"
  /\ sup' = [sup EXCEPT ![c] = "drain"]
  /\ drained' = [drained EXCEPT ![c] = Registry]
  /\ held' = [i \in Incarnations |-> IF i \in Registry THEN "drain" ELSE held[i]]
  /\ UNCHANGED <<script, found, cur, dev, taskVars, told, waiting, inserted, faults>>

DrainStop(c, i) ==
  /\ waiting[c] = 0 /\ i \in drained[c]
  /\ waiting' = [waiting EXCEPT ![c] = i]
  /\ told' = told \cup {i}
  /\ UNCHANGED <<script, supVars, held, dev, taskVars, drained, inserted, faults>>

(* The task has ended, or two seconds are over. *)
DrainDone(c) ==
  /\ waiting[c] # 0
  /\ waiting' = [waiting EXCEPT ![c] = 0]
  /\ drained' = [drained EXCEPT ![c] = @ \ {waiting[c]}]
  /\ held' = Drop({waiting[c]})
  /\ UNCHANGED <<script, supVars, dev, taskVars, told, inserted, faults>>

(* The shutdown is over: a supervisor for the synthetic devices is spawned *)
(* on the same AppState.                                                   *)
RestartSynthetic(c) ==
  /\ sup[c] = "drain" /\ drained[c] = {}
  /\ sup' = [sup EXCEPT ![c] = "idle"]
  /\ UNCHANGED <<script, found, cur, held, dev, taskVars, drainVars, inserted, faults>>

-----------------------------------------------------------------------------
Registers(s)  == Start(s) \/ Evict(s) \/ Spawn(s) \/ Insert(s)
Supervisor(s) == Discover(s) \/ Registers(s)
Driver(i)   == DeviceEnds(i) \/ ControlEnds(i)
Task(i)     == \/ PipelineStops(i) \/ PipelineDisconnected(i) \/ PipelineFails(i)
               \/ Reap(i) \/ AbortLands(i)
Shutdown(c) == Drain(c) \/ (\E i \in Incarnations : DrainStop(c, i)) \/ DrainDone(c)

Next == \/ \E s \in Supervisors : Supervisor(s)
        \/ \E c \in Calls : Shutdown(c) \/ RestartSynthetic(c)
        \/ \E i \in Incarnations : Driver(i) \/ Task(i)

Spec == Init /\ [][Next]_vars

(* The tasks are polled; the device keeps streaming or ends, as it likes.  *)
Fairness ==
  /\ \A s \in Supervisors : WF_vars(Registers(s))
  /\ \A c \in Calls :
       WF_vars(\E i \in Incarnations : DrainStop(c, i)) /\ WF_vars(DrainDone(c))
  /\ \A i \in Incarnations :
       /\ WF_vars(ControlEnds(i))
       /\ WF_vars(PipelineStops(i)) /\ WF_vars(Reap(i)) /\ WF_vars(AbortLands(i))

FairSpec == Spec /\ Fairness

-----------------------------------------------------------------------------
(* Properties *)

(* What keeps the registry free of duplicates although it is unlocked      *)
(* between eviction and insertion, and supervisors register side by side:  *)
(* what another one inserts meanwhile under the same MAC is the same       *)
(* synthetic device, so from eviction on the only entry with the MAC being *)
(* registered is one with the very same DeviceId, which the insertion      *)
(* replaces (app_state.rs:103-117, 167; commands.rs:148-164).              *)
RegistryInv ==
  /\ RegistryTypeOK
  /\ \A s \in Supervisors :
       /\ inserted[s] <= cur[s] /\ cur[s] <= found
       /\ sup[s] \in {"start", "evict", "spawn", "insert"} =>
            inserted[s] < cur[s] /\ finder[cur[s]] = s
       /\ sup[s] \in {"spawn", "insert"} =>
            \A j \in Registry : Mac(j) = Mac(cur[s]) => ident[j] = ident[cur[s]]
  /\ \A i \in Registry : i <= inserted[finder[i]]
  /\ \A i, j \in Registry : Mac(i) = Mac(j) => i = j

(* The registry is a directory of physical devices: however the eviction   *)
(* and insertion of several supervisors, reaping and shutdowns interleave, *)
(* no MAC is registered twice, and no incarnation comes back after a later *)
(* one that the same supervisor found (app_state.rs:100-117, 156-167,      *)
(* 379-382, commands.rs:148-164).                                          *)
Directory == INSTANCE DeviceDirectory WITH
  Sources <- Supervisors, mac <- [i \in Incarnations |-> Mac(i)],
  source <- finder, present <- Registry, latest <- inserted
IsDirectory == Directory!Spec

(* Nobody is forgotten: once its handle is dropped, by replacement,        *)
(* eviction, reaping or shutdown, a device's pipeline ends and its driver  *)
(* is stopped (app_state.rs:110-115, 167, supervisor.rs:50-59).            *)
OrphansEnd ==
  \A i \in Incarnations :
    held[i] = "dropped" ~> dev[i] = "stopped" /\ task[i] = "done"

(* What app_state.rs:159-161 says of the removal after Disconnected: no    *)
(* ghost stays behind.  The task may get there before register_device has  *)
(* inserted the entry.                                                     *)
NoGhost == \A i \in reaped : held[i] # "entry"

=============================================================================
