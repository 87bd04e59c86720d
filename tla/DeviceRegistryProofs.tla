------------------------ MODULE DeviceRegistryProofs ------------------------
(***************************************************************************)
(* The registry is a directory of physical devices, for every number of    *)
(* incarnations, MACs, serials, faults and restarts, whose supervisors all *)
(* register side by side; and what reaches a supervisor through its        *)
(* channel does so in order and after a bounded number of starts, for      *)
(* every capacity and any loops.                                           *)
(***************************************************************************)
EXTENDS DeviceRegistry, DiscoveryChannel, FiniteSetTheorems, TLAPS

(* Dropping handles takes exactly those entries out of the registry. *)
LEMMA DropRemoves ==
  ASSUME NEW S \in SUBSET Incarnations, held' = Drop(S)
  PROVE  Registry' = Registry \ S
BY DEF Registry, Drop

LEMMA DropType ==
  ASSUME RegistryTypeOK, NEW S \in SUBSET Incarnations
  PROVE  Drop(S) \in [Incarnations -> {"none", "frame", "entry", "drain", "dropped"}]
BY DEF RegistryTypeOK, Drop

LEMMA CallsAreSupervisors == Calls \subseteq Supervisors /\ Boot \in Supervisors
BY DEF Supervisors

(* The part of the invariant that is about one supervisor. *)
OnCourse(s) ==
  /\ inserted[s] <= cur[s] /\ cur[s] <= found
  /\ sup[s] \in {"start", "evict", "spawn", "insert"} =>
       inserted[s] < cur[s] /\ finder[cur[s]] = s
  /\ sup[s] \in {"spawn", "insert"} =>
       \A j \in Registry : Mac(j) = Mac(cur[s]) => ident[j] = ident[cur[s]]

LEMMA InvParts ==
  RegistryInv <=> /\ RegistryTypeOK
                  /\ \A s \in Supervisors : OnCourse(s)
                  /\ \A i \in Registry : i <= inserted[finder[i]]
                  /\ \A i, j \in Registry : Mac(i) = Mac(j) => i = j
BY DEF RegistryInv, OnCourse

(* A step that removes entries and leaves the supervisors where they are,  *)
(* or takes a call to another stage of its shutdown.                       *)
Removes ==
  /\ Registry' \subseteq Registry
  /\ UNCHANGED <<script, found, cur, inserted>>
  /\ \A s \in Supervisors : sup'[s] = sup[s] \/ sup'[s] \in {"drain", "idle"}

LEMMA RemovesInv ==
  ASSUME RegistryInv, RegistryTypeOK', Removes
  PROVE  RegistryInv'
<1> USE InvParts DEF Removes, script
<1>1. ASSUME NEW s \in Supervisors PROVE OnCourse(s)'
  BY <1>1 DEF OnCourse, Mac
<1>2. \A i \in Registry' : i <= inserted'[finder'[i]]
  OBVIOUS
<1>3. \A i, j \in Registry' : Mac(i)' = Mac(j)' => i = j
  BY DEF Mac
<1> QED BY <1>1, <1>2, <1>3 DEF RegistryInv, OnCourse

LEMMA InitInv == Init => RegistryInv
<1> SUFFICES ASSUME Init PROVE RegistryInv
  OBVIOUS
<1>1. RegistryTypeOK
  BY NAssumption, BoundsAssumption DEF Init, RegistryTypeOK, Supervisors, Calls, Boot
<1>2. Registry = {}
  BY DEF Init, Registry
<1>3. ASSUME NEW s \in Supervisors PROVE OnCourse(s)
  BY <1>3, <1>2 DEF Init, OnCourse
<1> QED BY <1>1, <1>2, <1>3, InvParts

-----------------------------------------------------------------------------
(* The supervisors *)

(* What a supervisor is about to register is its own, and new to it.       *)
LEMMA CurIsOwn ==
  ASSUME RegistryInv, NEW s \in Supervisors,
         sup[s] \in {"start", "evict", "spawn", "insert"}
  PROVE  cur[s] \in Incarnations /\ finder[cur[s]] = s /\ inserted[s] < cur[s]
BY NAssumption DEF RegistryInv, RegistryTypeOK, Incarnations

(* What two supervisors find under one MAC is the same synthetic device.   *)
LEMMA SameDevice ==
  ASSUME Script, NEW i \in Incarnations, NEW j \in Incarnations,
         finder[i] # finder[j], Mac(i) = Mac(j)
  PROVE  ident[i] = ident[j]
<1>1. Mac(i) \in SyntheticMacs
  BY DEF Script
<1>2. ident[i].serial = SyntheticSerial /\ ident[j].serial = SyntheticSerial
  BY <1>1 DEF Script
<1>3. ident[i] \in DeviceId /\ ident[j] \in DeviceId
  BY DEF Script
<1> QED BY <1>2, <1>3 DEF DeviceId, Mac

LEMMA DiscoverInv ==
  ASSUME RegistryInv, NEW s \in Supervisors, Discover(s) PROVE RegistryInv'
<1> USE NAssumption, InvParts DEF Discover, script
<1>1. found + 1 \in 0 .. N /\ found \in 0 .. N
  BY DEF RegistryTypeOK
<1>2. RegistryTypeOK'
  BY <1>1 DEF RegistryTypeOK, Script, Mac, taskVars, drainVars
<1>3. Registry' = Registry
  BY DEF Registry
<1>4. /\ cur' = [cur EXCEPT ![s] = found + 1] /\ cur \in [Supervisors -> 0 .. N]
      /\ sup' = [sup EXCEPT ![s] = "start"] /\ DOMAIN sup = Supervisors
      /\ inserted \in [Supervisors -> 0 .. N]
  BY DEF RegistryTypeOK
<1>5. ASSUME NEW t \in Supervisors PROVE OnCourse(t)'
  <2>1. CASE t = s
    <3>1. cur'[t] = found + 1 /\ sup'[t] = "start" /\ found' = found + 1
      BY <1>4, <2>1
    <3>2. inserted'[t] <= found
      <4>1. inserted[t] <= cur[t] /\ cur[t] <= found
        BY DEF OnCourse
      <4>2. inserted[t] \in Int /\ cur[t] \in Int /\ found \in Int /\ inserted' = inserted
        BY <1>1, <1>4
      <4> QED BY <4>1, <4>2
    <3>3. inserted'[t] \in Int
      BY <1>4
    <3> QED BY <1>1, <2>1, <3>1, <3>2, <3>3 DEF OnCourse
  <2>2. CASE t # s
    <3>1. cur'[t] = cur[t] /\ sup'[t] = sup[t] /\ cur[t] \in Int
      BY <1>4, <2>2
    <3>2. OnCourse(t)
      OBVIOUS
    <3> QED BY <1>1, <1>3, <3>1, <3>2 DEF OnCourse, Mac
  <2> QED BY <2>1, <2>2
<1> QED BY <1>2, <1>3, <1>5 DEF Mac, RegistryInv, OnCourse

(* A supervisor goes on with the device it has, and the registry is as it  *)
(* was.                                                                    *)
LEMMA StartInv ==
  ASSUME RegistryInv, NEW s \in Supervisors, Start(s) PROVE RegistryInv'
<1> USE InvParts DEF Start, script
<1>1. cur[s] \in Incarnations /\ finder[cur[s]] = s /\ inserted[s] < cur[s]
  BY CurIsOwn
<1>2. RegistryTypeOK'
  BY <1>1, BoundsAssumption DEF Fault, RegistryTypeOK, Script, Mac, taskVars, drainVars
<1>3. Registry' \subseteq Registry
  BY <1>1 DEF Registry, RegistryTypeOK
<1>4. \A t \in Supervisors :
        sup'[t] = sup[t] \/ sup'[t] = "idle" \/ (t = s /\ sup'[t] = "evict")
  BY DEF RegistryTypeOK
<1>5. ASSUME NEW t \in Supervisors PROVE OnCourse(t)'
  BY <1>1, <1>3, <1>4 DEF OnCourse, Mac
<1> QED BY <1>2, <1>3, <1>5 DEF Mac, RegistryInv, OnCourse

(* Eviction leaves no other DeviceId under the MAC. *)
LEMMA EvictInv ==
  ASSUME RegistryInv, NEW s \in Supervisors, Evict(s) PROVE RegistryInv'
<1> USE InvParts DEF Evict, script
<1>1. Stale(cur[s]) \in SUBSET Incarnations
  BY DEF Stale, Registry
<1>2. RegistryTypeOK'
  BY <1>1, DropType DEF RegistryTypeOK, Script, Mac, drainVars
<1>3. Registry' = Registry \ Stale(cur[s])
  BY <1>1, DropRemoves
<1>4. \A j \in Registry' : Mac(j) = Mac(cur[s]) => ident[j] = ident[cur[s]]
  BY <1>3 DEF Stale
<1>5. sup[s] = "evict" /\ \A t \in Supervisors : sup'[t] = IF t = s THEN "spawn" ELSE sup[t]
  BY DEF RegistryTypeOK
<1>6. ASSUME NEW t \in Supervisors PROVE OnCourse(t)'
  <2>1. CASE t = s
    BY <1>4, <1>5, <2>1 DEF OnCourse, Mac
  <2>2. CASE t # s
    BY <1>3, <1>5, <2>2 DEF OnCourse, Mac
  <2> QED BY <2>1, <2>2
<1> QED BY <1>2, <1>3, <1>6 DEF Mac, RegistryInv, OnCourse

LEMMA SpawnInv ==
  ASSUME RegistryInv, NEW s \in Supervisors, Spawn(s) PROVE RegistryInv'
<1> USE InvParts DEF Spawn, script
<1>1. RegistryTypeOK'
  BY DEF RegistryTypeOK, Script, Mac, drainVars
<1>2. Registry' = Registry
  BY DEF Registry
<1>3. sup[s] = "spawn" /\ \A t \in Supervisors : sup'[t] = IF t = s THEN "insert" ELSE sup[t]
  BY DEF RegistryTypeOK
<1>4. ASSUME NEW t \in Supervisors PROVE OnCourse(t)'
  BY <1>2, <1>3 DEF OnCourse, Mac
<1> QED BY <1>1, <1>2, <1>4 DEF Mac, RegistryInv, OnCourse

(* Insertion replaces the only entry with the MAC. *)
LEMMA InsertReplaces ==
  ASSUME RegistryInv, NEW s \in Supervisors, Insert(s)
  PROVE  Registry' = {j \in Registry : Mac(j) # Mac(cur[s])} \cup {cur[s]}
<1>1. cur[s] \in Incarnations
  BY CurIsOwn DEF Insert
<1>2. SameId(cur[s]) = {j \in Registry : Mac(j) = Mac(cur[s])}
  BY DEF SameId, Insert, RegistryInv, Mac
<1>3. Registry' = (Registry \ SameId(cur[s])) \cup {cur[s]}
  BY <1>1 DEF Insert, Registry, SameId, Drop, RegistryInv, RegistryTypeOK
<1> QED BY <1>2, <1>3

LEMMA InsertInv ==
  ASSUME RegistryInv, NEW s \in Supervisors, Insert(s) PROVE RegistryInv'
<1> USE InvParts DEF Insert, script
<1>1. cur[s] \in Incarnations /\ finder[cur[s]] = s /\ inserted[s] < cur[s]
  BY CurIsOwn
<1>2. RegistryTypeOK'
  <2>1. SameId(cur[s]) \in SUBSET Incarnations
    BY DEF SameId, Registry
  <2> QED BY <1>1, <2>1, DropType DEF RegistryTypeOK, Script, Mac, taskVars, drainVars
<1>3. Registry' = {j \in Registry : Mac(j) # Mac(cur[s])} \cup {cur[s]}
  BY InsertReplaces
<1>4. sup[s] = "insert" /\ \A t \in Supervisors : sup'[t] = IF t = s THEN "idle" ELSE sup[t]
  BY DEF RegistryTypeOK
<1>5. /\ cur \in [Supervisors -> 0 .. N] /\ inserted \in [Supervisors -> 0 .. N]
      /\ \A t \in Supervisors : inserted'[t] = IF t = s THEN cur[s] ELSE inserted[t]
  BY DEF RegistryTypeOK
<1>6. ASSUME NEW t \in Supervisors PROVE OnCourse(t)'
  <2>1. CASE t = s
    <3>1. cur[s] <= found
      BY DEF OnCourse
    <3> QED BY <1>4, <1>5, <2>1, <3>1 DEF OnCourse
  <2>2. CASE t # s
    <3>1. OnCourse(t) /\ sup'[t] = sup[t] /\ inserted'[t] = inserted[t]
      BY <1>4, <1>5, <2>2
    <3>2. ASSUME sup[t] \in {"spawn", "insert"}, Mac(cur[s]) = Mac(cur[t])
          PROVE  ident[cur[s]] = ident[cur[t]]
      <4>1. cur[t] \in Incarnations /\ finder[cur[t]] = t
        BY <3>2, CurIsOwn
      <4> QED BY <1>1, <2>2, <3>2, <4>1, SameDevice DEF RegistryTypeOK
    <3> QED BY <1>3, <3>1, <3>2 DEF OnCourse, Mac
  <2> QED BY <2>1, <2>2
<1>7. \A i \in Registry' : i <= inserted'[finder'[i]]
  <2>1. cur[s] <= inserted'[finder'[cur[s]]]
    BY <1>1, <1>5 DEF Incarnations
  <2>2. ASSUME NEW i \in Registry PROVE i <= inserted'[finder'[i]]
    <3>1. finder[i] \in Supervisors /\ i \in Int /\ i <= inserted[finder[i]]
      BY DEF Registry, Incarnations, RegistryTypeOK, Script
    <3>2. cur[s] \in Int /\ inserted[s] \in Int /\ inserted[s] < cur[s]
      BY <1>1, <1>5
    <3> QED BY <1>5, <3>1, <3>2
  <2> QED BY <1>3, <2>1, <2>2
<1>8. \A i, j \in Registry' : Mac(i)' = Mac(j)' => i = j
  BY <1>3 DEF Mac
<1> QED BY <1>2, <1>6, <1>7, <1>8 DEF RegistryInv, OnCourse

LEMMA SupervisorInv ==
  ASSUME RegistryInv, NEW s \in Supervisors, Supervisor(s) PROVE RegistryInv'
BY DiscoverInv, StartInv, EvictInv, SpawnInv, InsertInv DEF Supervisor, Registers

-----------------------------------------------------------------------------
(* All other steps only take entries out, if they touch the registry.      *)
Shrinks == RegistryTypeOK' /\ Removes

LEMMA ShutdownShrinks ==
  ASSUME RegistryTypeOK, NEW c \in Calls, Shutdown(c) \/ RestartSynthetic(c) PROVE Shrinks
<1> c \in Supervisors
  BY CallsAreSupervisors
<1> USE NAssumption, BoundsAssumption DEF Shrinks, Removes, script
<1>1. CASE Drain(c)
  <2>1. Registry \in SUBSET Incarnations
    BY DEF Registry
  <2>2. RegistryTypeOK'
    BY <1>1, <2>1 DEF Drain, RegistryTypeOK, Script, Mac, taskVars
  <2>3. Registry' = {}
    BY <1>1 DEF Drain, Registry
  <2> QED BY <1>1, <2>2, <2>3 DEF Drain, RegistryTypeOK
<1>2. ASSUME NEW i \in Incarnations, DrainStop(c, i) PROVE Shrinks
  <2>1. RegistryTypeOK'
    <3>1. waiting' \in [Calls -> 0 .. N] /\ told' \subseteq Incarnations
      <4>1. i \in 0 .. N
        BY DEF Incarnations
      <4> QED BY <1>2, <4>1 DEF DrainStop, RegistryTypeOK
    <3> QED BY <1>2, <3>1 DEF DrainStop, RegistryTypeOK, Script, Mac, taskVars, supVars
  <2> QED BY <1>2, <2>1 DEF DrainStop, Registry, supVars
<1>3. CASE DrainDone(c)
  <2>1. {waiting[c]} \in SUBSET Incarnations
    BY <1>3 DEF DrainDone, RegistryTypeOK, Incarnations
  <2>2. Registry' = Registry \ {waiting[c]}
    BY <1>3, <2>1, DropRemoves DEF DrainDone
  <2>3. RegistryTypeOK'
    BY <1>3, <2>1, DropType DEF DrainDone, RegistryTypeOK, Script, Mac, taskVars, supVars
  <2> QED BY <1>3, <2>2, <2>3 DEF DrainDone, supVars
<1>4. CASE RestartSynthetic(c)
  <2>1. RegistryTypeOK'
    BY <1>4 DEF RestartSynthetic, RegistryTypeOK, Script, Mac, taskVars, drainVars
  <2> QED BY <1>4, <2>1 DEF RestartSynthetic, RegistryTypeOK, Registry
<1> QED BY <1>1, <1>2, <1>3, <1>4 DEF Shutdown

LEMMA DriverShrinks ==
  ASSUME RegistryTypeOK, NEW i \in Incarnations, Driver(i) PROVE Shrinks
<1> USE BoundsAssumption DEF Shrinks, Removes, supVars, script
<1>1. CASE DeviceEnds(i)
  BY <1>1 DEF DeviceEnds, Fault, RegistryTypeOK, Script, Mac, drainVars, Registry
<1>2. CASE ControlEnds(i)
  BY <1>2 DEF ControlEnds, RegistryTypeOK, Script, Mac, taskVars, drainVars, Registry
<1> QED BY <1>1, <1>2 DEF Driver

LEMMA TaskShrinks ==
  ASSUME RegistryTypeOK, NEW i \in Incarnations, Task(i) PROVE Shrinks
<1> USE BoundsAssumption DEF Shrinks, Removes, supVars, script
<1>1. CASE PipelineStops(i)
  BY <1>1 DEF PipelineStops, RegistryTypeOK, Script, Mac, drainVars, Registry
<1>2. CASE PipelineDisconnected(i)
  BY <1>2 DEF PipelineDisconnected, Fault, RegistryTypeOK, Script, Mac, drainVars, Registry
<1>3. CASE PipelineFails(i)
  BY <1>3 DEF PipelineFails, Fault, RegistryTypeOK, Script, Mac, drainVars, Registry
<1>4. CASE Reap(i)
  <2>1. SameId(i) \in SUBSET Incarnations
    BY DEF SameId, Registry
  <2>2. Registry' = Registry \ SameId(i)
    BY <1>4, <2>1, DropRemoves DEF Reap
  <2>3. RegistryTypeOK'
    BY <1>4, <2>1, DropType DEF Reap, RegistryTypeOK, Script, Mac, drainVars
  <2> QED BY <1>4, <2>2, <2>3 DEF Reap
<1>5. CASE AbortLands(i)
  BY <1>5 DEF AbortLands, RegistryTypeOK, Script, Mac, drainVars, Registry
<1> QED BY <1>1, <1>2, <1>3, <1>4, <1>5 DEF Task

Others == \/ \E c \in Calls : Shutdown(c) \/ RestartSynthetic(c)
          \/ \E i \in Incarnations : Driver(i) \/ Task(i)

LEMMA OthersShrink == ASSUME RegistryInv, Others PROVE Shrinks
BY ShutdownShrinks, DriverShrinks, TaskShrinks DEF RegistryInv, Others

LEMMA NextInv == RegistryInv /\ [Next]_vars => RegistryInv'
<1> SUFFICES ASSUME RegistryInv, [Next]_vars PROVE RegistryInv'
  OBVIOUS
<1>1. CASE \E s \in Supervisors : Supervisor(s)
  BY <1>1, SupervisorInv
<1>2. CASE Others
  BY <1>2, OthersShrink, RemovesInv DEF Shrinks
<1>3. CASE UNCHANGED vars
  <2>1. RegistryTypeOK'
    BY <1>3 DEF RegistryInv, RegistryTypeOK, Script, Mac, vars, script, supVars, taskVars, drainVars
  <2>2. Removes
    BY <1>3 DEF Removes, Registry, vars, supVars
  <2> QED BY <2>1, <2>2, RemovesInv
<1> QED BY <1>1, <1>2, <1>3 DEF Next, Others

(* No MAC is registered twice, whatever happens between eviction and       *)
(* insertion, and however many supervisors register side by side           *)
(* (app_state.rs:100-117, 167; commands.rs:148-164).                       *)
THEOREM RegistryCorrect == Spec => []RegistryInv
BY InitInv, NextInv, PTL DEF Spec

-----------------------------------------------------------------------------
(* Refinement of DeviceDirectory *)

LEMMA InitDirectory == Init => Directory!Init
BY DEF Init, Script, Directory!Init, Registry, DeviceId, Mac

(* Insertion is an arrival. *)
LEMMA InsertArrives ==
  ASSUME RegistryInv, NEW s \in Supervisors, Insert(s) PROVE Directory!Next
<1>1. cur[s] \in Incarnations /\ finder[cur[s]] = s /\ inserted[s] < cur[s]
  BY CurIsOwn DEF Insert
<1>2. Registry' = {j \in Registry : Mac(j) # Mac(cur[s])} \cup {cur[s]}
  BY InsertReplaces
<1>3. inserted' = [inserted EXCEPT ![s] = cur[s]] /\ UNCHANGED <<ident, finder>>
  BY DEF Insert, script
<1>4. \A j \in Registry : j \in Incarnations
  BY DEF Registry
<1>5. cur[s] > inserted[s]
  BY <1>1 DEF RegistryInv, RegistryTypeOK
<1>6. Directory!Arrive(cur[s])
  BY <1>1, <1>2, <1>3, <1>4, <1>5 DEF Directory!Arrive, Mac
<1> QED BY <1>1, <1>6 DEF Directory!Next

(* Taking entries out is a departure. *)
LEMMA ShrinkLeaves ==
  ASSUME Registry' \subseteq Registry, UNCHANGED <<ident, finder, inserted>>
  PROVE  Directory!Next
<1>1. Registry \ Registry' \in SUBSET Incarnations
  BY DEF Registry
<1>2. Directory!Leave(Registry \ Registry')
  BY DEF Directory!Leave, Mac
<1> QED BY <1>1, <1>2 DEF Directory!Next

LEMMA NextDirectory == RegistryInv /\ [Next]_vars => [Directory!Next]_Directory!vars
<1> SUFFICES ASSUME RegistryInv, [Next]_vars PROVE Directory!Next
  BY DEF Directory!vars
<1>1. ASSUME NEW s \in Supervisors, Insert(s) PROVE Directory!Next
  BY <1>1, InsertArrives
<1>2. ASSUME NEW s \in Supervisors, Discover(s) \/ Start(s) \/ Evict(s) \/ Spawn(s)
      PROVE  Directory!Next
  <2>1. UNCHANGED <<ident, finder, inserted>>
    BY <1>2 DEF Discover, Start, Evict, Spawn, script
  <2>2. Registry' \subseteq Registry
    <3>1. CASE Start(s)
      <4>1. cur[s] \in Incarnations
        BY <3>1, CurIsOwn DEF Start
      <4> QED BY <3>1, <4>1 DEF Start, Registry, RegistryInv, RegistryTypeOK
    <3>2. CASE Evict(s)
      <4>1. Stale(cur[s]) \in SUBSET Incarnations
        BY DEF Stale, Registry
      <4> QED BY <3>2, <4>1, DropRemoves DEF Evict
    <3>3. CASE Discover(s) \/ Spawn(s)
      BY <3>3 DEF Discover, Spawn, Registry
    <3> QED BY <1>2, <3>1, <3>2, <3>3
  <2> QED BY <2>1, <2>2, ShrinkLeaves
<1>3. CASE Others
  BY <1>3, OthersShrink, ShrinkLeaves DEF Shrinks, Removes, script
<1>4. CASE UNCHANGED vars
  BY <1>4, ShrinkLeaves DEF vars, script, Registry
<1> QED BY <1>1, <1>2, <1>3, <1>4 DEF Next, Others, Supervisor, Registers

(* The registry implements the directory: one incarnation per physical     *)
(* device, and never an older one after a newer one of the same supervisor *)
(* (app_state.rs:94-191, commands.rs:148-164).                             *)
THEOREM RegistryIsDirectory == Spec => IsDirectory
<1>1. RegistryInv /\ [Next]_vars => [Directory!Next]_Directory!vars
  BY NextDirectory
<1> QED BY <1>1, InitDirectory, RegistryCorrect, PTL DEF Spec, IsDirectory, Directory!Spec

-----------------------------------------------------------------------------
(* The channel to the supervisor *)

(* Of each loop's devices those that were sent, and not only offered. *)
DcSent == [l \in DcLoops |-> dcFound[l] - (IF Awaits(l) \/ l \in dcGranted THEN 1 ELSE 0)]

(* The channel holds, of each loop, the devices from the first not begun   *)
(* to the last sent, in their order.                                       *)
Holds(chan, begun, sent) ==
  /\ \A l \in DcLoops : begun[l] <= sent[l]
  /\ \A i \in DOMAIN chan :
       begun[chan[i].loop] < chan[i].number /\ chan[i].number <= sent[chan[i].loop]
  /\ \A i, j \in DOMAIN chan :
       i < j /\ chan[i].loop = chan[j].loop => chan[i].number < chan[j].number
  /\ \A l \in DcLoops : \A n \in 1 .. DcMaxFinds :
       begun[l] < n /\ n <= sent[l] =>
         \E i \in DOMAIN chan : chan[i] = [loop |-> l, number |-> n]

HeldInOrder == Holds(dcChan, dcBegun, DcSent)

(* A loop awaits one place at a time, and not the one it was given.        *)
Waits(queue, granted) ==
  /\ \A i, j \in DOMAIN queue : queue[i] = queue[j] => i = j
  /\ \A i \in DOMAIN queue : queue[i] \notin granted

WaitsOnce == Waits(dcWaiting, dcGranted)

(* The starts a loop has waited for and those it may still have to wait    *)
(* for, which are as many as its rank among those that wait, are together  *)
(* no more than the loops; between two starts one of them is counted with  *)
(* neither.                                                                *)
StartsAhead ==
  \A i \in DOMAIN dcWaiting :
    dcStarts[dcWaiting[i]] + i <= Cardinality(DcLoops) + (IF dcNow = DcNone THEN 1 ELSE 0)

DcIInv == DcTypeOK /\ WaitsOnce /\ StartsAhead /\ HeldInOrder

LEMMA LoopsFinite == IsFiniteSet(DcLoops) /\ Cardinality(DcLoops) \in Nat
BY DcAssumption, FS_CardinalityType

LEMMA WaitingIsShort ==
  ASSUME NEW queue \in Seq(DcLoops),
         \A i, j \in DOMAIN queue : queue[i] = queue[j] => i = j
  PROVE  Len(queue) <= Cardinality(DcLoops)
<1>1. queue \in Injection(1 .. Len(queue), DcLoops)
  BY DEF Injection, IsInjective
<1>2. Cardinality(1 .. Len(queue)) <= Cardinality(DcLoops)
  BY <1>1, LoopsFinite, FS_Injection
<1>3. Cardinality(1 .. Len(queue)) = Len(queue)
  <2>1. Cardinality(1 .. Len(queue)) = IF 1 > Len(queue) THEN 0 ELSE Len(queue) - 1 + 1
    BY FS_Interval
  <2> QED BY <2>1
<1> QED BY <1>2, <1>3

(* A device is sent: the next of its loop.                                 *)
LEMMA HoldsMore ==
  ASSUME NEW chan \in Seq(DcDevices), NEW begun \in [DcLoops -> Int], NEW sent \in [DcLoops -> Int],
         NEW l \in DcLoops, sent[l] + 1 \in 1 .. DcMaxFinds, Holds(chan, begun, sent)
  PROVE  Holds(Append(chan, [loop |-> l, number |-> sent[l] + 1]), begun,
               [sent EXCEPT ![l] = @ + 1])
<1> DEFINE d == [loop |-> l, number |-> sent[l] + 1]
           more == Append(chan, d)
           sent2 == [sent EXCEPT ![l] = @ + 1]
<1>1. /\ DOMAIN more = 1 .. Len(chan) + 1 /\ DOMAIN chan = 1 .. Len(chan) /\ Len(chan) \in Nat
      /\ \A i \in DOMAIN chan : more[i] = chan[i]
      /\ more[Len(chan) + 1] = d
  <2>1. d \in DcDevices  BY DEF DcDevices
  <2> HIDE DEF d
  <2>2. more \in Seq(DcDevices) /\ Len(more) = Len(chan) + 1  BY <2>1
  <2>3. \A i \in 1 .. Len(chan) : more[i] = chan[i]  BY <2>1
  <2>4. more[Len(chan) + 1] = d  BY <2>1
  <2>5. DOMAIN more = 1 .. Len(chan) + 1 /\ DOMAIN chan = 1 .. Len(chan) /\ Len(chan) \in Nat
    BY <2>2
  <2> HIDE DEF more
  <2> QED BY <2>3, <2>4, <2>5
<1>2. /\ sent2[l] = sent[l] + 1 /\ \A k \in DcLoops : k # l => sent2[k] = sent[k]
      /\ \A k \in DcLoops : sent[k] \in Int /\ begun[k] \in Int /\ sent2[k] \in Int /\ sent2[k] >= sent[k]
  OBVIOUS
<1>3. d.loop = l /\ d.number = sent[l] + 1 /\ d = [loop |-> l, number |-> sent[l] + 1]
  OBVIOUS
<1>4. \A i \in DOMAIN chan : chan[i].loop \in DcLoops /\ chan[i].number \in Int
  <2>1. \A i \in DOMAIN chan : chan[i] \in DcDevices  OBVIOUS
  <2>2. \A e \in DcDevices : e.loop \in DcLoops /\ e.number \in Nat  BY DEF DcDevices
  <2> QED BY <2>1, <2>2
<1> HIDE DEF d, more, sent2
<1>5. \A k \in DcLoops : begun[k] <= sent2[k]
  BY <1>2 DEF Holds
<1>6. \A i \in DOMAIN more :
        begun[more[i].loop] < more[i].number /\ more[i].number <= sent2[more[i].loop]
  <2> TAKE i \in DOMAIN more
  <2>1. CASE i \in DOMAIN chan
    <3>1. more[i] = chan[i] /\ chan[i].loop \in DcLoops /\ chan[i].number \in Int
      BY <1>1, <1>4, <2>1
    <3>2. begun[chan[i].loop] < chan[i].number /\ chan[i].number <= sent[chan[i].loop]
      BY <2>1 DEF Holds
    <3>3. sent[chan[i].loop] <= sent2[chan[i].loop] /\ sent[chan[i].loop] \in Int
          /\ sent2[chan[i].loop] \in Int
      BY <1>2, <3>1
    <3> QED BY <3>1, <3>2, <3>3
  <2>2. CASE i = Len(chan) + 1
    BY <1>1, <1>2, <1>3, <2>2 DEF Holds
  <2> QED BY <1>1, <2>1, <2>2
<1>7. \A i, j \in DOMAIN more :
        i < j /\ more[i].loop = more[j].loop => more[i].number < more[j].number
  <2> SUFFICES ASSUME NEW i \in DOMAIN more, NEW j \in DOMAIN more, i < j,
                      more[i].loop = more[j].loop
               PROVE  more[i].number < more[j].number
    OBVIOUS
  <2>1. i \in DOMAIN chan  BY <1>1
  <2>2. CASE j \in DOMAIN chan
    BY <1>1, <2>1, <2>2 DEF Holds
  <2>3. CASE j = Len(chan) + 1
    <3>1. chan[i].loop = l  BY <1>1, <1>3, <2>1, <2>3
    <3>2. chan[i].number <= sent[l] /\ chan[i].number \in Int  BY <1>4, <2>1, <3>1 DEF Holds
    <3> QED BY <1>1, <1>2, <1>3, <2>1, <2>3, <3>2
  <2> QED BY <1>1, <2>2, <2>3
<1>8. ASSUME NEW k \in DcLoops, NEW n \in 1 .. DcMaxFinds, begun[k] < n, n <= sent2[k]
      PROVE  \E i \in DOMAIN more : more[i] = [loop |-> k, number |-> n]
  <2>1. CASE n <= sent[k]
    <3>1. PICK i \in DOMAIN chan : chan[i] = [loop |-> k, number |-> n]
      BY <1>8, <2>1 DEF Holds
    <3>2. i \in DOMAIN more /\ more[i] = [loop |-> k, number |-> n]  BY <1>1, <3>1
    <3> QED BY <3>2
  <2>2. CASE ~(n <= sent[k])
    <3>1. k = l /\ n = sent[l] + 1  BY <1>2, <1>8, <2>2
    <3>2. Len(chan) + 1 \in DOMAIN more /\ more[Len(chan) + 1] = [loop |-> k, number |-> n]
      BY <1>1, <1>3, <3>1
    <3> QED BY <3>2
  <2> QED BY <2>1, <2>2
<1>9. Holds(more, begun, sent2)
  BY <1>5, <1>6, <1>7, <1>8 DEF Holds
<1> QED BY <1>9 DEF more, d, sent2

(* A device is taken: the first of its loop that was not begun.            *)
LEMMA HoldsLess ==
  ASSUME NEW chan \in Seq(DcDevices), NEW begun \in [DcLoops -> Nat], NEW sent \in [DcLoops -> Int],
         chan # <<>>, Holds(chan, begun, sent)
  PROVE  /\ Head(chan).number = begun[Head(chan).loop] + 1
         /\ Holds(Tail(chan), [begun EXCEPT ![Head(chan).loop] = Head(chan).number], sent)
<1> DEFINE d == Head(chan)
           l == d.loop
           rest == Tail(chan)
           begun2 == [begun EXCEPT ![l] = d.number]
<1>1. /\ d = chan[1] /\ 1 \in DOMAIN chan /\ d \in DcDevices
      /\ DOMAIN rest = 1 .. Len(chan) - 1 /\ DOMAIN chan = 1 .. Len(chan) /\ Len(chan) \in Nat
      /\ \A i \in DOMAIN rest : rest[i] = chan[i + 1] /\ i + 1 \in DOMAIN chan /\ 1 < i + 1
  <2>1. Len(chan) \in Nat /\ Len(chan) > 0 /\ DOMAIN chan = 1 .. Len(chan)  OBVIOUS
  <2>2. d = chan[1] /\ 1 \in DOMAIN chan /\ d \in DcDevices  BY <2>1
  <2>3. rest \in Seq(DcDevices) /\ Len(rest) = Len(chan) - 1  BY <2>1
  <2>4. DOMAIN rest = 1 .. Len(chan) - 1  BY <2>3
  <2>5. \A i \in 1 .. Len(chan) - 1 : rest[i] = chan[i + 1]  BY <2>1
  <2> HIDE DEF d, rest
  <2> QED BY <2>1, <2>2, <2>4, <2>5
<1>2. l \in DcLoops /\ d.number \in 1 .. DcMaxFinds /\ d.number \in Nat /\ DcMaxFinds \in Nat
  BY <1>1, DcAssumption DEF DcDevices
<1>3. \A i \in DOMAIN chan : chan[i].loop \in DcLoops /\ chan[i].number \in Nat
  <2>1. \A i \in DOMAIN chan : chan[i] \in DcDevices  OBVIOUS
  <2>2. \A e \in DcDevices : e.loop \in DcLoops /\ e.number \in Nat  BY DEF DcDevices
  <2> QED BY <2>1, <2>2
<1>4. begun2[l] = d.number /\ \A k \in DcLoops : k # l => begun2[k] = begun[k]
  BY <1>2
<1>5. begun[l] < d.number /\ d.number <= sent[l] /\ begun[l] \in Nat /\ sent[l] \in Int
  BY <1>1, <1>2 DEF Holds
<1> HIDE DEF d, l, rest, begun2
<1>6. d.number = begun[l] + 1
  <2> DEFINE n == begun[l] + 1
  <2>1. n \in 1 .. DcMaxFinds /\ begun[l] < n /\ n <= sent[l] /\ n <= d.number
    BY <1>2, <1>5
  <2>2. PICK i \in DOMAIN chan : chan[i] = [loop |-> l, number |-> n]
    BY <1>2, <2>1 DEF Holds
  <2>3. chan[i].loop = l /\ chan[i].number = n  BY <2>2
  <2>4. CASE i = 1
    BY <1>1, <2>3, <2>4
  <2>5. CASE i # 1
    <3>1. 1 < i  BY <1>1, <2>5
    <3>2. chan[1].number < chan[i].number
      BY <1>1, <2>3, <3>1 DEF Holds, l
    <3>3. d.number < n  BY <1>1, <2>3, <3>2
    <3> QED BY <1>2, <1>5, <2>1, <3>3
  <2> QED BY <2>4, <2>5
<1>7. \A k \in DcLoops : begun2[k] <= sent[k]
  BY <1>4, <1>5 DEF Holds
<1>8. \A i \in DOMAIN rest :
        begun2[rest[i].loop] < rest[i].number /\ rest[i].number <= sent[rest[i].loop]
  <2> TAKE i \in DOMAIN rest
  <2>1. rest[i] = chan[i + 1] /\ i + 1 \in DOMAIN chan /\ 1 < i + 1  BY <1>1
  <2>2. ASSUME rest[i].loop = l PROVE d.number < rest[i].number
    <3>1. chan[1].loop = chan[i + 1].loop  BY <1>1, <2>1, <2>2 DEF l
    <3>2. chan[1].number < chan[i + 1].number  BY <1>1, <2>1, <3>1 DEF Holds
    <3> QED BY <1>1, <2>1, <3>2
  <2> QED BY <1>3, <1>4, <2>1, <2>2 DEF Holds
<1>9. \A i, j \in DOMAIN rest :
        i < j /\ rest[i].loop = rest[j].loop => rest[i].number < rest[j].number
  <2> SUFFICES ASSUME NEW i \in DOMAIN rest, NEW j \in DOMAIN rest, i < j,
                      rest[i].loop = rest[j].loop
               PROVE  rest[i].number < rest[j].number
    OBVIOUS
  <2>1. i + 1 < j + 1 /\ i + 1 \in DOMAIN chan /\ j + 1 \in DOMAIN chan  BY <1>1
  <2> QED BY <1>1, <2>1 DEF Holds
<1>10. ASSUME NEW k \in DcLoops, NEW n \in 1 .. DcMaxFinds, begun2[k] < n, n <= sent[k]
       PROVE  \E i \in DOMAIN rest : rest[i] = [loop |-> k, number |-> n]
  <2>1. begun[k] < n /\ (k = l => d.number < n)
    BY <1>2, <1>4, <1>5, <1>10
  <2>2. PICK i \in DOMAIN chan : chan[i] = [loop |-> k, number |-> n]
    BY <1>10, <2>1 DEF Holds
  <2>3. i # 1
    <3> SUFFICES ASSUME i = 1 PROVE FALSE  OBVIOUS
    <3>1. d.loop = k /\ d.number = n  BY <1>1, <2>2
    <3> QED BY <1>2, <2>1, <3>1 DEF l
  <2>4. i - 1 \in DOMAIN rest /\ (i - 1) + 1 = i  BY <1>1, <2>3
  <2>5. rest[i - 1] = [loop |-> k, number |-> n]  BY <1>1, <2>2, <2>4
  <2> QED BY <2>4, <2>5
<1>11. Holds(rest, begun2, sent)
  BY <1>7, <1>8, <1>9, <1>10 DEF Holds
<1> QED BY <1>6, <1>11 DEF d, l, rest, begun2

LEMMA DcSentTyped == DcTypeOK => DcSent \in [DcLoops -> Int]
BY DEF DcTypeOK, DcSent

(* Another place is awaited. *)
LEMMA WaitsMore ==
  ASSUME NEW queue \in Seq(DcLoops), NEW granted, NEW l \in DcLoops, Waits(queue, granted),
         \A i \in DOMAIN queue : queue[i] # l, l \notin granted
  PROVE  /\ Append(queue, l) \in Seq(DcLoops)
         /\ Len(Append(queue, l)) = Len(queue) + 1
         /\ DOMAIN Append(queue, l) = 1 .. Len(queue) + 1
         /\ \A i \in 1 .. Len(queue) : Append(queue, l)[i] = queue[i]
         /\ Append(queue, l)[Len(queue) + 1] = l
         /\ Waits(Append(queue, l), granted)
<1> DEFINE more == Append(queue, l)
<1>1. more \in Seq(DcLoops) /\ Len(more) = Len(queue) + 1 /\ DOMAIN queue = 1 .. Len(queue)
      /\ Len(queue) \in Nat
  OBVIOUS
<1>2. DOMAIN more = 1 .. Len(queue) + 1  BY <1>1
<1>3. \A i \in 1 .. Len(queue) : more[i] = queue[i]  OBVIOUS
<1>4. more[Len(queue) + 1] = l  OBVIOUS
<1> HIDE DEF more
<1>5. Waits(more, granted)
  BY <1>1, <1>2, <1>3, <1>4 DEF Waits
<1> QED BY <1>1, <1>2, <1>3, <1>4, <1>5 DEF more

LEMMA DcInitIInv == DcInit => DcIInv
<1> SUFFICES ASSUME DcInit PROVE DcIInv
  OBVIOUS
<1> USE DEF DcInit
<1>1. Cardinality(dcGranted) = 0 /\ DcCap \in Nat /\ DcMaxFinds \in Nat
  BY DcAssumption, FS_EmptySet
<1>2. dcChan \in Seq(DcDevices) /\ Len(dcChan) = 0 /\ DOMAIN dcChan = {}
      /\ dcWaiting \in Seq(DcLoops) /\ DOMAIN dcWaiting = {}
  OBVIOUS
<1>3. DcTypeOK
  BY <1>1, <1>2 DEF DcTypeOK
<1>4. WaitsOnce /\ StartsAhead
  BY <1>2 DEF WaitsOnce, Waits, StartsAhead
<1>5. DcSent = [l \in DcLoops |-> 0]
  BY <1>2 DEF DcSent, Awaits
<1>6. HeldInOrder
  BY <1>2, <1>5, DcAssumption DEF HeldInOrder, Holds
<1> QED BY <1>3, <1>4, <1>6 DEF DcIInv

LEMMA OfferIInv ==
  ASSUME DcIInv, NEW l \in DcLoops, Offer(l)
  PROVE  DcIInv'
<1>1. /\ dcFound \in [DcLoops -> 0 .. DcMaxFinds] /\ dcBegun \in [DcLoops -> 0 .. DcMaxFinds]
      /\ dcWaiting \in Seq(DcLoops) /\ dcGranted \in SUBSET DcLoops
      /\ dcChan \in Seq(DcDevices) /\ dcNow \in DcDevices \cup {DcNone}
      /\ dcFree \in 0 .. DcCap /\ dcFree + Cardinality(dcGranted) + Len(dcChan) = DcCap
      /\ dcStarts \in [DcLoops -> Nat] /\ DcMaxFinds \in Nat /\ DcCap \in Nat
  BY DcAssumption DEF DcIInv, DcTypeOK
<1>2. Cardinality(dcGranted) \in Nat
  BY <1>1, LoopsFinite, FS_Subset, FS_CardinalityType
<1>3. /\ ~Awaits(l) /\ l \notin dcGranted /\ dcFound[l] < DcMaxFinds
      /\ dcFound' = [dcFound EXCEPT ![l] = @ + 1]
      /\ UNCHANGED <<dcGranted, dcNow, dcBegun>>
  BY DEF Offer
<1>4. dcFound' \in [DcLoops -> 0 .. DcMaxFinds]
  BY <1>1, <1>3
<1>5. \A i \in DOMAIN dcWaiting : dcWaiting[i] # l
  BY <1>3 DEF Awaits
<1>6. CASE dcFree > 0
  <2> DEFINE d == [loop |-> l, number |-> DcSent[l] + 1]
  <2>1. /\ dcFree' = dcFree - 1 /\ dcChan' = Append(dcChan, [loop |-> l, number |-> dcFound[l] + 1])
        /\ UNCHANGED <<dcWaiting, dcStarts>>
    BY <1>1, <1>3, <1>6 DEF Offer, Offered
  <2>2. DcSent[l] = dcFound[l]
    BY <1>1, <1>3 DEF DcSent
  <2>3. DcSent[l] + 1 \in 1 .. DcMaxFinds  BY <1>1, <1>3, <2>2
  <2>4. d \in DcDevices  BY <2>3 DEF DcDevices
  <2>5. DcSent' = [DcSent EXCEPT ![l] = @ + 1]
    <3>1. \A k \in DcLoops : Awaits(k)' <=> Awaits(k)
      BY <2>1 DEF Awaits
    <3>2. \A k \in DcLoops : DcSent'[k] = IF k = l THEN DcSent[k] + 1 ELSE DcSent[k]
      <4> TAKE k \in DcLoops
      <4>1. DcSent'[k] = dcFound'[k] - (IF Awaits(k)' \/ k \in dcGranted THEN 1 ELSE 0)
            /\ DcSent[k] = dcFound[k] - (IF Awaits(k) \/ k \in dcGranted THEN 1 ELSE 0)
        BY <1>3 DEF DcSent
      <4>2. dcFound'[k] = (IF k = l THEN dcFound[k] + 1 ELSE dcFound[k]) /\ dcFound[k] \in Int
        BY <1>1, <1>3
      <4>3. k = l => ~Awaits(k) /\ k \notin dcGranted  BY <1>3
      <4> QED BY <3>1, <4>1, <4>2, <4>3
    <3>3. DcSent' = [k \in DcLoops |-> DcSent'[k]] /\ DcSent = [k \in DcLoops |-> DcSent[k]]
      BY DEF DcSent
    <3> QED BY <3>2, <3>3
  <2>6. dcChan' = Append(dcChan, d)  BY <2>1, <2>2
  <2> HIDE DEF d
  <2>7. dcChan' \in Seq(DcDevices) /\ Len(dcChan') = Len(dcChan) + 1
    BY <1>1, <2>4, <2>6
  <2>8. HeldInOrder'
    <3>1. Holds(dcChan, dcBegun, DcSent) /\ DcSent \in [DcLoops -> Int]
          /\ dcBegun \in [DcLoops -> Int]
      BY <1>1, DcSentTyped DEF DcIInv, HeldInOrder
    <3>2. Holds(Append(dcChan, d), dcBegun, [DcSent EXCEPT ![l] = @ + 1])
      BY <1>1, <2>3, <3>1, HoldsMore DEF d
    <3> QED BY <1>3, <2>5, <2>6, <3>2 DEF HeldInOrder
  <2>9. DcTypeOK'
    <3>1. dcFree' \in 0 .. DcCap /\ dcFree' + Cardinality(dcGranted) + Len(dcChan') = DcCap
      BY <1>1, <1>2, <1>6, <2>1, <2>7
    <3> QED BY <1>3, <1>4, <2>1, <2>7, <3>1 DEF DcIInv, DcTypeOK
  <2>10. WaitsOnce' /\ StartsAhead'
    BY <1>3, <2>1 DEF DcIInv, WaitsOnce, StartsAhead
  <2> QED BY <2>8, <2>9, <2>10 DEF DcIInv
<1>7. CASE ~(dcFree > 0)
  <2>1. /\ dcWaiting' = Append(dcWaiting, l) /\ dcStarts' = [dcStarts EXCEPT ![l] = 0]
        /\ UNCHANGED <<dcFree, dcChan>>
    BY <1>7 DEF Offer
  <2>2. /\ dcWaiting' \in Seq(DcLoops) /\ Len(dcWaiting') = Len(dcWaiting) + 1
        /\ DOMAIN dcWaiting' = 1 .. Len(dcWaiting) + 1
        /\ \A i \in 1 .. Len(dcWaiting) : dcWaiting'[i] = dcWaiting[i]
        /\ dcWaiting'[Len(dcWaiting) + 1] = l
        /\ Waits(dcWaiting', dcGranted)
    BY <1>1, <1>3, <1>5, <2>1, WaitsMore DEF DcIInv, WaitsOnce
  <2>3. DOMAIN dcWaiting = 1 .. Len(dcWaiting) /\ Len(dcWaiting) \in Nat
    BY <1>1
  <2>4. WaitsOnce'
    BY <1>3, <2>2 DEF WaitsOnce
  <2>5. Len(dcWaiting) + 1 <= Cardinality(DcLoops)
    BY <2>2, WaitingIsShort DEF Waits
  <2>6. StartsAhead'
    <3> SUFFICES ASSUME NEW i \in 1 .. Len(dcWaiting) + 1
                 PROVE  dcStarts'[dcWaiting'[i]] + i
                          <= Cardinality(DcLoops) + (IF dcNow = DcNone THEN 1 ELSE 0)
      BY <1>3, <2>2 DEF StartsAhead
    <3>1. CASE i = Len(dcWaiting) + 1
      <4>1. dcStarts'[dcWaiting'[i]] = 0  BY <1>1, <2>1, <2>2, <3>1
      <4> QED BY <2>3, <2>5, <3>1, <4>1, LoopsFinite
    <3>2. CASE i \in 1 .. Len(dcWaiting)
      <4>1. dcWaiting'[i] = dcWaiting[i] /\ dcWaiting[i] # l /\ dcWaiting[i] \in DcLoops
        <5>1. dcWaiting'[i] = dcWaiting[i]  BY <2>2, <3>2
        <5>2. i \in DOMAIN dcWaiting  BY <2>3, <3>2
        <5>3. dcWaiting[i] \in DcLoops  BY <1>1, <5>2
        <5> QED BY <1>5, <5>1, <5>2, <5>3
      <4>2. dcStarts'[dcWaiting'[i]] = dcStarts[dcWaiting[i]]  BY <1>1, <2>1, <4>1
      <4> QED BY <2>3, <3>2, <4>2 DEF DcIInv, StartsAhead
    <3> QED BY <2>3, <3>1, <3>2
  <2>7. \A k \in DcLoops : Awaits(k)' <=> Awaits(k) \/ k = l
    <3> TAKE k \in DcLoops
    <3>1. ASSUME Awaits(k)' PROVE Awaits(k) \/ k = l
      <4>1. PICK i \in 1 .. Len(dcWaiting) + 1 : dcWaiting'[i] = k
        BY <2>2, <3>1 DEF Awaits
      <4> QED BY <2>2, <2>3, <4>1 DEF Awaits
    <3>2. ASSUME Awaits(k) PROVE Awaits(k)'
      <4>1. PICK i \in 1 .. Len(dcWaiting) : dcWaiting[i] = k
        BY <2>3, <3>2 DEF Awaits
      <4> QED BY <2>2, <2>3, <4>1 DEF Awaits
    <3>3. ASSUME k = l PROVE Awaits(k)'
      BY <2>2, <2>3, <3>3 DEF Awaits
    <3> QED BY <3>1, <3>2, <3>3
  <2>8. DcSent' = DcSent
    <3> SUFFICES ASSUME NEW k \in DcLoops
                 PROVE  dcFound'[k] - (IF Awaits(k)' \/ k \in dcGranted THEN 1 ELSE 0)
                          = dcFound[k] - (IF Awaits(k) \/ k \in dcGranted THEN 1 ELSE 0)
      BY <1>3 DEF DcSent
    <3>1. CASE k = l
      <4>1. Awaits(k)' /\ ~Awaits(k) /\ k \notin dcGranted  BY <1>3, <2>7, <3>1
      <4>2. dcFound'[k] = dcFound[k] + 1 /\ dcFound[k] \in Int  BY <1>1, <1>3, <3>1
      <4> QED BY <4>1, <4>2
    <3>2. CASE k # l
      <4>1. Awaits(k)' <=> Awaits(k)  BY <2>7, <3>2
      <4>2. dcFound'[k] = dcFound[k]  BY <1>1, <1>3, <3>2
      <4> QED BY <4>1, <4>2
    <3> QED BY <3>1, <3>2
  <2>9. HeldInOrder'
    BY <1>3, <2>1, <2>8 DEF DcIInv, HeldInOrder
  <2>10. dcStarts' \in [DcLoops -> Nat]  BY <1>1, <2>1
  <2>11. DcTypeOK'
    BY <1>1, <1>3, <1>4, <2>1, <2>2, <2>10 DEF DcTypeOK
  <2> QED BY <2>4, <2>6, <2>9, <2>11 DEF DcIInv
<1> QED BY <1>6, <1>7

LEMMA FillIInv ==
  ASSUME DcIInv, NEW l \in DcLoops, FillPlace(l)
  PROVE  DcIInv'
<1>1. /\ dcFound \in [DcLoops -> 0 .. DcMaxFinds] /\ dcBegun \in [DcLoops -> 0 .. DcMaxFinds]
      /\ dcGranted \in SUBSET DcLoops /\ dcChan \in Seq(DcDevices)
      /\ dcFree \in 0 .. DcCap /\ dcFree + Cardinality(dcGranted) + Len(dcChan) = DcCap
      /\ DcMaxFinds \in Nat /\ DcCap \in Nat
  BY DcAssumption DEF DcIInv, DcTypeOK
<1>2. /\ l \in dcGranted /\ dcGranted' = dcGranted \ {l}
      /\ dcChan' = Append(dcChan, [loop |-> l, number |-> dcFound[l]])
      /\ UNCHANGED <<dcFound, dcWaiting, dcFree, dcNow, dcBegun, dcStarts>>
  BY DEF FillPlace, Offered
<1>3. IsFiniteSet(dcGranted) /\ Cardinality(dcGranted) \in Nat
      /\ Cardinality(dcGranted') = Cardinality(dcGranted) - 1
  BY <1>1, <1>2, LoopsFinite, FS_Subset, FS_CardinalityType, FS_RemoveElement
<1>4. ~Awaits(l)
  BY <1>2 DEF DcIInv, WaitsOnce, Waits, Awaits
<1>5. DcSent[l] = dcFound[l] - 1 /\ dcFound[l] \in 0 .. DcMaxFinds
  BY <1>1, <1>2 DEF DcSent
<1>6. Holds(dcChan, dcBegun, DcSent) /\ DcSent \in [DcLoops -> Int] /\ dcBegun \in [DcLoops -> Int]
  BY <1>1, DcSentTyped DEF DcIInv, HeldInOrder
<1>7. DcSent[l] + 1 = dcFound[l] /\ DcSent[l] + 1 \in 1 .. DcMaxFinds
  <2>1. dcBegun[l] <= DcSent[l] /\ dcBegun[l] \in Nat  BY <1>1, <1>6 DEF Holds
  <2> QED BY <1>1, <1>5, <2>1
<1> DEFINE d == [loop |-> l, number |-> DcSent[l] + 1]
<1>8. d \in DcDevices /\ dcChan' = Append(dcChan, d)
  BY <1>2, <1>7 DEF DcDevices
<1>9. Holds(Append(dcChan, d), dcBegun, [DcSent EXCEPT ![l] = @ + 1])
  BY <1>1, <1>6, <1>7, HoldsMore
<1> HIDE DEF d
<1>10. DcSent' = [DcSent EXCEPT ![l] = @ + 1]
  <2>1. \A k \in DcLoops : Awaits(k)' <=> Awaits(k)
    BY <1>2 DEF Awaits
  <2>2. \A k \in DcLoops : DcSent'[k] = IF k = l THEN DcSent[k] + 1 ELSE DcSent[k]
    <3> TAKE k \in DcLoops
    <3>1. DcSent'[k] = dcFound[k] - (IF Awaits(k)' \/ k \in dcGranted' THEN 1 ELSE 0)
          /\ DcSent[k] = dcFound[k] - (IF Awaits(k) \/ k \in dcGranted THEN 1 ELSE 0)
      BY <1>2 DEF DcSent
    <3>2. CASE k = l
      <4>1. ~Awaits(k)' /\ k \notin dcGranted'  BY <1>2, <1>4, <2>1, <3>2
      <4>2. DcSent'[k] = dcFound[k]  BY <1>1, <3>1, <4>1
      <4> QED BY <1>7, <3>2, <4>2
    <3>3. CASE k # l
      <4>1. k \in dcGranted' <=> k \in dcGranted  BY <1>2, <3>3
      <4> QED BY <2>1, <3>1, <3>3, <4>1
    <3> QED BY <3>2, <3>3
  <2>3. DcSent' = [k \in DcLoops |-> DcSent'[k]] /\ DcSent = [k \in DcLoops |-> DcSent[k]]
    BY DEF DcSent
  <2> QED BY <2>2, <2>3
<1>11. HeldInOrder'
  BY <1>2, <1>8, <1>9, <1>10 DEF HeldInOrder
<1>12. dcChan' \in Seq(DcDevices) /\ Len(dcChan') = Len(dcChan) + 1
  BY <1>1, <1>8
<1>13. DcTypeOK'
  <2>1. dcGranted' \in SUBSET DcLoops  BY <1>1, <1>2
  <2>2. dcFree' + Cardinality(dcGranted') + Len(dcChan') = DcCap
    <3> DEFINE g == Cardinality(dcGranted)
               h == Cardinality(dcGranted')
               n == Len(dcChan)
               m == Len(dcChan')
    <3>1. g \in Nat /\ h = g - 1 /\ n \in Nat /\ m = n + 1 /\ dcFree + g + n = DcCap /\ dcFree' = dcFree
          /\ dcFree \in Nat
      BY <1>1, <1>2, <1>3, <1>12
    <3> HIDE DEF g, h, m, n
    <3>2. dcFree' + h + m = DcCap  BY <3>1
    <3> QED BY <3>2 DEF h, m
  <2> QED BY <1>2, <1>12, <2>1, <2>2 DEF DcIInv, DcTypeOK
<1>14. WaitsOnce' /\ StartsAhead'
  BY <1>2 DEF DcIInv, WaitsOnce, Waits, StartsAhead
<1> QED BY <1>11, <1>13, <1>14 DEF DcIInv

LEMMA TakeIInv == ASSUME DcIInv, TakeDevice PROVE DcIInv'
<1>1. /\ dcBegun \in [DcLoops -> 0 .. DcMaxFinds] /\ dcWaiting \in Seq(DcLoops)
      /\ dcGranted \in SUBSET DcLoops /\ dcChan \in Seq(DcDevices)
      /\ dcFree \in 0 .. DcCap /\ dcFree + Cardinality(dcGranted) + Len(dcChan) = DcCap
      /\ dcStarts \in [DcLoops -> Nat] /\ DcMaxFinds \in Nat /\ DcCap \in Nat
  BY DcAssumption DEF DcIInv, DcTypeOK
<1>2. /\ dcNow = DcNone /\ dcChan # <<>>
      /\ dcNow' = Head(dcChan) /\ dcChan' = Tail(dcChan)
      /\ dcBegun' = [dcBegun EXCEPT ![Head(dcChan).loop] = Head(dcChan).number]
      /\ UNCHANGED <<dcFound, dcStarts>>
  BY DEF TakeDevice
<1>3. IsFiniteSet(dcGranted) /\ Cardinality(dcGranted) \in Nat
  BY <1>1, LoopsFinite, FS_Subset, FS_CardinalityType
<1>4. Head(dcChan) \in DcDevices /\ dcChan' \in Seq(DcDevices) /\ Len(dcChan') = Len(dcChan) - 1
      /\ Len(dcChan) \in Nat /\ Len(dcChan) > 0
  BY <1>1, <1>2
<1>5. dcNow' \in DcDevices /\ dcNow' # DcNone
  BY <1>2, <1>4, DcAssumption DEF DcDevices
<1>6. dcBegun' \in [DcLoops -> 0 .. DcMaxFinds]
  <2>1. Head(dcChan).number \in 0 .. DcMaxFinds  BY <1>1, <1>4 DEF DcDevices
  <2> QED BY <1>1, <1>2, <2>1
<1>7. Holds(dcChan', dcBegun', DcSent)
  <2>1. dcBegun \in [DcLoops -> Nat] /\ DcSent \in [DcLoops -> Int]
    BY <1>1, DcSentTyped DEF DcIInv
  <2>2. Holds(dcChan, dcBegun, DcSent)  BY DEF DcIInv, HeldInOrder
  <2>3. Holds(Tail(dcChan), [dcBegun EXCEPT ![Head(dcChan).loop] = Head(dcChan).number], DcSent)
    BY <1>1, <1>2, <2>1, <2>2, HoldsLess
  <2> QED BY <1>2, <2>3
<1>8. CASE dcWaiting = <<>>
  <2>1. dcFree' = dcFree + 1 /\ UNCHANGED <<dcWaiting, dcGranted>>
    BY <1>8 DEF TakeDevice, FreePlace
  <2>2. DcSent' = DcSent
    BY <1>2, <2>1 DEF DcSent, Awaits
  <2>3. WaitsOnce' /\ StartsAhead'
    <3>1. DOMAIN dcWaiting' = {}  BY <1>8, <2>1
    <3> QED BY <3>1 DEF WaitsOnce, Waits, StartsAhead
  <2>4. dcFree' + Cardinality(dcGranted') + Len(dcChan') = DcCap /\ dcFree' \in 0 .. DcCap
    BY <1>1, <1>3, <1>4, <2>1
  <2>5. DcTypeOK'
    BY <1>2, <1>4, <1>5, <1>6, <2>1, <2>4 DEF DcIInv, DcTypeOK
  <2> QED BY <1>2, <1>7, <2>2, <2>3, <2>5 DEF DcIInv, HeldInOrder
<1>9. CASE dcWaiting # <<>>
  <2> DEFINE w == Head(dcWaiting)
  <2>1. dcGranted' = dcGranted \cup {w} /\ dcWaiting' = Tail(dcWaiting) /\ dcFree' = dcFree
    BY <1>9 DEF TakeDevice, FreePlace
  <2>2. /\ Len(dcWaiting) \in Nat /\ Len(dcWaiting) > 0 /\ DOMAIN dcWaiting = 1 .. Len(dcWaiting)
        /\ w = dcWaiting[1] /\ w \in DcLoops
    BY <1>1, <1>9
  <2>3. dcWaiting' \in Seq(DcLoops) /\ Len(dcWaiting') = Len(dcWaiting) - 1
    BY <1>1, <1>9, <2>1
  <2>4. DOMAIN dcWaiting' = 1 .. Len(dcWaiting) - 1
    BY <2>2, <2>3
  <2>5. \A i \in 1 .. Len(dcWaiting) - 1 : dcWaiting'[i] = dcWaiting[i + 1]
    BY <1>1, <1>9, <2>1
  <2> HIDE DEF w
  <2>6. \A i \in DOMAIN dcWaiting' : i + 1 \in DOMAIN dcWaiting /\ i + 1 # 1
    BY <2>2, <2>4
  <2>7. WaitsOnce'
    <3>1. \A i, j \in DOMAIN dcWaiting' : dcWaiting'[i] = dcWaiting'[j] => i = j
      <4> SUFFICES ASSUME NEW i \in 1 .. Len(dcWaiting) - 1, NEW j \in 1 .. Len(dcWaiting) - 1,
                          dcWaiting'[i] = dcWaiting'[j]
                   PROVE  i = j
        BY <2>4
      <4>1. dcWaiting[i + 1] = dcWaiting[j + 1]  BY <2>5
      <4>2. i + 1 = j + 1  BY <2>4, <2>6, <4>1 DEF DcIInv, WaitsOnce, Waits
      <4> QED BY <2>2, <4>2
    <3>2. \A i \in DOMAIN dcWaiting' : dcWaiting'[i] \notin dcGranted'
      <4> TAKE i \in DOMAIN dcWaiting'
      <4>1. dcWaiting'[i] = dcWaiting[i + 1]  BY <2>4, <2>5
      <4>2. dcWaiting[i + 1] \notin dcGranted  BY <2>6 DEF DcIInv, WaitsOnce, Waits
      <4>3. dcWaiting[i + 1] # w  BY <2>2, <2>6 DEF DcIInv, WaitsOnce, Waits
      <4> QED BY <2>1, <4>1, <4>2, <4>3
    <3> QED BY <3>1, <3>2 DEF WaitsOnce, Waits
  <2>8. StartsAhead'
    <3> SUFFICES ASSUME NEW i \in 1 .. Len(dcWaiting) - 1
                 PROVE  dcStarts[dcWaiting'[i]] + i <= Cardinality(DcLoops)
      BY <1>2, <1>5, <2>4, LoopsFinite DEF StartsAhead
    <3>1. dcWaiting'[i] = dcWaiting[i + 1] /\ i + 1 \in DOMAIN dcWaiting
      BY <2>4, <2>5, <2>6
    <3>2. dcStarts[dcWaiting[i + 1]] + (i + 1) <= Cardinality(DcLoops) + 1
      BY <1>2, <3>1 DEF DcIInv, StartsAhead
    <3>3. dcStarts[dcWaiting[i + 1]] \in Nat  BY <1>1, <3>1
    <3> QED BY <2>2, <3>1, <3>2, <3>3, LoopsFinite
  <2>9. \A k \in DcLoops : (Awaits(k)' \/ k \in dcGranted') <=> (Awaits(k) \/ k \in dcGranted)
    <3> TAKE k \in DcLoops
    <3>1. ASSUME Awaits(k)' PROVE Awaits(k)
      <4>1. PICK i \in DOMAIN dcWaiting' : dcWaiting'[i] = k  BY <3>1 DEF Awaits
      <4>2. dcWaiting[i + 1] = k /\ i + 1 \in DOMAIN dcWaiting  BY <2>4, <2>5, <2>6, <4>1
      <4> QED BY <4>2 DEF Awaits
    <3>2. ASSUME Awaits(k), k # w PROVE Awaits(k)'
      <4>1. PICK i \in DOMAIN dcWaiting : dcWaiting[i] = k  BY <3>2 DEF Awaits
      <4>2. i # 1  BY <2>2, <3>2, <4>1
      <4>3. i - 1 \in 1 .. Len(dcWaiting) - 1 /\ (i - 1) + 1 = i  BY <2>2, <4>2
      <4>4. dcWaiting'[i - 1] = k  BY <2>5, <4>1, <4>3
      <4> QED BY <2>4, <4>3, <4>4 DEF Awaits
    <3>3. Awaits(w)  BY <2>2 DEF Awaits
    <3> QED BY <2>1, <3>1, <3>2, <3>3
  <2>10. DcSent' = DcSent
    BY <1>2, <2>9 DEF DcSent
  <2>11. w \notin dcGranted  BY <2>2 DEF DcIInv, WaitsOnce, Waits
  <2>12. Cardinality(dcGranted') = Cardinality(dcGranted) + 1
    BY <1>3, <2>1, <2>11, FS_AddElement
  <2>13. dcFree' + Cardinality(dcGranted') + Len(dcChan') = DcCap
    <3> DEFINE g == Cardinality(dcGranted)
               h == Cardinality(dcGranted')
               n == Len(dcChan)
               m == Len(dcChan')
    <3>1. g \in Nat /\ h = g + 1 /\ n \in Nat /\ m = n - 1 /\ dcFree + g + n = DcCap /\ dcFree' = dcFree
          /\ dcFree \in Nat
      BY <1>1, <1>3, <1>4, <2>1, <2>12
    <3> HIDE DEF g, h, m, n
    <3>2. dcFree' + h + m = DcCap  BY <3>1
    <3> QED BY <3>2 DEF h, m
  <2>14. dcGranted' \in SUBSET DcLoops  BY <1>1, <2>1, <2>2
  <2>15. DcTypeOK'
    BY <1>2, <1>4, <1>5, <1>6, <2>1, <2>3, <2>13, <2>14 DEF DcIInv, DcTypeOK
  <2> QED BY <1>2, <1>7, <2>7, <2>8, <2>10, <2>15 DEF DcIInv, HeldInOrder
<1> QED BY <1>8, <1>9

LEMMA EndIInv == ASSUME DcIInv, EndStart PROVE DcIInv'
<1>1. /\ dcNow # DcNone /\ dcNow' = DcNone
      /\ dcStarts' = [l \in DcLoops |-> dcStarts[l] + (IF Awaits(l) THEN 1 ELSE 0)]
      /\ UNCHANGED <<dcFound, dcWaiting, dcGranted, dcFree, dcChan, dcBegun>>
  BY DEF EndStart
<1>2. dcStarts \in [DcLoops -> Nat] /\ dcWaiting \in Seq(DcLoops)
  BY DEF DcIInv, DcTypeOK
<1>3. dcStarts' \in [DcLoops -> Nat]
  BY <1>1, <1>2
<1>4. DcTypeOK'
  BY <1>1, <1>3 DEF DcIInv, DcTypeOK
<1>5. StartsAhead'
  <2> SUFFICES ASSUME NEW i \in DOMAIN dcWaiting
               PROVE  dcStarts'[dcWaiting[i]] + i <= Cardinality(DcLoops) + 1
    BY <1>1 DEF StartsAhead
  <2>1. dcWaiting[i] \in DcLoops /\ Awaits(dcWaiting[i]) /\ i \in Int
    BY <1>2 DEF Awaits
  <2>2. dcStarts'[dcWaiting[i]] = dcStarts[dcWaiting[i]] + 1  BY <1>1, <2>1
  <2>3. dcStarts[dcWaiting[i]] + i <= Cardinality(DcLoops) /\ dcStarts[dcWaiting[i]] \in Nat
    BY <1>1, <1>2, <2>1, LoopsFinite DEF DcIInv, StartsAhead
  <2> QED BY <2>1, <2>2, <2>3, LoopsFinite
<1>6. DcSent' = DcSent
  BY <1>1 DEF DcSent, Awaits
<1> QED BY <1>1, <1>4, <1>5, <1>6 DEF DcIInv, WaitsOnce, HeldInOrder

LEMMA DcNextIInv == DcIInv /\ [DcNext]_dcVars => DcIInv'
<1> SUFFICES ASSUME DcIInv, [DcNext]_dcVars PROVE DcIInv'
  OBVIOUS
<1>1. CASE UNCHANGED dcVars
  BY <1>1 DEF dcVars, DcIInv, DcTypeOK, WaitsOnce, StartsAhead, HeldInOrder, DcSent, Awaits
<1> QED BY <1>1, OfferIInv, FillIInv, TakeIInv, EndIInv DEF DcNext

LEMMA WaitsWithin == DcIInv => WaitsAreBounded
<1> SUFFICES ASSUME DcIInv, NEW l \in DcLoops, Awaits(l)
             PROVE  dcStarts[l] <= Cardinality(DcLoops)
  BY DEF WaitsAreBounded
<1>1. PICK i \in DOMAIN dcWaiting : dcWaiting[i] = l  BY DEF Awaits
<1>2. i >= 1 /\ i \in Int /\ dcStarts[l] \in Nat
  <2>1. dcWaiting \in Seq(DcLoops) /\ dcStarts \in [DcLoops -> Nat]  BY DEF DcIInv, DcTypeOK
  <2>2. DOMAIN dcWaiting = 1 .. Len(dcWaiting) /\ Len(dcWaiting) \in Nat  BY <2>1
  <2> QED BY <2>1, <2>2
<1>3. dcStarts[l] + i <= Cardinality(DcLoops) + 1
  BY <1>1, <1>2, LoopsFinite DEF DcIInv, StartsAhead
<1> QED BY <1>2, <1>3, LoopsFinite

LEMMA StepInOrder ==
  ASSUME DcIInv, [DcNext]_dcVars, NEW l \in DcLoops, dcBegun'[l] # dcBegun[l]
  PROVE  dcBegun'[l] = dcBegun[l] + 1
<1>1. TakeDevice
  BY DEF DcNext, dcVars, Offer, FillPlace, EndStart
<1>2. /\ dcChan # <<>>
      /\ dcBegun' = [dcBegun EXCEPT ![Head(dcChan).loop] = Head(dcChan).number]
  BY <1>1 DEF TakeDevice
<1>3. /\ dcChan \in Seq(DcDevices) /\ dcBegun \in [DcLoops -> Nat] /\ DcSent \in [DcLoops -> Int]
      /\ Holds(dcChan, dcBegun, DcSent)
  BY DcAssumption, DcSentTyped DEF DcIInv, DcTypeOK, HeldInOrder
<1>4. Head(dcChan).number = dcBegun[Head(dcChan).loop] + 1
  BY <1>2, <1>3, HoldsLess
<1> QED BY <1>2, <1>3, <1>4

THEOREM ChannelTypeCorrect == DcSpec => []DcTypeOK
<1>1. DcIInv => DcTypeOK  BY DEF DcIInv
<1> QED BY <1>1, DcInitIInv, DcNextIInv, PTL DEF DcSpec

(* Whatever the capacity of the channel, a loop waits for no more starts   *)
(* than there are loops: the places are handed out in the order in which   *)
(* they were asked for, and a loop asks for one at a time                  *)
(* (supervisor.rs:21, 36-38).                                              *)
THEOREM WaitBounded == DcSpec => []WaitsAreBounded
BY WaitsWithin, DcInitIInv, DcNextIInv, PTL DEF DcSpec

(* The devices of a loop are started in the order they were found, though  *)
(* a loop that was given a place may be overtaken before it fills it       *)
(* (supervisor.rs:36-38).                                                  *)
THEOREM StartedInOrder == DcSpec => StartsInOrder
<1>1. DcIInv /\ [DcNext]_dcVars =>
        [\A l \in DcLoops : dcBegun'[l] # dcBegun[l] => dcBegun'[l] = dcBegun[l] + 1]_dcVars
  BY StepInOrder
<1> QED BY <1>1, DcInitIInv, DcNextIInv, PTL DEF DcSpec, StartsInOrder
=============================================================================
