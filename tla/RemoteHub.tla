------------------------------ MODULE RemoteHub ------------------------------
(***************************************************************************)
(* The remote hub, crates/device-remote: phones (hubs) announce handles    *)
(* and stream their samples over UDP; one task routes the datagrams to a   *)
(* RemoteDevice per (hub, handle), and rumble goes back to the port the    *)
(* hub was last heard from.                                                *)
(*                                                                         *)
(* The life of a RemoteDevice after it was offered, its reader, its        *)
(* pipeline, its registry entry, is reduced to what the hub can notice;    *)
(* DeviceRegistry has the detail.  A device is known by a slot, which is   *)
(* used again once nothing refers to it.                                   *)
(***************************************************************************)
EXTENDS Integers, Sequences

CONSTANTS
  Hubs, Handles,
  Ports,       \* the source ports a hub may have
  Roles,       \* for each (hub, handle): whether it may announce rate 0, or not 0
  Slots,       \* bound: devices at a time
  QueueCap,    \* events a route holds (256)
  StaleSweeps, \* STALE_AFTER over SWEEP_EVERY
  MaxFaults    \* bound: reconnects, removals, late datagrams, losses, failures

ASSUME HubAssumption ==
  /\ Hubs # {} /\ Handles # {}
  /\ Roles \in [Hubs \X Handles -> (SUBSET BOOLEAN) \ {{}}]
  /\ QueueCap \in Nat \ {0} /\ StaleSweeps \in Nat \ {0} /\ MaxFaults \in Nat
  /\ Slots \subseteq Nat \ {0} /\ Ports \subseteq Nat \ {0}

VARIABLES
  route,     \* routes: the device of each (hub, handle) that has a route
  age,       \* Route.last_seen, in sweeps since
  peer,      \* hub_peers: what the shared cell of each hub holds
  key,       \* the (hub, handle) of each device
  quiet,     \* RemoteDevice.haptics_only
  life,      \* where each device is
  tied,      \* RemoteDevice.peer is the cell in hub_peers ...
  last,      \* ... or else what its cell was left at
  queue,     \* events in its channel
  offers,    \* devices on their way to the supervisor
  entry,     \* the device registered for each (hub, handle)
  hubPort,   \* the port each hub sends from
  faults

devVars == <<key, quiet, life, tied, last, queue>>
vars == <<route, age, peer, devVars, offers, entry, hubPort, faults>>

Keys  == Hubs \X Handles
Hub(k) == k[1]
None  == 0

(* A device is offered to the supervisor, and then runs; its pipeline may  *)
(* have failed, and its reader may have noticed (deaf); its route may be   *)
(* gone, which the pipeline of a tracker is being told (leaving), and that *)
(* of a haptics-only device is not (mute); or its handle was dropped from  *)
(* the registry and its driver will be stopped (orphan).                   *)
Lives == {"none", "offered", "running", "failed", "deaf", "leaving", "mute", "orphan"}

HubTypeOK ==
  /\ route \in [Keys -> Slots \cup {None}] /\ age \in [Keys -> 0 .. StaleSweeps]
  /\ peer \in [Hubs -> Ports \cup {None}]
  /\ key \in [Slots -> Keys] /\ quiet \in [Slots -> BOOLEAN]
  /\ life \in [Slots -> Lives]
  /\ tied \in [Slots -> BOOLEAN] /\ last \in [Slots -> Ports \cup {None}]
  /\ queue \in [Slots -> 0 .. QueueCap]
  /\ offers \in Seq(Slots)
  /\ entry \in [Keys -> Slots \cup {None}]
  /\ hubPort \in [Hubs -> Ports]
  /\ faults \in 0 .. MaxFaults

Init ==
  /\ route = [k \in Keys |-> None] /\ age = [k \in Keys |-> 0]
  /\ peer = [h \in Hubs |-> None]
  /\ key = [s \in Slots |-> CHOOSE k \in Keys : TRUE]
  /\ quiet = [s \in Slots |-> FALSE]
  /\ life = [s \in Slots |-> "none"]
  /\ tied = [s \in Slots |-> FALSE] /\ last = [s \in Slots |-> None]
  /\ queue = [s \in Slots |-> 0]
  /\ offers = <<>>
  /\ entry = [k \in Keys |-> None]
  /\ hubPort \in [Hubs -> Ports]
  /\ faults = 0

Fault == faults < MaxFaults /\ faults' = faults + 1

-----------------------------------------------------------------------------
(* The recv loop *)

(* A datagram comes from the hub's port; one that was late may come from   *)
(* another.                                                                *)
From(h, p) == IF p = hubPort[h] THEN UNCHANGED faults ELSE Fault

(* Nothing refers to the slot. *)
FreeSlots == {s \in Slots : life[s] = "none" /\ \A k \in Keys : route[k] # s}

(* RemoteDevice::new, with the hub's cell. *)
New(s, k, q) ==
  /\ key' = [key EXCEPT ![s] = k] /\ quiet' = [quiet EXCEPT ![s] = q]
  /\ life' = [life EXCEPT ![s] = "offered"]
  /\ tied' = [tied EXCEPT ![s] = TRUE] /\ last' = [last EXCEPT ![s] = None]
  /\ queue' = [queue EXCEPT ![s] = 0]
  /\ offers' = Append(offers, s)

(* The role of a handle that has a route is not looked at.                 *)
Announce(k, q, p) ==
  /\ q \in Roles[k] /\ From(Hub(k), p)
  /\ peer' = [peer EXCEPT ![Hub(k)] = p]
  /\ age' = [age EXCEPT ![k] = 0]
  /\ \/ route[k] # None /\ UNCHANGED <<route, devVars, offers>>
     \/ /\ route[k] = None /\ FreeSlots # {}
        /\ LET s == CHOOSE s \in FreeSlots : TRUE
           IN  route' = [route EXCEPT ![k] = s] /\ New(s, k, q)
  /\ UNCHANGED <<entry, hubPort>>

(* The receiver of the events is dropped. *)
Closed(s) == life[s] \in {"none", "deaf", "leaving", "mute"}

(* Mutated form: a device that has gone keeps its route. *)
EventKeepsRoute(k, p) ==
  /\ route[k] # None /\ From(Hub(k), p)
  /\ peer' = [peer EXCEPT ![Hub(k)] = p]
  /\ age' = [age EXCEPT ![k] = 0]
  /\ queue' = IF queue[route[k]] < QueueCap THEN [queue EXCEPT ![route[k]] = @ + 1] ELSE queue
  /\ UNCHANGED <<route, key, quiet, life, tied, last, offers, entry, hubPort>>

(* route_event: samples, a battery level or a button.  An event that finds *)
(* the channel full is dropped, one that finds it closed ends the route.   *)
Event(k, p) ==
  /\ route[k] # None /\ From(Hub(k), p)
  /\ peer' = [peer EXCEPT ![Hub(k)] = p]
  /\ age' = [age EXCEPT ![k] = 0]
  /\ LET s == route[k]
     IN  IF Closed(s)
         THEN route' = [route EXCEPT ![k] = None] /\ UNCHANGED queue
         ELSE /\ queue' = IF queue[s] < QueueCap THEN [queue EXCEPT ![s] = @ + 1] ELSE queue
              /\ UNCHANGED route
  /\ UNCHANGED <<key, quiet, life, tied, last, offers, entry, hubPort>>

(* The hub takes a device away. *)
Remove(k) ==
  /\ route[k] # None /\ Fault
  /\ route' = [route EXCEPT ![k] = None]
  /\ UNCHANGED <<age, peer, devVars, offers, entry, hubPort>>

Hello(h, p) ==
  /\ \E k \in Keys : Hub(k) = h /\ route[k] # None
  /\ From(h, p)
  /\ peer' = [peer EXCEPT ![h] = p]
  /\ UNCHANGED <<route, age, devVars, offers, entry, hubPort>>

Stale == {k \in Keys : route[k] # None /\ age[k] = StaleSweeps}

(* The cells of hubs not in H leave hub_peers; devices keep what they have *)
(* in hand.                                                                *)
KeepPeers(H) ==
  /\ peer' = [h \in Hubs |-> IF h \in H THEN peer[h] ELSE None]
  /\ tied' = [s \in Slots |-> tied[s] /\ Hub(key[s]) \in H]
  /\ last' = [s \in Slots |-> IF tied[s] /\ ~tied'[s] THEN peer[Hub(key[s])] ELSE last[s]]

(* Mutated form: a hub that lost a route loses its cell. *)
SweepWholeHub ==
  /\ IF Stale = {} THEN UNCHANGED faults ELSE Fault
  /\ route' = [k \in Keys |-> IF k \in Stale THEN None ELSE route[k]]
  /\ age' = [k \in Keys |-> IF route'[k] # None THEN age[k] + 1 ELSE 0]
  /\ KeepPeers({h \in Hubs : \A k \in Stale : Hub(k) # h})
  /\ UNCHANGED <<key, quiet, life, queue, offers, entry, hubPort>>

(* Every five seconds routes not heard of for long are dropped, and the    *)
(* cells of hubs without a route.                                          *)
Sweep ==
  /\ IF Stale = {} THEN UNCHANGED faults ELSE Fault
  /\ route' = [k \in Keys |-> IF k \in Stale THEN None ELSE route[k]]
  /\ age' = [k \in Keys |-> IF route'[k] # None THEN age[k] + 1 ELSE 0]
  /\ KeepPeers({Hub(k) : k \in {j \in Keys : route'[j] # None}})
  /\ UNCHANGED <<key, quiet, life, queue, offers, entry, hubPort>>

-----------------------------------------------------------------------------
(* The device, its reader, and what becomes of its registration *)

(* The handle is dropped from the registry. *)
Dropped(s) == IF life[s] = "leaving" THEN "leaving" ELSE "orphan"

(* The supervisor starts the device and registers it in the place of the   *)
(* one before.                                                             *)
Register ==
  /\ offers # <<>>
  /\ offers' = Tail(offers)
  /\ LET s == Head(offers)
         old == entry[key[s]]
     IN  /\ entry' = [entry EXCEPT ![key[s]] = s]
         /\ life' = [t \in Slots |-> IF t = s THEN "running"
                                     ELSE IF t = old THEN Dropped(t) ELSE life[t]]
  /\ UNCHANGED <<route, age, peer, key, quiet, tied, last, queue, hubPort, faults>>

(* The reader forwards an event; a haptics-only device swallows it.  If    *)
(* the pipeline is gone the reader ends.                                   *)
Read(s) ==
  /\ life[s] \in {"running", "failed", "orphan"} /\ queue[s] > 0
  /\ queue' = [queue EXCEPT ![s] = @ - 1]
  /\ life' = [life EXCEPT ![s] = IF @ = "failed" THEN "deaf" ELSE @]
  /\ UNCHANGED <<route, age, peer, key, quiet, tied, last, offers, entry, hubPort, faults>>

(* The factory dropped the sender: a tracker's pipeline is told so, if it  *)
(* is still there.                                                         *)
RouteClosed(s) ==
  /\ life[s] \in {"running", "failed", "orphan"} /\ queue[s] = 0
  /\ \A k \in Keys : route[k] # s
  /\ life' = [life EXCEPT ![s] = IF @ = "failed" THEN "deaf"
                                ELSE IF ~quiet[s] THEN "leaving"
                                ELSE IF @ = "running" THEN "mute" ELSE @]
  /\ UNCHANGED <<route, age, peer, key, quiet, tied, last, queue, offers, entry, hubPort, faults>>

(* Disconnected ends the pipeline, and its task removes the entry of this  *)
(* DeviceId, whosever it is by now (see DeviceRegistry).                   *)
Reap(s) ==
  /\ life[s] = "leaving"
  /\ LET e == entry[key[s]]
     IN  life' = [t \in Slots |-> IF t = s THEN "none"
                                 ELSE IF t = e THEN Dropped(t) ELSE life[t]]
  /\ entry' = [entry EXCEPT ![key[s]] = None]
  /\ UNCHANGED <<route, age, peer, key, quiet, tied, last, queue, offers, hubPort, faults>>

(* A pipeline that was replaced may see that first. *)
Leave(s) ==
  /\ life[s] = "leaving" /\ entry[key[s]] # s
  /\ life' = [life EXCEPT ![s] = "none"]
  /\ UNCHANGED <<route, age, peer, key, quiet, tied, last, queue, offers, entry, hubPort, faults>>

(* The control task ends, stop aborts the reader, the device is dropped.   *)
StopDriver(s) ==
  /\ life[s] = "orphan"
  /\ life' = [life EXCEPT ![s] = "none"]
  /\ UNCHANGED <<route, age, peer, key, quiet, tied, last, queue, offers, entry, hubPort, faults>>

(* A send of the pipeline fails. *)
PipelineFails(s) ==
  /\ life[s] = "running" /\ ~quiet[s] /\ Fault
  /\ life' = [life EXCEPT ![s] = "failed"]
  /\ UNCHANGED <<route, age, peer, key, quiet, tied, last, queue, offers, entry, hubPort>>

(* The app on the phone reconnects, from another port. *)
Reconnect(h, p) ==
  /\ p # hubPort[h] /\ Fault
  /\ hubPort' = [hubPort EXCEPT ![h] = p]
  /\ UNCHANGED <<route, age, peer, devVars, offers, entry>>

Device(s) == Read(s) \/ RouteClosed(s) \/ StopDriver(s)
Datagram == \E p \in Ports :
  \/ \E k \in Keys : (\E q \in BOOLEAN : Announce(k, q, p)) \/ Event(k, p)
  \/ \E h \in Hubs : Hello(h, p)
Environment ==
  \/ \E k \in Keys : Remove(k)
  \/ \E h \in Hubs, p \in Ports : Reconnect(h, p)
  \/ \E s \in Slots : PipelineFails(s)

Next == \/ Datagram \/ Sweep \/ Register
        \/ \E s \in Slots : Device(s) \/ Reap(s) \/ Leave(s)
        \/ Environment

Spec == Init /\ [][Next]_vars

(* The tasks are polled; every hub announces its handles every few seconds *)
(* and its trackers stream.                                                *)
Fairness ==
  /\ WF_vars(Register)
  /\ \A s \in Slots : /\ WF_vars(Read(s) \/ RouteClosed(s))
                     /\ WF_vars(StopDriver(s)) /\ WF_vars(Reap(s) \/ Leave(s))
  /\ \A k \in Keys :
       /\ WF_vars(\E q \in BOOLEAN, p \in Ports : p = hubPort[Hub(k)] /\ Announce(k, q, p))
       /\ WF_vars(\E p \in Ports : p = hubPort[Hub(k)] /\ TRUE \notin Roles[k] /\ Event(k, p))

FairSpec == Spec /\ Fairness

-----------------------------------------------------------------------------
(* Properties *)

(* Where rumble for a device goes: set_rumble. *)
Target(s) == IF tied[s] THEN peer[Hub(key[s])] ELSE last[s]

(* A device that has a route shares the hub's one rumble target, although  *)
(* targets are dropped and made anew (factory.rs:73-76, 148, 192).         *)
OneTarget ==
  \A k \in Keys : route[k] # None => tied[route[k]] /\ peer[Hub(k)] # None

(* Rumble follows the hub to the port it was last heard from, whatever     *)
(* reconnects, late datagrams, removals and timeouts came before           *)
(* (factory.rs:73-76, device.rs:23-26).                                    *)
RumbleFollows ==
  <>[](\A k \in Keys : entry[k] # None => Target(entry[k]) = hubPort[Hub(k)])

(* A tracker that is announced and streams ends up registered and fed,     *)
(* whatever failed before: a route whose device is gone is noticed and     *)
(* made anew (factory.rs:193-213, 268-270).                                *)
TrackerComesBack ==
  <>[](\A k \in Keys : TRUE \notin Roles[k] =>
         entry[k] # None /\ route[k] = entry[k] /\ life[entry[k]] = "running")
=============================================================================
