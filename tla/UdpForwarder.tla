---------------------------- MODULE UdpForwarder ----------------------------
(***************************************************************************)
(* The 3DS and Vita forwarders, crates/device-3ds and crates/device-vita:  *)
(* consoles stream fixed-size datagrams to one listener, which keeps a     *)
(* route, with the time it last saw a packet, per source address and makes *)
(* a device for an address that has none.  The two listeners differ in     *)
(* what a malformed datagram and a receive error do, and in the silence    *)
(* they allow; udpKind says which of them a behaviour is about.            *)
(***************************************************************************)
EXTENDS Integers

CONSTANTS
  UdpPeers,    \* the consoles' addresses
  UdpDevs,     \* bound: devices at a time
  UdpQueueCap, \* packets a device's channel holds (256)
  UdpIdle,     \* ROUTE_IDLE_TIMEOUT of each kind, in ticks of 5 s
  UdpNone

ASSUME UdpAssumption ==
  /\ UdpQueueCap \in Nat \ {0} /\ UdpNone \notin UdpDevs \cup UdpPeers
  /\ UdpIdle \in [{"3ds", "vita"} -> Nat \ {0}]

VARIABLES
  udpKind,    \* the forwarder
  udpUp,      \* its enumerate_loop runs
  udpRoute,   \* routing: the device of each address
  udpAge,     \* ticks since last_seen, of a route or of the one being made
  udpAwait,   \* the address whose new device the listener is announcing
  udpNew,     \* that device
  udpDev,     \* where each device is: offered, running, or gone with its receiver
  udpQueue    \* packets in its channel

udpListener == <<udpUp, udpRoute, udpAge, udpAwait, udpNew>>
udpDevice   == <<udpDev, udpQueue>>
udpVars == <<udpKind, udpListener, udpDevice>>

UdpMaxAge == UdpIdle[udpKind]

UdpTypeOK ==
  /\ udpKind \in {"3ds", "vita"} /\ udpUp \in BOOLEAN
  /\ udpRoute \in [UdpPeers -> UdpDevs \cup {UdpNone}]
  /\ udpAge \in [UdpPeers -> 0 .. UdpMaxAge]
  /\ udpAwait \in UdpPeers \cup {UdpNone} /\ udpNew \in UdpDevs \cup {UdpNone}
  /\ udpDev \in [UdpDevs -> {"gone", "offered", "running"}]
  /\ udpQueue \in [UdpDevs -> 0 .. UdpQueueCap]

UdpInit ==
  /\ udpKind \in {"3ds", "vita"} /\ udpUp = TRUE
  /\ udpRoute = [p \in UdpPeers |-> UdpNone] /\ udpAge = [p \in UdpPeers |-> UdpMaxAge]
  /\ udpAwait = UdpNone /\ udpNew = UdpNone
  /\ udpDev = [d \in UdpDevs |-> "gone"] /\ udpQueue = [d \in UdpDevs |-> 0]

UdpReached(d) == (\E p \in UdpPeers : udpRoute[p] = d) \/ udpNew = d
UdpReceiving == udpUp /\ udpAwait = UdpNone

(* Mutant: nothing is evicted. *)
UdpRetainsAll == udpRoute

(* routing.retain: what is left of the routes, those silent too long evicted. *)
UdpRetained ==
  [p \in UdpPeers |-> IF udpAge[p] < UdpMaxAge THEN udpRoute[p] ELSE UdpNone]

-----------------------------------------------------------------------------
(* The listener *)

(* A packet of an address with a route: a full channel drops the packet, a *)
(* closed one the route.                                                   *)
UdpForward(p) ==
  LET d == UdpRetained[p]
  IN  /\ UdpReceiving /\ d # UdpNone
      /\ udpAge' = [udpAge EXCEPT ![p] = 0]
      /\ udpRoute' = [UdpRetained EXCEPT ![p] = IF udpDev[d] = "gone" THEN UdpNone ELSE d]
      /\ udpQueue' = IF udpDev[d] # "gone" /\ udpQueue[d] < UdpQueueCap
                     THEN [udpQueue EXCEPT ![d] = @ + 1] ELSE udpQueue
      /\ UNCHANGED <<udpKind, udpUp, udpAwait, udpNew, udpDev>>

(* Of an address without one: a device is made, and the listener waits     *)
(* until the supervisor takes it.                                          *)
UdpMake(p, d) ==
  /\ UdpReceiving /\ UdpRetained[p] = UdpNone
  /\ udpDev[d] = "gone" /\ ~UdpReached(d)
  /\ udpRoute' = UdpRetained
  /\ udpAge' = [udpAge EXCEPT ![p] = 0]
  /\ udpAwait' = p /\ udpNew' = d
  /\ udpDev' = [udpDev EXCEPT ![d] = "offered"]
  /\ udpQueue' = [udpQueue EXCEPT ![d] = 0]
  /\ UNCHANGED <<udpKind, udpUp>>

(* The route is entered with the time its packet came, before the wait. *)
UdpAnnounced ==
  /\ udpAwait # UdpNone
  /\ udpRoute' = [udpRoute EXCEPT ![udpAwait] = udpNew]
  /\ udpQueue' = IF udpDev[udpNew] = "gone" THEN udpQueue
                 ELSE [udpQueue EXCEPT ![udpNew] = @ + 1]
  /\ udpAwait' = UdpNone /\ udpNew' = UdpNone
  /\ UNCHANGED <<udpKind, udpUp, udpAge, udpDev>>

(* A datagram of another size: the Vita's listener evicts first. *)
UdpStray ==
  /\ UdpReceiving
  /\ udpRoute' = IF udpKind = "vita" THEN UdpRetained ELSE udpRoute
  /\ UNCHANGED <<udpKind, udpUp, udpAge, udpAwait, udpNew, udpDevice>>

(* The listener ends, and every sender with it, when the supervisor has    *)
(* gone, and, for the 3DS, when the socket fails.                          *)
UdpEnd ==
  /\ udpUp /\ (udpKind = "3ds" \/ udpAwait # UdpNone)
  /\ udpUp' = FALSE
  /\ udpRoute' = [p \in UdpPeers |-> UdpNone]
  /\ udpAwait' = UdpNone /\ udpNew' = UdpNone
  /\ udpDev' = IF udpAwait = UdpNone THEN udpDev ELSE [udpDev EXCEPT ![udpNew] = "gone"]
  /\ UNCHANGED <<udpKind, udpAge, udpQueue>>

UdpTick ==
  /\ udpUp /\ \E p \in UdpPeers : udpAge[p] < UdpMaxAge
  /\ udpAge' = [p \in UdpPeers |-> IF udpAge[p] < UdpMaxAge THEN udpAge[p] + 1 ELSE udpAge[p]]
  /\ UNCHANGED <<udpKind, udpUp, udpRoute, udpAwait, udpNew, udpDevice>>

-----------------------------------------------------------------------------
(* A device *)

UdpStart(d) ==
  /\ udpDev[d] = "offered" /\ udpNew # d
  /\ udpDev' = [udpDev EXCEPT ![d] = "running"]
  /\ UNCHANGED <<udpKind, udpListener, udpQueue>>

(* The first packets a 3DS sends only set the scale of its samples. *)
UdpRecv(d) ==
  /\ udpDev[d] = "running" /\ udpQueue[d] > 0
  /\ udpQueue' = [udpQueue EXCEPT ![d] = @ - 1]
  /\ UNCHANGED <<udpKind, udpListener, udpDev>>

UdpDisconnected(d) ==
  /\ udpDev[d] = "running" /\ udpQueue[d] = 0 /\ ~UdpReached(d)
  /\ udpDev' = [udpDev EXCEPT ![d] = "gone"]
  /\ UNCHANGED <<udpKind, udpListener, udpQueue>>

UdpStop(d) ==
  /\ udpDev[d] # "gone" /\ udpNew # d
  /\ udpDev' = [udpDev EXCEPT ![d] = "gone"]
  /\ UNCHANGED <<udpKind, udpListener, udpQueue>>

UdpDatagram == (\E p \in UdpPeers : UdpForward(p) \/ \E d \in UdpDevs : UdpMake(p, d)) \/ UdpStray

UdpNext ==
  \/ UdpDatagram \/ UdpAnnounced \/ UdpEnd \/ UdpTick
  \/ \E d \in UdpDevs : UdpStart(d) \/ UdpRecv(d) \/ UdpDisconnected(d) \/ UdpStop(d)

(* Time passes, the supervisor takes what it is offered, readers are polled. *)
UdpFairness ==
  /\ WF_udpVars(UdpTick) /\ WF_udpVars(UdpAnnounced)
  /\ \A d \in UdpDevs : WF_udpVars(UdpStart(d) \/ UdpRecv(d) \/ UdpDisconnected(d))

UdpSpec == UdpInit /\ [][UdpNext]_udpVars /\ UdpFairness

-----------------------------------------------------------------------------
(* Properties *)

UdpHeard(d, age) == \E p \in UdpPeers : udpRoute[p] = d /\ udpAge[p] = age

(* While packets of any console keep coming, a device whose console is     *)
(* silent is told: its route is evicted and its channel closes             *)
(* (3ds factory.rs:71-73, vita factory.rs:66-68).                          *)
UdpSilentTold ==
  []<><<\E p \in UdpPeers : UdpForward(p) \/ \E d \in UdpDevs : UdpMake(p, d)>>_udpVars =>
    \A d \in UdpDevs : UdpHeard(d, UdpMaxAge) ~> (udpDev[d] = "gone" \/ UdpHeard(d, 0))
=============================================================================
