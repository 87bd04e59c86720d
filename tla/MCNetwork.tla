------------------------------ MODULE MCNetwork ------------------------------
(***************************************************************************)
(* TLC instance of the sources that reach the program over the network:    *)
(* phones and watches behind a hub, the companion on a Wii, and the        *)
(* forwarder of a 3DS or a Vita.  They share no state, and each behaviour  *)
(* is one of theirs: source says whose, and the others stay as they began. *)
(***************************************************************************)
EXTENDS RemoteHub, WiiConsole, UdpForwarder

VARIABLE source

(* A phone that is a tracker and a gamepad that is only rumbled, behind one *)
(* hub.                                                                    *)
PhoneAndPad ==
  [k \in Hubs \X Handles |-> IF k[2] = "phone" THEN {FALSE} ELSE {TRUE}]

IdleOfEach == [kind \in {"3ds", "vita"} |-> IF kind = "3ds" THEN 1 ELSE 2]

NetworkInit ==
  /\ source \in {"hub", "console", "udp"}
  /\ Init /\ WcInit /\ UdpInit
  /\ source # "udp" => udpKind = "3ds"

Only(s, step, others) == source = s /\ step /\ UNCHANGED <<others, source>>

NetworkNext ==
  \/ Only("hub", Next, <<wcVars, udpVars>>)
  \/ Only("console", WcNext, <<vars, udpVars>>)
  \/ Only("udp", UdpNext, <<vars, wcVars>>)

networkVars == <<vars, wcVars, udpVars, source>>

(* The fairness of the modules, each in the behaviours it is about.        *)
HubFairness ==
  /\ WF_vars(source = "hub" /\ Register)
  /\ \A s \in Slots : /\ WF_vars(source = "hub" /\ (Read(s) \/ RouteClosed(s)))
                     /\ WF_vars(source = "hub" /\ StopDriver(s))
                     /\ WF_vars(source = "hub" /\ (Reap(s) \/ Leave(s)))
  /\ \A k \in Keys :
       /\ WF_vars(/\ source = "hub"
                  /\ \E q \in BOOLEAN, p \in Ports : p = hubPort[Hub(k)] /\ Announce(k, q, p))
       /\ WF_vars(/\ source = "hub" /\ TRUE \notin Roles[k]
                  /\ \E p \in Ports : p = hubPort[Hub(k)] /\ Event(k, p))

NetworkSpec ==
  /\ NetworkInit /\ [][NetworkNext]_networkVars
  /\ HubFairness
  /\ WF_udpVars(source = "udp" /\ UdpTick)
  /\ WF_udpVars(source = "udp" /\ UdpAnnounced)
  /\ \A d \in UdpDevs :
       WF_udpVars(source = "udp" /\ (UdpStart(d) \/ UdpRecv(d) \/ UdpDisconnected(d)))
  /\ WF_wcVars(source = "console" /\ BuildRecord)
  /\ WF_wcVars(source = "console" /\ SendFrame)
  /\ WF_wcVars(source = "console" /\ ApplyReply)
  /\ WF_wcVars(source = "console" /\ PcReads)

(* TrackerComesBack, in the behaviours of a hub: a tracker that is         *)
(* announced and streams ends up registered and fed, whatever failed       *)
(* before (factory.rs:193-213, 268-270).                                   *)
PhoneComesBack == source = "hub" => TrackerComesBack

(* No channel holds more than its capacity, a handler at a packet has one, *)
(* and a route's age is no more than what evicts it.                       *)
NetworkTypeOK == HubTypeOK /\ WcTypeOK /\ UdpTypeOK
=============================================================================
