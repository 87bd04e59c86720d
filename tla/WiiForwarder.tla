---------------------------- MODULE WiiForwarder ----------------------------
(***************************************************************************)
(* The Wii forwarder, crates/device-wii: a console keeps a TCP connection  *)
(* open, sends a packet for each attached controller and reads back a      *)
(* reply with the rumble bits.  Every connection has a handler task; the   *)
(* handlers of one console share, by its address, the routing map (a       *)
(* WiiDevice per controller) and the rumble bits, and each handler clears  *)
(* both when it ends.  A console that reconnects may have two handlers.    *)
(*                                                                         *)
(* One console: the maps of two consoles share no key.                     *)
(***************************************************************************)
EXTENDS Integers, Sequences

CONSTANTS
  WiiConns,    \* bound: handlers at a time
  WiiIds,      \* controllers of the console (0 .. 3)
  WiiDevs,     \* bound: devices at a time
  WiiQueueCap, \* packets a device's channel holds (256)
  WiiBurst,    \* bound: packets one read yields
  WiiNone      \* no entry in a map

ASSUME WiiAssumption ==
  /\ WiiQueueCap \in Nat \ {0} /\ WiiBurst \in Nat \ {0}
  /\ WiiNone \notin WiiDevs /\ WiiNone \notin [WiiIds -> BOOLEAN]

VARIABLES
  wiiPc,      \* where each handler is
  wiiOpen,    \* the console keeps the connection of the handler open
  wiiFrame,   \* controllers of the packets the last read completed, yet to be routed
  wiiTx,      \* the sender the handler holds for the packet it routes
  wiiCreated, \* created_keys
  wiiRoute,   \* routing: the device of each controller
  wiiRumble,  \* rumble_state: the console's bits, if it has an entry
  wiiDev,     \* where each device is: offered, running, or gone with its receiver
  wiiQueue,   \* packets in its channel
  wiiOwner,   \* the controller it was made for
  wiiOverlap, \* history: a handler began before the one before it ended
  wiiWanted   \* history: the bits last asked of set_rumble

wiiHandler == <<wiiPc, wiiOpen, wiiFrame, wiiTx, wiiCreated>>
wiiDevice  == <<wiiDev, wiiQueue, wiiOwner>>
wiiHistory == <<wiiOverlap, wiiWanted>>
wiiVars == <<wiiHandler, wiiRoute, wiiRumble, wiiDevice, wiiHistory>>

WiiPcs == {"closed", "read", "lookup", "insert", "announce", "send", "drop",
           "reply", "teardown", "unrumble"}
WiiOff == [i \in WiiIds |-> FALSE]

WiiTypeOK ==
  /\ wiiPc \in [WiiConns -> WiiPcs] /\ wiiOpen \in [WiiConns -> BOOLEAN]
  /\ wiiFrame \in [WiiConns -> Seq(WiiIds)]
  /\ \A c \in WiiConns : wiiPc[c] \in {"lookup", "insert", "announce", "send", "drop"}
                           => wiiFrame[c] # <<>>
  /\ wiiTx \in [WiiConns -> WiiDevs \cup {WiiNone}]
  /\ wiiCreated \in [WiiConns -> SUBSET WiiIds]
  /\ wiiRoute \in [WiiIds -> WiiDevs \cup {WiiNone}]
  /\ wiiRumble \in [WiiIds -> BOOLEAN] \cup {WiiNone}
  /\ wiiDev \in [WiiDevs -> {"gone", "offered", "running"}]
  /\ wiiQueue \in [WiiDevs -> 0 .. WiiQueueCap]
  /\ wiiOwner \in [WiiDevs -> WiiIds]
  /\ wiiOverlap \in BOOLEAN /\ wiiWanted \in [WiiIds -> BOOLEAN]

WiiInit ==
  /\ wiiPc = [c \in WiiConns |-> "closed"] /\ wiiOpen = [c \in WiiConns |-> FALSE]
  /\ wiiFrame = [c \in WiiConns |-> <<>>]
  /\ wiiTx = [c \in WiiConns |-> WiiNone] /\ wiiCreated = [c \in WiiConns |-> {}]
  /\ wiiRoute = [i \in WiiIds |-> WiiNone] /\ wiiRumble = WiiNone
  /\ wiiDev = [d \in WiiDevs |-> "gone"] /\ wiiQueue = [d \in WiiDevs |-> 0]
  /\ wiiOwner = [d \in WiiDevs |-> CHOOSE i \in WiiIds : TRUE]
  /\ wiiOverlap = FALSE /\ wiiWanted = WiiOff

WiiGoto(c, pc) == wiiPc' = [wiiPc EXCEPT ![c] = pc]
WiiId(c) == Head(wiiFrame[c])
WiiLive == {c \in WiiConns : wiiPc[c] # "closed"}

(* A sender of the device is left: its route, or a handler's at a packet for it. *)
WiiReached(d) == (\E i \in WiiIds : wiiRoute[i] = d) \/ (\E c \in WiiConns : wiiTx[c] = d)

-----------------------------------------------------------------------------
(* The handler of a connection *)

WiiAccept(c) ==
  /\ wiiPc[c] = "closed"
  /\ WiiGoto(c, "read") /\ wiiOpen' = [wiiOpen EXCEPT ![c] = TRUE]
  /\ wiiRumble' = IF wiiRumble = WiiNone THEN WiiOff ELSE wiiRumble
  /\ wiiOverlap' = (WiiLive # {})
  /\ wiiWanted' = IF WiiLive = {} THEN WiiOff ELSE wiiWanted
  /\ UNCHANGED <<wiiFrame, wiiTx, wiiCreated, wiiRoute, wiiDevice>>

(* A read may complete no packet (a split frame) or several (coalesced     *)
(* ones); packets of empty slots, id 255, are not routed.                  *)
WiiRead(c, frame) ==
  /\ wiiPc[c] = "read" /\ wiiOpen[c]
  /\ wiiFrame' = [wiiFrame EXCEPT ![c] = frame]
  /\ WiiGoto(c, IF frame = <<>> THEN "reply" ELSE "lookup")
  /\ UNCHANGED <<wiiOpen, wiiTx, wiiCreated, wiiRoute, wiiRumble, wiiDevice, wiiHistory>>

WiiEof(c) ==
  /\ wiiPc[c] = "read" /\ ~wiiOpen[c]
  /\ WiiGoto(c, "teardown")
  /\ UNCHANGED <<wiiOpen, wiiFrame, wiiTx, wiiCreated, wiiRoute, wiiRumble, wiiDevice, wiiHistory>>

WiiLookup(c) ==
  /\ wiiPc[c] = "lookup"
  /\ LET d == wiiRoute[WiiId(c)]
     IN  /\ wiiTx' = [wiiTx EXCEPT ![c] = d]
         /\ WiiGoto(c, IF d = WiiNone THEN "insert" ELSE "send")
  /\ UNCHANGED <<wiiOpen, wiiFrame, wiiCreated, wiiRoute, wiiRumble, wiiDevice, wiiHistory>>

(* The lookup's lock was given back: another handler may have inserted the *)
(* same controller, and its sender is overwritten.                         *)
WiiInsert(c, d) ==
  /\ wiiPc[c] = "insert"
  /\ wiiDev[d] = "gone" /\ ~WiiReached(d)
  /\ wiiRoute' = [wiiRoute EXCEPT ![WiiId(c)] = d]
  /\ wiiTx' = [wiiTx EXCEPT ![c] = d]
  /\ wiiCreated' = [wiiCreated EXCEPT ![c] = @ \cup {WiiId(c)}]
  /\ wiiDev' = [wiiDev EXCEPT ![d] = "offered"]
  /\ wiiQueue' = [wiiQueue EXCEPT ![d] = 0]
  /\ wiiOwner' = [wiiOwner EXCEPT ![d] = WiiId(c)]
  /\ WiiGoto(c, "announce")
  /\ UNCHANGED <<wiiOpen, wiiFrame, wiiRumble, wiiHistory>>

(* out.send fails once the supervisor has ended: the handler ends, and the *)
(* device that was to be announced is dropped.                             *)
WiiAnnounce(c, ok) ==
  /\ wiiPc[c] = "announce"
  /\ IF ok THEN WiiGoto(c, "send") /\ UNCHANGED <<wiiTx, wiiDev, wiiFrame>>
           ELSE /\ WiiGoto(c, "teardown")
                /\ wiiFrame' = [wiiFrame EXCEPT ![c] = <<>>]
                /\ wiiTx' = [wiiTx EXCEPT ![c] = WiiNone]
                /\ wiiDev' = [wiiDev EXCEPT ![wiiTx[c]] = "gone"]
  /\ UNCHANGED <<wiiOpen, wiiCreated, wiiRoute, wiiRumble, wiiQueue, wiiOwner, wiiHistory>>

WiiNextPacket(c) ==
  /\ wiiFrame' = [wiiFrame EXCEPT ![c] = Tail(@)]
  /\ WiiGoto(c, IF Len(wiiFrame[c]) = 1 THEN "reply" ELSE "lookup")

(* tx.send waits while the channel is full, and fails when its device is gone. *)
WiiSend(c) ==
  /\ wiiPc[c] = "send"
  /\ LET d == wiiTx[c]
     IN  \/ /\ wiiDev[d] # "gone" /\ wiiQueue[d] < WiiQueueCap
            /\ wiiQueue' = [wiiQueue EXCEPT ![d] = @ + 1]
            /\ wiiTx' = [wiiTx EXCEPT ![c] = WiiNone]
            /\ WiiNextPacket(c)
         \/ /\ wiiDev[d] = "gone"
            /\ WiiGoto(c, "drop") /\ UNCHANGED <<wiiQueue, wiiTx, wiiFrame>>
  /\ UNCHANGED <<wiiOpen, wiiCreated, wiiRoute, wiiRumble, wiiDev, wiiOwner, wiiHistory>>

(* The route is removed by its key, whichever device it leads to by now. *)
WiiDrop(c) ==
  /\ wiiPc[c] = "drop"
  /\ wiiRoute' = [wiiRoute EXCEPT ![WiiId(c)] = WiiNone]
  /\ wiiTx' = [wiiTx EXCEPT ![c] = WiiNone]
  /\ WiiNextPacket(c)
  /\ UNCHANGED <<wiiOpen, wiiCreated, wiiRumble, wiiDevice, wiiHistory>>

(* The write fails, or is lost, when the console has closed. *)
WiiReply(c, ok) ==
  /\ wiiPc[c] = "reply" /\ (~ok => ~wiiOpen[c])
  /\ WiiGoto(c, IF ok THEN "read" ELSE "teardown")
  /\ UNCHANGED <<wiiOpen, wiiFrame, wiiTx, wiiCreated, wiiRoute, wiiRumble, wiiDevice, wiiHistory>>

(* Mutant: the created keys are dropped, the routes are not. *)
WiiTeardownKeeps(c) ==
  /\ wiiPc[c] = "teardown" /\ WiiGoto(c, "unrumble")
  /\ wiiCreated' = [wiiCreated EXCEPT ![c] = {}]
  /\ UNCHANGED <<wiiOpen, wiiFrame, wiiTx, wiiRoute, wiiRumble, wiiDevice, wiiHistory>>

WiiTeardown(c) ==
  /\ wiiPc[c] = "teardown"
  /\ wiiRoute' = [i \in WiiIds |-> IF i \in wiiCreated[c] THEN WiiNone ELSE wiiRoute[i]]
  /\ wiiCreated' = [wiiCreated EXCEPT ![c] = {}]
  /\ WiiGoto(c, "unrumble")
  /\ UNCHANGED <<wiiOpen, wiiFrame, wiiTx, wiiRumble, wiiDevice, wiiHistory>>

WiiUnrumble(c) ==
  /\ wiiPc[c] = "unrumble"
  /\ wiiRumble' = WiiNone
  /\ WiiGoto(c, "closed") /\ wiiOpen' = [wiiOpen EXCEPT ![c] = FALSE]
  /\ UNCHANGED <<wiiFrame, wiiTx, wiiCreated, wiiRoute, wiiDevice, wiiHistory>>

WiiHandler(c) ==
  \/ WiiEof(c) \/ WiiLookup(c) \/ (\E d \in WiiDevs : WiiInsert(c, d))
  \/ WiiAnnounce(c, TRUE) \/ WiiSend(c) \/ WiiDrop(c) \/ WiiReply(c, TRUE)
  \/ WiiTeardown(c) \/ WiiUnrumble(c)

-----------------------------------------------------------------------------
(* A device *)

WiiStart(d) ==
  /\ wiiDev[d] = "offered" /\ wiiDev' = [wiiDev EXCEPT ![d] = "running"]
  /\ UNCHANGED <<wiiHandler, wiiRoute, wiiRumble, wiiQueue, wiiOwner, wiiHistory>>

WiiRecv(d) ==
  /\ wiiDev[d] = "running" /\ wiiQueue[d] > 0
  /\ wiiQueue' = [wiiQueue EXCEPT ![d] = @ - 1]
  /\ UNCHANGED <<wiiHandler, wiiRoute, wiiRumble, wiiDev, wiiOwner, wiiHistory>>

(* recv yields None: every sender was dropped and the channel is empty. *)
WiiDisconnected(d) ==
  /\ wiiDev[d] = "running" /\ wiiQueue[d] = 0 /\ ~WiiReached(d)
  /\ wiiDev' = [wiiDev EXCEPT ![d] = "gone"]
  /\ UNCHANGED <<wiiHandler, wiiRoute, wiiRumble, wiiQueue, wiiOwner, wiiHistory>>

(* stop aborts the reader, or its pipeline ended, or it was never started. *)
WiiStop(d) ==
  /\ wiiDev[d] # "gone"
  /\ wiiDev' = [wiiDev EXCEPT ![d] = "gone"]
  /\ wiiQueue' = [wiiQueue EXCEPT ![d] = 0]
  /\ UNCHANGED <<wiiHandler, wiiRoute, wiiRumble, wiiOwner, wiiHistory>>

(* set_rumble writes its controller's bit, if the console has an entry. *)
WiiSetRumble(d, on) ==
  /\ wiiDev[d] = "running"
  /\ wiiRumble' = IF wiiRumble = WiiNone THEN WiiNone
                  ELSE [wiiRumble EXCEPT ![wiiOwner[d]] = on]
  /\ wiiWanted' = [wiiWanted EXCEPT ![wiiOwner[d]] = on]
  /\ UNCHANGED <<wiiHandler, wiiRoute, wiiDevice, wiiOverlap>>

(* The console closes its socket, to connect again or for good. *)
WiiClose(c) ==
  /\ wiiOpen[c] /\ wiiPc[c] \notin {"teardown", "unrumble"}
  /\ wiiOpen' = [wiiOpen EXCEPT ![c] = FALSE]
  /\ UNCHANGED <<wiiPc, wiiFrame, wiiTx, wiiCreated, wiiRoute, wiiRumble, wiiDevice, wiiHistory>>

WiiFrames == UNION {[1 .. n -> WiiIds] : n \in 0 .. WiiBurst}

WiiNext ==
  \/ \E c \in WiiConns :
       \/ WiiAccept(c) \/ WiiClose(c) \/ WiiHandler(c)
       \/ WiiAnnounce(c, FALSE) \/ WiiReply(c, FALSE)
       \/ \E frame \in WiiFrames : WiiRead(c, frame)
  \/ \E d \in WiiDevs :
       \/ WiiStart(d) \/ WiiRecv(d) \/ WiiDisconnected(d) \/ WiiStop(d)
       \/ \E on \in BOOLEAN : WiiSetRumble(d, on)

WiiSpec == WiiInit /\ [][WiiNext]_wiiVars

-----------------------------------------------------------------------------
(* Properties *)

(* Every exit path of a handler takes down what it made: a route is in the *)
(* created_keys of a handler that still runs, and rumble bits are kept for *)
(* nobody (factory.rs:90-113), however handlers of one console interleave. *)
(* And as long as no connection of the console began before the one before *)
(* it ended, its handler replies with the rumble last asked for: the entry *)
(* it found or made is not another handler's to remove (factory.rs:83-86,  *)
(* 111; device.rs:127-143).                                                *)
WiiTablesKept ==
  /\ \A i \in WiiIds : wiiRoute[i] # WiiNone => \E c \in WiiConns : i \in wiiCreated[c]
  /\ wiiRumble # WiiNone => WiiLive # {}
  /\ \A c \in WiiConns : wiiPc[c] # "closed" /\ ~wiiOverlap => wiiRumble = wiiWanted
=============================================================================
