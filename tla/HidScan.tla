------------------------------- MODULE HidScan -------------------------------
(***************************************************************************)
(* How the drivers of HID controllers find them: the enumerate loops of    *)
(* Joy-Con, DualSense, PS Move, Steam Deck, Steam Controller and           *)
(* DualShock 3.  Each lists the bus, forgets the paths that are gone,      *)
(* opens the ones it did not know and offers them to the supervisor, and   *)
(* sleeps.  The loops share their steps and differ in what they list and   *)
(* in what they refuse; hidDriver says which loop a behaviour is about.    *)
(***************************************************************************)
EXTENDS Integers, FiniteSets

CONSTANTS
  HidPaths,    \* paths on the bus
  HidUsage,    \* usage of each path: "gamepad", "vendor", or "none" where the system tells none
  HidNamed,    \* paths whose product id the driver has a controller kind for
  HidMaxPlugs, \* bound: times a path appears
  HidMaxFaults \* bound: failures to open, readers ended by an error

HidDrivers == {"joycon", "dualsense", "psmove", "deck", "steam", "ds3"}

ASSUME HidAssumption ==
  /\ HidUsage \in [HidPaths -> {"gamepad", "vendor", "none"}]
  /\ HidNamed \subseteq HidPaths /\ HidMaxPlugs \in Nat /\ HidMaxFaults \in Nat

VARIABLES
  hidDriver,
  hidOn,      \* the paths on the bus
  hidPlugs,   \* how often each has appeared: which device is behind it
  hidKnown,   \* known
  hidPc,      \* where the loop is
  hidTodo,    \* infos not yet looked at
  hidCur,     \* the path it is opening or offering, and which device it opened
  hidReaders, \* devices offered whose reader has not ended
  hidFaults

hidVars == <<hidDriver, hidOn, hidPlugs, hidKnown, hidPc, hidTodo, hidCur, hidReaders, hidFaults>>
hidBus  == <<hidDriver, hidOn, hidPlugs>>

HidNone == "none"
HidDevices == HidPaths \X (1 .. HidMaxPlugs)

HidTypeOK ==
  /\ hidDriver \in HidDrivers
  /\ hidOn \subseteq HidPaths /\ hidPlugs \in [HidPaths -> 0 .. HidMaxPlugs]
  /\ hidKnown \subseteq HidPaths /\ hidTodo \subseteq HidPaths
  /\ hidPc \in {"boot", "refresh", "each", "open", "offer", "ended"}
  /\ hidCur \in (HidPaths \cup {HidNone}) \X (0 .. HidMaxPlugs)
  /\ hidReaders \subseteq HidDevices
  /\ hidFaults \in 0 .. HidMaxFaults

HidInit ==
  /\ hidDriver \in HidDrivers
  /\ hidOn = {} /\ hidPlugs = [p \in HidPaths |-> 0]
  /\ hidKnown = {} /\ hidPc = "boot" /\ hidTodo = {}
  /\ hidCur = <<HidNone, 0>> /\ hidReaders = {} /\ hidFaults = 0

-----------------------------------------------------------------------------
(* The steps of a loop *)

(* enumerate_loop begins, if the system lets it at the bus. *)
HidBegin ==
  /\ hidPc = "boot" /\ hidPc' \in {"refresh", "ended"}
  /\ UNCHANGED <<hidBus, hidKnown, hidTodo, hidCur, hidReaders, hidFaults>>

(* Mutant: every scan begins with an empty set. *)
HidRefreshAnew(listed) ==
  /\ hidPc = "refresh" /\ hidPc' = "each"
  /\ hidTodo' = listed /\ hidKnown' = {}
  /\ UNCHANGED <<hidBus, hidCur, hidReaders, hidFaults>>

(* What a loop takes of a bus, given the paths its filter admits; known is *)
(* cut down to it.                                                         *)
HidRefresh(listed) ==
  /\ hidPc = "refresh"
  /\ hidTodo' = listed /\ hidKnown' = hidKnown \cap listed
  /\ hidPc' = "each"
  /\ UNCHANGED <<hidBus, hidCur, hidReaders, hidFaults>>

(* A path known already is passed over; one that was not is known from     *)
(* here on, even when the driver has no kind for it.                       *)
HidTake(named) == \E p \in hidTodo :
  /\ hidPc = "each"
  /\ hidTodo' = hidTodo \ {p}
  /\ hidKnown' = hidKnown \cup {p}
  /\ IF p \notin hidKnown /\ p \in named
       THEN hidPc' = "open" /\ hidCur' = <<p, 0>>
       ELSE UNCHANGED <<hidPc, hidCur>>
  /\ UNCHANGED <<hidBus, hidReaders, hidFaults>>

HidOpen ==
  /\ hidPc = "open" /\ hidCur[1] \in hidOn
  /\ hidCur' = [hidCur EXCEPT ![2] = hidPlugs[hidCur[1]]]
  /\ hidPc' = "offer"
  /\ UNCHANGED <<hidBus, hidKnown, hidTodo, hidReaders, hidFaults>>

(* Mutant: the path stays known. *)
HidOpenFailsOnce ==
  /\ hidPc = "open" /\ hidPc' = "each" /\ hidCur' = <<HidNone, 0>>
  /\ hidFaults < HidMaxFaults /\ hidFaults' = hidFaults + 1
  /\ UNCHANGED <<hidBus, hidKnown, hidTodo, hidReaders>>

(* It failed, or the device has left since it was listed: the next scan    *)
(* tries again.                                                            *)
HidOpenFails ==
  /\ hidPc = "open"
  /\ IF hidCur[1] \in hidOn
       THEN hidFaults < HidMaxFaults /\ hidFaults' = hidFaults + 1
       ELSE UNCHANGED hidFaults
  /\ hidKnown' = hidKnown \ {hidCur[1]}
  /\ hidPc' = "each" /\ hidCur' = <<HidNone, 0>>
  /\ UNCHANGED <<hidBus, hidTodo, hidReaders>>

HidOffer ==
  /\ hidPc = "offer"
  /\ hidReaders' = hidReaders \cup {hidCur}
  /\ hidPc' = "each" /\ hidCur' = <<HidNone, 0>>
  /\ UNCHANGED <<hidBus, hidKnown, hidTodo, hidFaults>>

HidSleep ==
  /\ hidPc = "each" /\ hidTodo = {}
  /\ hidPc' = "refresh"
  /\ UNCHANGED <<hidBus, hidKnown, hidTodo, hidCur, hidReaders, hidFaults>>

(* The supervisor has gone, or the bus cannot be listed. *)
HidEnd ==
  /\ hidPc \in {"offer", "refresh"} /\ hidFaults < HidMaxFaults
  /\ hidPc' = "ended" /\ hidFaults' = hidFaults + 1
  /\ UNCHANGED <<hidBus, hidKnown, hidTodo, hidCur, hidReaders>>

HidLoop(listed, named) ==
  \/ HidRefresh(listed) \/ HidTake(named) \/ HidOpen \/ HidOpenFails \/ HidOffer \/ HidSleep

-----------------------------------------------------------------------------
(* The loops *)

HidPads == {p \in hidOn : HidUsage[p] # "vendor"}

(* Charging grips and the like are listed, and skipped. *)
JoyconLoop == hidDriver = "joycon" /\ HidLoop(HidPads, HidNamed)

DualSenseLoop == hidDriver = "dualsense" /\ HidLoop(HidPads, HidNamed)

(* A PS Move shows as several collections: once any of them tells that it  *)
(* is a gamepad, only those that do are taken.                             *)
PsMoveLoop ==
  LET mine == hidOn \cap HidNamed
      pads == {p \in mine : HidUsage[p] = "gamepad"}
  IN  hidDriver = "psmove" /\ HidLoop(IF pads # {} THEN pads ELSE mine, HidNamed)

SteamDeckLoop == hidDriver = "deck" /\ HidLoop(HidPads \cap HidNamed, HidPaths)

SteamControllerLoop == hidDriver = "steam" /\ HidLoop(hidOn \cap HidNamed, HidPaths)

DualShock3Loop == hidDriver = "ds3" /\ HidLoop(hidOn \cap HidNamed, HidPaths)

HidStep ==
  \/ JoyconLoop \/ DualSenseLoop \/ PsMoveLoop
  \/ SteamDeckLoop \/ SteamControllerLoop \/ DualShock3Loop

-----------------------------------------------------------------------------
(* The bus and the readers *)

HidPlug(p) ==
  /\ p \notin hidOn /\ hidPlugs[p] < HidMaxPlugs
  /\ hidOn' = hidOn \cup {p}
  /\ hidPlugs' = [hidPlugs EXCEPT ![p] = @ + 1]
  /\ UNCHANGED <<hidDriver, hidKnown, hidPc, hidTodo, hidCur, hidReaders, hidFaults>>

HidUnplug(p) ==
  /\ p \in hidOn
  /\ hidOn' = hidOn \ {p}
  /\ UNCHANGED <<hidDriver, hidPlugs, hidKnown, hidPc, hidTodo, hidCur, hidReaders, hidFaults>>

HidHere(d) == d[1] \in hidOn /\ hidPlugs[d[1]] = d[2]

(* The reader of a device that has left gets an error and ends; a device   *)
(* that is still there may fail to be started or give an error, too.       *)
HidReaderEnds(d) ==
  /\ d \in hidReaders
  /\ IF HidHere(d) THEN hidFaults < HidMaxFaults /\ hidFaults' = hidFaults + 1
                   ELSE UNCHANGED hidFaults
  /\ hidReaders' = hidReaders \ {d}
  /\ UNCHANGED <<hidBus, hidKnown, hidPc, hidTodo, hidCur>>

HidNext ==
  \/ HidBegin \/ HidStep \/ HidEnd
  \/ \E p \in HidPaths : HidPlug(p) \/ HidUnplug(p)
  \/ \E d \in HidDevices : HidReaderEnds(d)

(* The loop is polled, also when it finds that a device has gone. *)
HidFairness == WF_hidVars(HidStep)

HidSpec == HidInit /\ [][HidNext]_hidVars /\ HidFairness

-----------------------------------------------------------------------------
(* Properties *)

HidEnded == hidPc = "ended"

(* A pad whose path the loop does not know is offered, or has left, or     *)
(* another device of the path was offered: a failure to open is tried      *)
(* again, and a path seen to leave is forgotten (joycon factory.rs:113,    *)
(* 138; the other loops alike).                                            *)
HidUnknownIsOffered ==
  \A p \in {q \in HidNamed : HidUsage[q] = "gamepad"} :
    (hidPc # "boot" /\ p \in hidOn /\ p \notin hidKnown) ~>
      (p \notin hidOn \/ HidEnded \/ \E n \in 1 .. HidMaxPlugs : <<p, n>> \in hidReaders)

(* A pad that is being read is known, so that it is never opened a second  *)
(* time beside its reader, whatever came, left and failed in between       *)
(* (joycon factory.rs:108-119, psmove factory.rs:104-139).                 *)
HidReadIsKnown ==
  \A d \in hidReaders :
    HidHere(d) /\ HidUsage[d[1]] = "gamepad" => d[1] \in hidKnown \/ HidEnded
=============================================================================
