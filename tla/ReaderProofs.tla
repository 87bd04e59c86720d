----------------------------- MODULE ReaderProofs -----------------------------
(***************************************************************************)
(* How controllers are found and read, for every set of paths and devices, *)
(* every size of the event channel, every number of failures and every     *)
(* schedule: a reader that ends tells it, no pad is opened beside its      *)
(* reader, a Joy-Con 2 is read with a bias of its own axes, a Joy-Con with *)
(* the calibration that its replies resolve to, and a HOPX tracker without *)
(* losing a record to the way its notifications are cut.                   *)
(***************************************************************************)
EXTENDS HidReader, HidScan, JoyCon2, SpiCalibration, HopxSource, TLAPS

(***************************************************************************)
(* The reader thread.  RdGoneIsTold is inductive with the type invariant:  *)
(* a reader that was not told to stop ends by RdTell, which puts the event *)
(* into the channel or finds it closed, or as a DualShock 3 whose send     *)
(* found it closed; and a closed channel is not opened again.              *)
(***************************************************************************)
RdIInv == RdTypeOK /\ RdGoneIsTold

LEMMA RdInitIInv == RdInit => RdIInv
<1> SUFFICES ASSUME RdInit PROVE RdIInv
  OBVIOUS
<1> USE DEF RdInit
<1>1. {rdTold, rdOpen, rdStop, rdGone} \subseteq BOOLEAN
  OBVIOUS
<1>2. rdQueue \in 0 .. RdCap /\ rdErrs \in 0 .. RdErrorsMax
  BY RdAssumption
<1> QED BY <1>1, <1>2 DEF RdIInv, RdTypeOK, RdGoneIsTold

LEMMA RdReaderIInv == ASSUME RdIInv, RdReader PROVE RdIInv'
<1> USE RdAssumption DEF RdIInv, RdTypeOK, RdGoneIsTold, RdRoom, RdKeep, RdPolls
<1>1. CASE SharedReader
  BY <1>1 DEF SharedReader
<1>2. CASE SteamReader
  BY <1>2 DEF SteamReader, SteamLeaves
<1>3. CASE Ds3Reader
  BY <1>3 DEF Ds3Reader
<1>4. CASE RdTell
  BY <1>4 DEF RdTell
<1> QED BY <1>1, <1>2, <1>3, <1>4 DEF RdReader, JoyconReader, DualSenseReader,
        PsMoveReader, DeckReader, SteamControllerReader

LEMMA RdOthersIInv ==
  ASSUME RdIInv, RdStart \/ RdStartFails \/ RdDrain \/ RdHangUp \/ RdShutdown \/ RdLeave
  PROVE  RdIInv'
<1> USE RdAssumption DEF RdIInv, RdTypeOK, RdGoneIsTold
<1>1. CASE RdStart \/ RdStartFails
  BY <1>1 DEF RdStart, RdStartFails, RdStarts, JoyconStarts, DualSenseStarts, PsMoveStarts,
              DeckStarts, SteamControllerStarts, Ds3Starts
<1>2. CASE RdDrain
  BY <1>2 DEF RdDrain
<1>3. CASE RdHangUp
  <2>1. {rdTold, rdOpen, rdStop, rdGone}' \subseteq BOOLEAN
    BY <1>3 DEF RdHangUp
  <2> QED BY <1>3, <2>1 DEF RdHangUp
<1>4. CASE RdLeave
  BY <1>4 DEF RdLeave
<1>5. CASE RdShutdown
  BY <1>5 DEF RdShutdown, RdStops, JoyconStops, DualSenseStops, PsMoveStops, DeckStops,
              SteamControllerStops, Ds3Stops
<1> QED BY <1>1, <1>2, <1>3, <1>4, <1>5

LEMMA RdNextIInv == RdIInv /\ [RdNext]_rdVars => RdIInv'
<1> SUFFICES ASSUME RdIInv, [RdNext]_rdVars PROVE RdIInv'
  OBVIOUS
<1>1. CASE UNCHANGED rdVars
  BY <1>1 DEF rdVars, RdIInv, RdTypeOK, RdGoneIsTold
<1> QED BY <1>1, RdReaderIInv, RdOthersIInv DEF RdNext

(* No path out of a reader loses Disconnected, whatever the capacity of    *)
(* the channel and whenever the pipeline lets go of it (joycon             *)
(* hid.rs:84-88, deck device.rs:173-214, ds3 device.rs:98-124).            *)
THEOREM GoneIsTold == RdSpec => []RdGoneIsTold
<1>1. RdIInv => RdGoneIsTold  BY DEF RdIInv
<1> QED BY <1>1, RdInitIInv, RdNextIInv, PTL DEF RdSpec

(* Type correctness: the channel never holds more than it has room for.    *)
THEOREM RdTypeCorrect == RdSpec => []RdTypeOK
<1>1. RdIInv => RdTypeOK  BY DEF RdIInv
<1> QED BY <1>1, RdInitIInv, RdNextIInv, PTL DEF RdSpec

(***************************************************************************)
(* The enumerate loops.  What a reader reads is of a path the driver has a *)
(* kind for, and the device is the newest of its path or an older one that *)
(* has left.  The path a loop is opening is known, and nobody reads the    *)
(* device that is there now: so when the path is forgotten because it      *)
(* could not be opened, no reader loses its place.                         *)
(***************************************************************************)
HidPad(d) == HidHere(d) /\ HidUsage[d[1]] = "gamepad"
Takes3 == {"deck", "steam", "ds3"}

ReadersNamed == \A d \in hidReaders : d[1] \in HidNamed /\ d[2] <= hidPlugs[d[1]]
PluggedCounted == \A p \in hidOn : hidPlugs[p] > 0
ListedNamed == hidDriver \in Takes3 => hidTodo \subseteq HidNamed
CurKnown == hidPc \in {"open", "offer"} => hidCur[1] \in hidKnown \cap HidNamed
CurUnread == hidPc = "open" => \A d \in hidReaders : d[1] = hidCur[1] => ~HidPad(d)
CurOpened == hidPc = "offer" => hidCur \in HidDevices /\ hidCur[2] <= hidPlugs[hidCur[1]]

HidIInv ==
  /\ HidTypeOK
  /\ ReadersNamed /\ PluggedCounted /\ ListedNamed
  /\ CurKnown /\ CurUnread /\ CurOpened
  /\ HidReadIsKnown

LEMMA HidInitIInv == HidInit => HidIInv
<1> SUFFICES ASSUME HidInit PROVE HidIInv
  OBVIOUS
<1> USE HidAssumption DEF HidInit
<1>1. HidTypeOK
  BY DEF HidTypeOK
<1>2. ReadersNamed /\ PluggedCounted /\ ListedNamed
  BY DEF ReadersNamed, PluggedCounted, ListedNamed
<1>3. CurKnown /\ CurUnread /\ CurOpened /\ HidReadIsKnown
  BY DEF CurKnown, CurUnread, CurOpened, HidReadIsKnown
<1> QED BY <1>1, <1>2, <1>3 DEF HidIInv

(* What a loop lists of the bus holds every gamepad it has a kind for; and *)
(* the three that take what they list list no other.                       *)
ListsPads(listed) ==
  /\ listed \subseteq hidOn
  /\ \A p \in hidOn \cap HidNamed : HidUsage[p] = "gamepad" => p \in listed
  /\ hidDriver \in Takes3 => listed \subseteq HidNamed
NamesKinds(named) == named \subseteq HidPaths /\ (hidDriver \notin Takes3 => named = HidNamed)

LEMMA LoopLists ==
  ASSUME HidIInv, HidStep
  PROVE  \E listed, named : HidLoop(listed, named) /\ ListsPads(listed) /\ NamesKinds(named)
<1> USE HidAssumption DEF ListsPads, NamesKinds, Takes3, HidPads
<1>1. CASE JoyconLoop
  BY <1>1 DEF JoyconLoop
<1>2. CASE DualSenseLoop
  BY <1>2 DEF DualSenseLoop
<1>3. CASE PsMoveLoop
  <2> DEFINE mine == hidOn \cap HidNamed
             pads == {p \in mine : HidUsage[p] = "gamepad"}
             listed == IF pads # {} THEN pads ELSE mine
  <2>1. hidDriver = "psmove" /\ HidLoop(listed, HidNamed)
    BY <1>3 DEF PsMoveLoop
  <2>2. ListsPads(listed)
    BY <2>1
  <2> QED BY <2>1, <2>2
<1>4. CASE SteamDeckLoop
  BY <1>4 DEF SteamDeckLoop
<1>5. CASE SteamControllerLoop
  BY <1>5 DEF SteamControllerLoop
<1>6. CASE DualShock3Loop
  BY <1>6 DEF DualShock3Loop
<1> QED BY <1>1, <1>2, <1>3, <1>4, <1>5, <1>6 DEF HidStep

LEMMA HidRefreshIInv ==
  ASSUME HidIInv, NEW listed, ListsPads(listed), HidRefresh(listed)
  PROVE  HidIInv'
<1> USE DEF HidIInv, HidRefresh, hidBus
<1>1. HidTypeOK'
  BY DEF HidTypeOK, ListsPads
<1>2. ReadersNamed' /\ PluggedCounted' /\ ListedNamed'
  BY DEF ReadersNamed, PluggedCounted, ListedNamed, ListsPads
<1>3. CurKnown' /\ CurUnread' /\ CurOpened'
  BY DEF CurKnown, CurUnread, CurOpened
<1>4. HidReadIsKnown'
  <2> SUFFICES ASSUME NEW d \in hidReaders, HidHere(d)', HidUsage[d[1]] = "gamepad"
               PROVE  d[1] \in hidKnown'
    BY DEF HidReadIsKnown
  <2>1. HidHere(d) /\ d[1] \in HidNamed
    BY DEF HidHere, ReadersNamed
  <2>2. d[1] \in hidKnown
    BY <2>1 DEF HidReadIsKnown, HidEnded
  <2>3. d[1] \in listed
    BY <2>1 DEF ListsPads, HidHere
  <2> QED BY <2>2, <2>3
<1> QED BY <1>1, <1>2, <1>3, <1>4

LEMMA HidTakeIInv ==
  ASSUME HidIInv, NEW named, NamesKinds(named), HidTake(named)
  PROVE  HidIInv'
<1> PICK p \in hidTodo :
      /\ hidPc = "each" /\ hidTodo' = hidTodo \ {p} /\ hidKnown' = hidKnown \cup {p}
      /\ IF p \notin hidKnown /\ p \in named
           THEN hidPc' = "open" /\ hidCur' = <<p, 0>>
           ELSE UNCHANGED <<hidPc, hidCur>>
      /\ UNCHANGED <<hidBus, hidReaders, hidFaults>>
  BY DEF HidTake
<1> USE DEF HidIInv, hidBus
<1>0. p \in HidPaths
  BY DEF HidTypeOK
<1>1. HidTypeOK'
  <2>1. hidCur' \in (HidPaths \cup {HidNone}) \X (0 .. HidMaxPlugs) /\ hidPc' \in {"open", "each"}
    BY <1>0, HidAssumption DEF HidTypeOK
  <2> QED BY <1>0, <2>1 DEF HidTypeOK
<1>2. ReadersNamed' /\ PluggedCounted' /\ ListedNamed'
  BY DEF ReadersNamed, PluggedCounted, ListedNamed
<1>3. CurKnown' /\ CurUnread' /\ CurOpened'
  <2>1. CASE p \notin hidKnown /\ p \in named
    <3>1. p \in HidNamed
      BY <2>1 DEF NamesKinds, ListedNamed
    <3>2. hidPc' = "open" /\ hidCur'[1] = p
      BY <2>1
    <3>3. \A d \in hidReaders : d[1] = p => ~HidPad(d)
      BY <2>1 DEF HidReadIsKnown, HidEnded, HidPad
    <3> QED BY <3>1, <3>2, <3>3 DEF CurKnown, CurUnread, CurOpened, HidPad, HidHere
  <2>2. CASE ~(p \notin hidKnown /\ p \in named)
    BY <2>2 DEF CurKnown, CurUnread, CurOpened
  <2> QED BY <2>1, <2>2
<1>4. HidReadIsKnown'
  BY DEF HidReadIsKnown, HidEnded, HidHere
<1> QED BY <1>1, <1>2, <1>3, <1>4

LEMMA HidOpenIInv == ASSUME HidIInv, HidOpen PROVE HidIInv'
<1> USE DEF HidIInv, HidOpen, hidBus
<1>1. hidCur[1] \in HidPaths /\ hidPlugs[hidCur[1]] \in 1 .. HidMaxPlugs
  BY HidAssumption DEF HidTypeOK, PluggedCounted
<1>2. hidCur' = <<hidCur[1], hidPlugs[hidCur[1]]>>
  BY DEF HidTypeOK
<1>3. hidCur' \in HidDevices /\ hidCur'[1] = hidCur[1] /\ hidCur'[2] = hidPlugs[hidCur[1]]
  BY <1>1, <1>2 DEF HidDevices
<1>4. HidTypeOK'
  BY <1>1, <1>2, HidAssumption DEF HidTypeOK
<1>5. ReadersNamed' /\ PluggedCounted' /\ ListedNamed'
  BY DEF ReadersNamed, PluggedCounted, ListedNamed
<1>6. CurKnown' /\ CurUnread' /\ CurOpened'
  BY <1>1, <1>3, HidAssumption DEF CurKnown, CurUnread, CurOpened
<1>7. HidReadIsKnown'
  BY DEF HidReadIsKnown, HidEnded, HidHere
<1> QED BY <1>4, <1>5, <1>6, <1>7

(* The path is forgotten, and no reader is at it. *)
LEMMA HidOpenFailsIInv == ASSUME HidIInv, HidOpenFails PROVE HidIInv'
<1> USE DEF HidIInv, HidOpenFails, hidBus
<1>1. HidTypeOK'
  <2>1. hidFaults' \in 0 .. HidMaxFaults
    BY HidAssumption DEF HidTypeOK
  <2>2. hidCur' \in (HidPaths \cup {HidNone}) \X (0 .. HidMaxPlugs)
    BY HidAssumption
  <2> QED BY <2>1, <2>2 DEF HidTypeOK
<1>2. ReadersNamed' /\ PluggedCounted' /\ ListedNamed'
  BY DEF ReadersNamed, PluggedCounted, ListedNamed
<1>3. CurKnown' /\ CurUnread' /\ CurOpened'
  BY DEF CurKnown, CurUnread, CurOpened
<1>4. HidReadIsKnown'
  BY DEF HidReadIsKnown, HidEnded, HidHere, CurUnread, HidPad
<1> QED BY <1>1, <1>2, <1>3, <1>4

LEMMA HidOfferIInv == ASSUME HidIInv, HidOffer PROVE HidIInv'
<1> USE DEF HidIInv, HidOffer, hidBus
<1>1. HidTypeOK'
  BY HidAssumption DEF HidTypeOK, CurOpened
<1>2. ReadersNamed' /\ PluggedCounted' /\ ListedNamed'
  BY DEF ReadersNamed, PluggedCounted, ListedNamed, CurKnown, CurOpened
<1>3. CurKnown' /\ CurUnread' /\ CurOpened'
  BY DEF CurKnown, CurUnread, CurOpened
<1>4. HidReadIsKnown'
  BY DEF HidReadIsKnown, HidEnded, HidHere, CurKnown
<1> QED BY <1>1, <1>2, <1>3, <1>4

(* A device that appears is a new one: nobody reads it yet. *)
LEMMA HidPlugIInv ==
  ASSUME HidIInv, NEW p \in HidPaths, HidPlug(p)
  PROVE  HidIInv'
<1> USE DEF HidIInv, HidPlug
<1>1. /\ hidPlugs' \in [HidPaths -> 0 .. HidMaxPlugs]
      /\ hidPlugs'[p] = hidPlugs[p] + 1
      /\ \A q \in HidPaths \ {p} : hidPlugs'[q] = hidPlugs[q]
      /\ \A q \in HidPaths : hidPlugs[q] \in Nat
  BY HidAssumption DEF HidTypeOK
<1>2. HidTypeOK'
  BY <1>1 DEF HidTypeOK
<1>3. \A d \in hidReaders : d[1] \in HidPaths /\ d[2] \in Nat
  BY DEF HidTypeOK, HidDevices
<1>4. ReadersNamed' /\ PluggedCounted' /\ ListedNamed'
  <2>1. ReadersNamed'
    BY <1>1, <1>3 DEF ReadersNamed
  <2>2. PluggedCounted'
    BY <1>1 DEF PluggedCounted, HidTypeOK
  <2> QED BY <2>1, <2>2 DEF ListedNamed
<1>5. \A d \in hidReaders : HidHere(d)' => HidHere(d)
  BY <1>1, <1>3 DEF HidHere, ReadersNamed
<1>6. CurKnown' /\ CurUnread' /\ CurOpened'
  <2>1. CurKnown' /\ CurUnread'
    BY <1>5 DEF CurKnown, CurUnread, HidPad
  <2>2. CurOpened'
    <3> SUFFICES ASSUME hidPc = "offer"
                 PROVE  hidCur \in HidDevices /\ hidCur[2] <= hidPlugs'[hidCur[1]]
      BY DEF CurOpened
    <3>1. hidCur \in HidDevices /\ hidCur[2] <= hidPlugs[hidCur[1]]
      BY DEF CurOpened
    <3>2. hidCur[1] \in HidPaths /\ hidCur[2] \in Nat
      BY <3>1 DEF HidDevices
    <3> QED BY <1>1, <3>1, <3>2
  <2> QED BY <2>1, <2>2
<1>7. HidReadIsKnown'
  BY <1>5 DEF HidReadIsKnown, HidEnded
<1> QED BY <1>2, <1>4, <1>6, <1>7

LEMMA HidLessIInv ==
  ASSUME HidIInv,
         (\E p \in HidPaths : HidUnplug(p)) \/ (\E d \in HidDevices : HidReaderEnds(d))
  PROVE  HidIInv'
<1> USE HidAssumption DEF HidIInv, HidUnplug, HidReaderEnds, hidBus
<1>1. HidTypeOK'
  BY DEF HidTypeOK
<1>2. ReadersNamed' /\ PluggedCounted' /\ ListedNamed'
  BY DEF ReadersNamed, PluggedCounted, ListedNamed
<1>3. \A d : HidHere(d)' => HidHere(d)
  BY DEF HidHere
<1>4. CurKnown' /\ CurUnread' /\ CurOpened'
  BY <1>3 DEF CurKnown, CurUnread, CurOpened, HidPad
<1>5. HidReadIsKnown'
  BY <1>3 DEF HidReadIsKnown, HidEnded
<1> QED BY <1>1, <1>2, <1>4, <1>5

LEMMA HidPcIInv == ASSUME HidIInv, HidBegin \/ HidSleep \/ HidEnd PROVE HidIInv'
<1> USE HidAssumption DEF HidIInv, HidBegin, HidSleep, HidEnd, hidBus
<1>1. HidTypeOK'
  BY DEF HidTypeOK
<1>2. ReadersNamed' /\ PluggedCounted' /\ ListedNamed'
  BY DEF ReadersNamed, PluggedCounted, ListedNamed
<1>3. CurKnown' /\ CurUnread' /\ CurOpened'
  BY DEF CurKnown, CurUnread, CurOpened
<1>4. HidReadIsKnown'
  BY DEF HidReadIsKnown, HidEnded, HidHere
<1> QED BY <1>1, <1>2, <1>3, <1>4

LEMMA HidNextIInv == HidIInv /\ [HidNext]_hidVars => HidIInv'
<1> SUFFICES ASSUME HidIInv, [HidNext]_hidVars PROVE HidIInv'
  OBVIOUS
<1>1. CASE HidStep
  <2> PICK listed, named : HidLoop(listed, named) /\ ListsPads(listed) /\ NamesKinds(named)
    BY <1>1, LoopLists
  <2> QED BY HidRefreshIInv, HidTakeIInv, HidOpenIInv, HidOpenFailsIInv, HidOfferIInv,
             HidPcIInv DEF HidLoop
<1>2. CASE UNCHANGED hidVars
  BY <1>2 DEF hidVars, HidIInv, HidTypeOK, ReadersNamed, PluggedCounted, ListedNamed,
              CurKnown, CurUnread, CurOpened, HidReadIsKnown, HidEnded, HidPad, HidHere
<1> QED BY <1>1, <1>2, HidPcIInv, HidPlugIInv, HidLessIInv DEF HidNext

(* A pad that is being read is known to its loop, so that it is never      *)
(* opened a second time beside its reader, whatever came, left and failed  *)
(* in between, for all six loops (joycon factory.rs:108-119, psmove        *)
(* factory.rs:104-139).                                                    *)
THEOREM ReadIsKnown == HidSpec => []HidReadIsKnown
<1>1. HidIInv => HidReadIsKnown  BY DEF HidIInv
<1> QED BY <1>1, HidInitIInv, HidNextIInv, PTL DEF HidSpec

(***************************************************************************)
(* The Joy-Con 2.  The device whose bring-up the supervisor is at is the   *)
(* one that is starting, and the registry's is not: so whatever else is    *)
(* offered, released or stopped meanwhile, the kind that the flash told    *)
(* and the bias that was turned to its axes are of one device, and stay as *)
(* they are once it runs.                                                  *)
(***************************************************************************)
StartingIsCur == jcStage # "idle" => jcDev[jcCur] = "starting"
RegisteredRuns == jcReg # 0 => jcDev[jcReg] \in {"running", "ended"}
OfferedUnturned == \A d \in JcDevs : jcDev[d] = "offered" => jcBias[d] = "none"
CurTurned ==
  jcStage # "idle" => jcBias[jcCur] \in IF jcStage = "stream" THEN {"none", jcKind[jcCur]} ELSE {"none"}

JcIInv ==
  /\ JcTypeOK
  /\ StartingIsCur /\ RegisteredRuns /\ OfferedUnturned /\ CurTurned
  /\ JcAxesAgree

LEMMA JcInitIInv == JcInit => JcIInv
<1> SUFFICES ASSUME JcInit PROVE JcIInv
  OBVIOUS
<1> USE JcAssumption DEF JcInit
<1>1. JcTypeOK
  <2>1. {jcOn, jcLink, jcEvent} \subseteq BOOLEAN
    OBVIOUS
  <2>2. /\ jcDev \in [JcDevs -> {"free", "offered", "starting", "running", "ended", "stopping"}]
        /\ jcKind \in [JcDevs -> JcKinds] /\ jcBias \in [JcDevs -> JcKinds \cup {"none"}]
    BY DEF JcKinds
  <2> QED BY <2>1, <2>2 DEF JcTypeOK, JcStages
<1>2. StartingIsCur /\ RegisteredRuns /\ OfferedUnturned /\ CurTurned /\ JcAxesAgree
  BY DEF StartingIsCur, RegisteredRuns, OfferedUnturned, CurTurned, JcAxesAgree
<1> QED BY <1>1, <1>2 DEF JcIInv

(* What the link and the faults are does not tell anything of devices. *)
JcDevVars == <<jcDev, jcStage, jcCur, jcReg, jcKind, jcBias>>
JcAirTypes ==
  /\ {jcOn, jcLink, jcEvent} \subseteq BOOLEAN /\ jcKnown \in 0 .. JcCooldown
  /\ jcFaults \in 0 .. JcMaxFaults /\ jcEnded \subseteq JcDevs

LEMMA JcAirTyped == JcIInv => JcAirTypes
BY DEF JcIInv, JcTypeOK, JcAirTypes

LEMMA JcElsewhere == ASSUME JcIInv, JcAirTypes', UNCHANGED JcDevVars PROVE JcIInv'
BY DEF JcIInv, JcAirTypes, JcDevVars, JcTypeOK, StartingIsCur, RegisteredRuns,
       OfferedUnturned, CurTurned, JcAxesAgree

LEMMA JcFaultTyped == ASSUME JcIInv, JcFault \/ UNCHANGED jcFaults PROVE jcFaults' \in 0 .. JcMaxFaults
BY JcAssumption DEF JcIInv, JcTypeOK, JcFault

LEMMA JcDropsTyped == ASSUME JcIInv, JcDrops \/ UNCHANGED jcAir PROVE {jcOn, jcLink, jcEvent}' \subseteq BOOLEAN
<1>1. CASE JcDrops
  <2>1. jcLink' = FALSE /\ jcOn' = jcOn /\ jcEvent' = (jcEvent \/ jcLink)
    BY <1>1 DEF JcDrops
  <2>2. jcEvent' \in BOOLEAN
    BY <2>1, Zenon
  <2>3. jcOn' \in BOOLEAN
    BY <2>1 DEF JcIInv, JcTypeOK
  <2>4. jcLink' \in BOOLEAN
    BY <2>1
  <2> QED BY <2>2, <2>3, <2>4
<1>2. CASE UNCHANGED jcAir
  BY <1>2 DEF jcAir, JcIInv, JcTypeOK
<1> QED BY <1>1, <1>2

LEMMA TryEmitIInv ==
  ASSUME JcIInv, NEW d \in JcDevs, NEW kind \in KindFromAdvert, TryEmit(d, kind)
  PROVE  JcIInv'
<1> USE JcAssumption DEF JcIInv, TryEmit, jcAir, jcStart
<1>1. kind \in JcKinds
  BY DEF KindFromAdvert, JcKinds
<1>2. JcTypeOK'
  BY <1>1 DEF JcTypeOK
<1>3. d # jcReg /\ (jcStage # "idle" => d # jcCur)
  BY DEF RegisteredRuns, StartingIsCur
<1>4. /\ jcDev' = [jcDev EXCEPT ![d] = "offered"] /\ jcKind' = [jcKind EXCEPT ![d] = kind]
      /\ jcBias' = [jcBias EXCEPT ![d] = "none"]
      /\ UNCHANGED <<jcStage, jcCur, jcReg>>
  OBVIOUS
<1>5. StartingIsCur' /\ RegisteredRuns' /\ CurTurned'
  BY <1>3, <1>4 DEF JcTypeOK, StartingIsCur, RegisteredRuns, CurTurned
<1>6. OfferedUnturned' /\ JcAxesAgree'
  BY <1>4 DEF JcTypeOK, OfferedUnturned, JcAxesAgree
<1> QED BY <1>2, <1>5, <1>6

LEMMA TakeOfferIInv == ASSUME JcIInv, NEW d \in JcDevs, TakeOffer(d) PROVE JcIInv'
<1> USE JcAssumption DEF JcIInv, TakeOffer, jcAir, jcData
<1>1. JcTypeOK'
  BY DEF JcTypeOK, JcStages
<1>2. /\ jcDev' = [jcDev EXCEPT ![d] = "starting"]
      /\ jcStage' = "connect" /\ jcCur' = d
      /\ UNCHANGED <<jcReg, jcKind, jcBias>>
  OBVIOUS
<1>3. StartingIsCur' /\ RegisteredRuns' /\ CurTurned'
  BY <1>2 DEF JcTypeOK, StartingIsCur, RegisteredRuns, OfferedUnturned, CurTurned
<1>4. OfferedUnturned' /\ JcAxesAgree'
  BY <1>2 DEF JcTypeOK, OfferedUnturned, JcAxesAgree
<1> QED BY <1>1, <1>3, <1>4

(* A step of a bring-up that failed frees its device. *)
LEMMA BringupFailsIInv ==
  ASSUME JcIInv, jcStage # "idle", BringupFails, UNCHANGED <<jcReg, jcKind, jcBias>>,
         JcAirTypes'
  PROVE  JcIInv'
<1> USE JcAssumption DEF JcIInv, BringupFails
<1>1. jcCur \in JcDevs /\ jcCur # jcReg
  BY DEF JcTypeOK, StartingIsCur, RegisteredRuns
<1>2. JcTypeOK'
  BY <1>1 DEF JcTypeOK, JcStages, JcAirTypes
<1>3. StartingIsCur' /\ RegisteredRuns' /\ CurTurned'
  BY <1>1 DEF JcTypeOK, StartingIsCur, RegisteredRuns, CurTurned
<1>4. OfferedUnturned' /\ JcAxesAgree'
  BY <1>1 DEF JcTypeOK, OfferedUnturned, JcAxesAgree
<1> QED BY <1>2, <1>3, <1>4

(* One that worked goes on; before the last the bias is not looked at.     *)
LEMMA OntoIInv ==
  ASSUME JcIInv, NEW stage \in JcStages \ {"idle", "stream"}, Onto(stage),
         jcStage \notin {"idle", "stream"}, UNCHANGED <<jcReg, jcBias>>,
         UNCHANGED jcKind \/ jcKind' = [jcKind EXCEPT ![jcCur] = JcTrueKind],
         JcAirTypes'
  PROVE  JcIInv'
<1> USE JcAssumption DEF JcIInv, Onto
<1>1. jcCur \in JcDevs /\ jcDev[jcCur] = "starting"
  BY DEF JcTypeOK, StartingIsCur
<1>2. jcKind' \in [JcDevs -> JcKinds] /\ \A d \in JcDevs \ {jcCur} : jcKind'[d] = jcKind[d]
  BY <1>1 DEF JcTypeOK, JcKinds
<1>3. JcTypeOK'
  BY <1>2 DEF JcTypeOK, JcAirTypes
<1>4. StartingIsCur' /\ RegisteredRuns' /\ CurTurned' /\ OfferedUnturned'
  BY DEF StartingIsCur, RegisteredRuns, CurTurned, OfferedUnturned
<1>5. JcAxesAgree'
  BY <1>1, <1>2 DEF JcAxesAgree
<1> QED BY <1>3, <1>4, <1>5

LEMMA ResolveMagBiasIInv == ASSUME JcIInv, ResolveMagBiasViaFlash PROVE JcIInv'
<1> USE JcAssumption DEF JcIInv, ResolveMagBiasViaFlash, Onto, jcAir
<1>1. jcCur \in JcDevs /\ jcDev[jcCur] = "starting"
  BY DEF JcTypeOK, StartingIsCur
<1>2. /\ jcBias' \in [JcDevs -> JcKinds \cup {"none"}]
      /\ jcBias'[jcCur] \in {"none", jcKind[jcCur]}
      /\ \A d \in JcDevs \ {jcCur} : jcBias'[d] = jcBias[d]
  BY <1>1 DEF JcTypeOK, CurTurned
<1>3. JcTypeOK'
  BY <1>2 DEF JcTypeOK, JcStages
<1>4. StartingIsCur' /\ RegisteredRuns' /\ CurTurned'
  BY <1>2 DEF StartingIsCur, RegisteredRuns, CurTurned
<1>5. OfferedUnturned' /\ JcAxesAgree'
  BY <1>1, <1>2 DEF OfferedUnturned, JcAxesAgree
<1> QED BY <1>3, <1>4, <1>5

(* The entry that is replaced has another device. *)
LEMMA ReleasedTyped ==
  ASSUME JcIInv
  PROVE  /\ Released(jcDev) \in [JcDevs -> {"free", "offered", "starting", "running", "ended", "stopping"}]
         /\ \A d \in JcDevs : Released(jcDev)[d] = IF d = jcReg THEN "stopping" ELSE jcDev[d]
BY DEF JcIInv, JcTypeOK, Released

LEMMA SpawnReaderIInv == ASSUME JcIInv, SpawnReader PROVE JcIInv'
<1> USE JcAssumption DEF JcIInv, SpawnReader, jcAir, jcData
<1>1. CASE Fails /\ BringupFails /\ UNCHANGED jcReg
  <2>1. JcAirTypes'
    BY <1>1, JcFaultTyped DEF Fails, JcAirTypes, JcTypeOK
  <2> QED BY <1>1, <2>1, BringupFailsIInv
<1>2. CASE /\ jcStage' = "idle" /\ jcCur' = 0 /\ jcReg' = jcCur
           /\ jcDev' = [Released(jcDev) EXCEPT ![jcCur] = "running"] /\ UNCHANGED jcFaults
  <2>1. jcCur \in JcDevs /\ jcBias[jcCur] \in {"none", jcKind[jcCur]}
    BY DEF JcTypeOK, CurTurned
  <2>2. /\ jcDev' \in [JcDevs -> {"free", "offered", "starting", "running", "ended", "stopping"}]
        /\ jcDev'[jcCur] = "running"
        /\ \A d \in JcDevs \ {jcCur} : jcDev'[d] = IF d = jcReg THEN "stopping" ELSE jcDev[d]
    BY <1>2, <2>1, ReleasedTyped
  <2>3. JcTypeOK'
    BY <1>2, <2>1, <2>2 DEF JcTypeOK, JcStages
  <2>4. StartingIsCur' /\ RegisteredRuns' /\ CurTurned'
    BY <1>2, <2>2 DEF StartingIsCur, RegisteredRuns, CurTurned
  <2>5. OfferedUnturned' /\ JcAxesAgree'
    BY <2>1, <2>2 DEF OfferedUnturned, JcAxesAgree
  <2> QED BY <2>3, <2>4, <2>5
<1> QED BY <1>1, <1>2

LEMMA BringupIInv == ASSUME JcIInv, Bringup PROVE JcIInv'
<1> USE DEF JcIInv
<1>1. ASSUME JcAirTypes', UNCHANGED <<jcReg, jcKind, jcBias>>, jcStage \notin {"idle", "stream"},
             BringupFails \/ \E stage \in JcStages \ {"idle", "stream"} : Onto(stage)
      PROVE  JcIInv'
  BY <1>1, BringupFailsIInv, OntoIInv
<1>2. CASE EnsureConnected
  <2>1. {jcOn, jcLink, jcEvent}' \subseteq BOOLEAN
    <3>1. CASE JcDrops \/ UNCHANGED jcAir
      BY <3>1, JcDropsTyped
    <3>2. CASE ~(JcDrops \/ UNCHANGED jcAir)
      <4>1. jcLink' = TRUE /\ UNCHANGED <<jcOn, jcEvent>>
        BY <1>2, <3>2 DEF EnsureConnected
      <4> QED BY <4>1 DEF JcTypeOK
    <3> QED BY <3>1, <3>2
  <2>2. JcFault \/ UNCHANGED jcFaults
    BY <1>2 DEF EnsureConnected, Works, Fails
  <2>3. JcAirTypes'
    BY <1>2, <2>1, <2>2, JcFaultTyped DEF EnsureConnected, JcAirTypes, JcTypeOK
  <2>4. /\ UNCHANGED <<jcReg, jcKind, jcBias>> /\ jcStage \notin {"idle", "stream"}
        /\ BringupFails \/ \E stage \in JcStages \ {"idle", "stream"} : Onto(stage)
    BY <1>2 DEF EnsureConnected, jcData, JcStages
  <2> QED BY <1>1, <2>3, <2>4
<1>3. CASE FindRequiredChars \/ SubscribeInput \/ EnableImuAndMag
  <2>1. (JcDrops \/ UNCHANGED jcAir) /\ (JcFault \/ UNCHANGED jcFaults)
    BY <1>3 DEF FindRequiredChars, SubscribeInput, EnableImuAndMag, Works, Fails
  <2>2. UNCHANGED <<jcKnown, jcReg, jcEnded, jcData>>
    BY <1>3 DEF FindRequiredChars, SubscribeInput, EnableImuAndMag
  <2>3. JcAirTypes'
    BY <2>1, <2>2, JcDropsTyped, JcFaultTyped DEF JcAirTypes, JcTypeOK
  <2>4. /\ jcStage \notin {"idle", "stream"}
        /\ BringupFails \/ \E stage \in JcStages \ {"idle", "stream"} : Onto(stage)
    BY <1>3 DEF FindRequiredChars, SubscribeInput, EnableImuAndMag, JcStages
  <2> QED BY <1>1, <2>2, <2>3, <2>4 DEF jcData
<1>4. CASE ResolveKindViaFlash
  <2>1. UNCHANGED <<jcOn, jcLink, jcEvent, jcKnown, jcReg, jcEnded, jcBias, jcFaults>>
    BY <1>4 DEF ResolveKindViaFlash, jcAir
  <2>2. JcAirTypes'
    BY <2>1 DEF JcAirTypes, JcTypeOK
  <2> QED BY <1>4, <2>1, <2>2, OntoIInv DEF ResolveKindViaFlash, JcStages
<1> QED BY <1>2, <1>3, <1>4, ResolveMagBiasIInv, SpawnReaderIInv DEF Bringup

LEMMA JcDeviceIInv == ASSUME JcIInv, NEW d \in JcDevs, JcDevice(d) PROVE JcIInv'
<1> USE JcAssumption DEF JcIInv
<1>1. CASE NotificationsEnd(d)
  <2> USE <1>1 DEF NotificationsEnd, jcAir, jcStart, jcData
  <2>1. JcTypeOK'
    BY DEF JcTypeOK
  <2>2. jcDev' = [jcDev EXCEPT ![d] = "ended"] /\ UNCHANGED <<jcStage, jcCur, jcReg, jcKind, jcBias>>
    OBVIOUS
  <2>3. StartingIsCur' /\ RegisteredRuns' /\ CurTurned' /\ OfferedUnturned' /\ JcAxesAgree'
    BY <2>2 DEF JcTypeOK, StartingIsCur, RegisteredRuns, CurTurned, OfferedUnturned, JcAxesAgree
  <2> QED BY <2>1, <2>3
<1>2. CASE JcReap(d)
  <2> USE <1>2 DEF JcReap, jcAir, jcStart, jcData
  <2>1. /\ jcDev' \in [JcDevs -> {"free", "offered", "starting", "running", "ended", "stopping"}]
        /\ \A e \in JcDevs : jcDev'[e] = jcDev[e] \/ (e = jcReg /\ jcReg' = 0 /\ jcDev'[e] = "stopping")
        /\ jcReg' \in {0, jcReg}
    BY ReleasedTyped DEF JcTypeOK
  <2>2. JcTypeOK'
    BY <2>1 DEF JcTypeOK
  <2>3. jcStage # "idle" => jcCur # jcReg
    BY DEF StartingIsCur, RegisteredRuns, JcTypeOK
  <2>4. UNCHANGED <<jcStage, jcCur, jcKind, jcBias>>
    OBVIOUS
  <2>5. StartingIsCur' /\ CurTurned'
    BY <2>1, <2>3, <2>4 DEF StartingIsCur, CurTurned, JcTypeOK
  <2>6. RegisteredRuns'
    <3>1. jcReg \in JcDevs \cup {0}
      BY DEF JcTypeOK
    <3> QED BY <2>1, <3>1 DEF RegisteredRuns
  <2>7. OfferedUnturned' /\ JcAxesAgree'
    BY <2>1, <2>4 DEF OfferedUnturned, JcAxesAgree
  <2> QED BY <2>2, <2>5, <2>6, <2>7
<1>3. CASE JcStop(d)
  <2> USE <1>3 DEF JcStop, jcStart, jcData
  <2>1. {jcOn, jcLink, jcEvent}' \subseteq BOOLEAN
    BY JcDropsTyped
  <2>2. JcTypeOK'
    BY <2>1 DEF JcTypeOK
  <2>3. jcDev' = [jcDev EXCEPT ![d] = "free"] /\ UNCHANGED <<jcStage, jcCur, jcReg, jcKind, jcBias>>
    OBVIOUS
  <2>4. StartingIsCur' /\ RegisteredRuns' /\ CurTurned' /\ OfferedUnturned' /\ JcAxesAgree'
    BY <2>3 DEF JcTypeOK, StartingIsCur, RegisteredRuns, CurTurned, OfferedUnturned, JcAxesAgree
  <2> QED BY <2>2, <2>4
<1> QED BY <1>1, <1>2, <1>3 DEF JcDevice

(* The scanner's clock, the adapter and the radio. *)
LEMMA JcAirIInv ==
  ASSUME JcIInv,
         \/ HandleDisconnected \/ RefreshConnected \/ JcTick \/ JcLoses \/ JcSwitch
         \/ \E d \in JcDevs : JcCommand(d)
  PROVE  JcIInv'
<1> USE JcAssumption DEF jcAir, jcStart, jcData, JcDevVars
<1>1. UNCHANGED JcDevVars /\ jcEnded' = jcEnded
  BY DEF HandleDisconnected, RefreshConnected, JcTick, JcLoses, JcSwitch, JcCommand
<1>2. jcKnown' \in 0 .. JcCooldown
  BY JcAirTyped DEF HandleDisconnected, RefreshConnected, JcTick, JcLoses, JcSwitch, JcCommand,
                    JcAirTypes
<1>3. JcFault \/ UNCHANGED jcFaults
  BY DEF HandleDisconnected, RefreshConnected, JcTick, JcLoses, JcSwitch, JcCommand
<1>4. {jcOn, jcLink, jcEvent}' \subseteq BOOLEAN
  <2>1. CASE RefreshConnected \/ JcTick \/ JcLoses
    BY <2>1, JcDropsTyped DEF RefreshConnected, JcTick, JcLoses
  <2>2. CASE HandleDisconnected
    <3>1. jcEvent' = FALSE /\ jcOn' = jcOn /\ jcLink' = jcLink
      BY <2>2 DEF HandleDisconnected
    <3> QED BY <3>1, JcAirTyped DEF JcAirTypes
  <2>3. CASE JcSwitch
    <3>1. jcOn \in BOOLEAN /\ jcLink \in BOOLEAN /\ jcEvent \in BOOLEAN
      BY JcAirTyped DEF JcAirTypes
    <3>2. jcOn' \in BOOLEAN
      BY <2>3, <3>1, Zenon DEF JcSwitch
    <3>3. jcLink' \in BOOLEAN
      BY <2>3, <3>1, Zenon DEF JcSwitch
    <3>4. jcEvent' \in BOOLEAN
      BY <2>3, <3>1, Zenon DEF JcSwitch
    <3> QED BY <3>2, <3>3, <3>4
  <2>4. CASE \E d \in JcDevs : JcCommand(d)
    <3>1. jcLink' = TRUE /\ jcOn' = jcOn /\ jcEvent' = jcEvent
      BY <2>4 DEF JcCommand
    <3> QED BY <3>1, JcAirTyped DEF JcAirTypes
  <2> QED BY <2>1, <2>2, <2>3, <2>4
<1>5. JcAirTypes'
  BY <1>1, <1>2, <1>3, <1>4, JcAirTyped, JcFaultTyped DEF JcAirTypes
<1> QED BY <1>1, <1>5, JcElsewhere

LEMMA JcNextIInv == JcIInv /\ [JcNext]_jcVars => JcIInv'
<1> SUFFICES ASSUME JcIInv, [JcNext]_jcVars PROVE JcIInv'
  OBVIOUS
<1>1. CASE UNCHANGED jcVars
  <2>1. UNCHANGED JcDevVars /\ JcAirTypes'
    BY <1>1, JcAirTyped DEF jcVars, jcAir, jcStart, jcData, JcDevVars, JcAirTypes
  <2> QED BY <2>1, JcElsewhere
<1> QED BY <1>1, TryEmitIInv, TakeOfferIInv, BringupIInv, JcDeviceIInv, JcAirIInv
        DEF JcNext, JcScanner, JcSupervisor

(* The bias subtracted from a reader's samples was turned to the axes its  *)
(* samples are turned to, however many devices of one controller are       *)
(* offered, started, replaced and stopped meanwhile (jc2.rs:736-745,       *)
(* 767-768, 790).                                                          *)
THEOREM AxesAgree == JcSpec => []JcAxesAgree
<1>1. JcIInv => JcAxesAgree  BY DEF JcIInv
<1> QED BY <1>1, JcInitIInv, JcNextIInv, PTL DEF JcSpec

(***************************************************************************)
(* The calibration of a Joy-Con.  What the reader remembers is what it     *)
(* heard: the magic was seen if its reply held it, and a user's block is   *)
(* pending if it came and the magic was not seen.                          *)
(***************************************************************************)
SpKept ==
  /\ spMagicSeen <=> Heard({"magic"}) /\ spFlash["magic"]
  /\ spPending <=> Heard({"block"}) /\ ~spMagicSeen

SpIInv == SpTypeOK /\ spHeard \in Seq(Places) /\ SpKept /\ SpCalIsResolved

LEMMA HeardGrows ==
  ASSUME NEW S, NEW s \in Seq(S), NEW x \in S
  PROVE  /\ Append(s, x) \in Seq(S)
         /\ ToSet(Append(s, x)) = ToSet(s) \cup {x}
         /\ Last(Append(s, x)) = x
<1>1. /\ Append(s, x) \in Seq(S) /\ Len(Append(s, x)) = Len(s) + 1
      /\ \A i \in 1 .. Len(s) : Append(s, x)[i] = s[i]
      /\ Append(s, x)[Len(s) + 1] = x
  OBVIOUS
<1>2. DOMAIN s = 1 .. Len(s) /\ DOMAIN Append(s, x) = 1 .. (Len(s) + 1) /\ Len(s) \in Nat
  BY <1>1
<1>3. ToSet(Append(s, x)) = ToSet(s) \cup {x}
  BY <1>1, <1>2 DEF ToSet
<1> QED BY <1>1, <1>3 DEF Last

LEMMA SpInitIInv == SpInit => SpIInv
<1> SUFFICES ASSUME SpInit PROVE SpIInv
  OBVIOUS
<1> USE DEF SpInit
<1>1. ToSet(spHeard) = {} /\ spHeard \in Seq(Places)
  BY DEF ToSet
<1>2. spMagicSeen \in BOOLEAN /\ spPending \in BOOLEAN
  OBVIOUS
<1> QED BY <1>1, <1>2 DEF SpIInv, SpTypeOK, SpKept, SpCalIsResolved, Heard, UserCal

LEMMA SpReplyIInv == ASSUME SpIInv, NEW place \in Places, HandleSpiReply(place) PROVE SpIInv'
<1> USE DEF SpIInv, HandleSpiReply
<1>1. /\ spHeard' \in Seq(Places) /\ ToSet(spHeard') = ToSet(spHeard) \cup {place}
      /\ Last(spHeard') = place
  BY HeardGrows
<1>2. place \notin ToSet(spHeard) /\ spFlash' = spFlash
  BY DEF SpTypeOK
<1>3. spAwaited' \subseteq Places /\ ToSet(spHeard') \subseteq Places \ spAwaited'
  BY <1>1 DEF SpTypeOK
<1>4. CASE place = "factory"
  <2>1. UNCHANGED <<spMagicSeen, spPending>> /\ spCal' = StoreBlock("factory", "factory")
    BY <1>4 DEF Factory, SpKept
  <2>2. SpTypeOK'
    BY <1>2, <1>3, <2>1 DEF SpTypeOK, StoreBlock
  <2>3. SpKept'
    BY <1>1, <1>2, <1>4, <2>1 DEF SpKept, Heard
  <2>4. UserCal' <=> UserCal
    BY <1>1, <1>2, <1>4 DEF UserCal, Heard
  <2>5. SpCalIsResolved'
    BY <1>1, <1>2, <1>4, <2>1, <2>4 DEF SpCalIsResolved, StoreBlock, Heard
  <2> QED BY <1>1, <2>2, <2>3, <2>5
<1>5. CASE place = "magic"
  <2>1. /\ spMagicSeen' = spFlash["magic"]
        /\ spCal' = IF spMagicSeen' /\ spPending THEN StoreBlock("block", "user") ELSE spCal
        /\ spPending' = (spPending /\ ~spMagicSeen')
    BY <1>5 DEF Magic
  <2>2. spMagicSeen' \in BOOLEAN /\ spPending' \in BOOLEAN
    <3>1. spMagicSeen' \in BOOLEAN
      BY <2>1 DEF SpTypeOK, Places
    <3>2. spPending' \in BOOLEAN
      BY <2>1, Zenon
    <3> QED BY <3>1, <3>2
  <2>3. ~spMagicSeen /\ (spPending <=> Heard({"block"}))
    BY <1>2, <1>5 DEF SpKept, Heard
  <2>4. SpTypeOK'
    BY <1>2, <1>3, <2>1, <2>2 DEF SpTypeOK, StoreBlock
  <2>5. /\ Heard({"magic"})' /\ (Heard({"block"})' <=> Heard({"block"}))
        /\ (Heard({"factory"})' <=> Heard({"factory"}))
    BY <1>1, <1>5 DEF Heard
  <2>6. SpKept'
    BY <1>2, <2>1, <2>3, <2>5 DEF SpKept
  <2>7. UserCal' <=> Heard({"block"}) /\ spFlash["magic"] /\ spFlash["block"]
    BY <1>1, <1>2, <1>5 DEF UserCal, Heard
  <2>8. ~UserCal
    BY <1>2, <1>5 DEF UserCal, Heard
  <2>9. SpCalIsResolved'
    BY <1>1, <1>2, <1>5, <2>1, <2>3, <2>5, <2>7, <2>8 DEF SpCalIsResolved, StoreBlock
  <2> QED BY <1>1, <2>4, <2>6, <2>9
<1>6. CASE place = "block"
  <2>1. /\ spCal' = IF spMagicSeen THEN StoreBlock("block", "user") ELSE spCal
        /\ spPending' = (spPending \/ ~spMagicSeen) /\ UNCHANGED spMagicSeen
    BY <1>6 DEF Block
  <2>2. spMagicSeen' \in BOOLEAN /\ spPending' \in BOOLEAN
    BY <2>1 DEF SpTypeOK
  <2>3. ~spPending
    BY <1>2, <1>6 DEF SpKept, Heard
  <2>4. SpTypeOK'
    BY <1>2, <1>3, <2>1, <2>2 DEF SpTypeOK, StoreBlock
  <2>5. /\ Heard({"block"})' /\ (Heard({"magic"})' <=> Heard({"magic"}))
        /\ (Heard({"factory"})' <=> Heard({"factory"}))
    BY <1>1, <1>6 DEF Heard
  <2>6. SpKept'
    BY <1>2, <2>1, <2>3, <2>5 DEF SpKept
  <2>7. UserCal' <=> spMagicSeen /\ spFlash["block"]
    BY <1>1, <1>2, <1>6 DEF UserCal, Heard, SpKept
  <2>8. ~UserCal
    BY <1>2, <1>6 DEF UserCal, Heard
  <2>9. SpCalIsResolved'
    BY <1>1, <1>2, <1>6, <2>1, <2>5, <2>7, <2>8 DEF SpCalIsResolved, StoreBlock
  <2> QED BY <1>1, <2>4, <2>6, <2>9
<1> QED BY <1>4, <1>5, <1>6 DEF Places

LEMMA SpNextIInv == SpIInv /\ [SpNext]_spVars => SpIInv'
<1> SUFFICES ASSUME SpIInv, [SpNext]_spVars PROVE SpIInv'
  OBVIOUS
<1>1. ASSUME NEW place \in Places, SpLost(place) PROVE SpIInv'
  BY <1>1 DEF SpLost, SpIInv, SpTypeOK, SpKept, SpCalIsResolved, Heard, UserCal
<1>2. CASE UNCHANGED spVars
  BY <1>2 DEF spVars, SpIInv, SpTypeOK, SpKept, SpCalIsResolved, Heard, UserCal
<1> QED BY <1>1, <1>2, SpReplyIInv DEF SpNext

(* The calibration applied is the one the replies resolve to, in every     *)
(* order and with any of them lost (jc1.rs:319 and what it guards).        *)
THEOREM CalibrationResolved == SpSpec => []SpCalIsResolved
<1>1. SpIInv => SpCalIsResolved  BY DEF SpIInv
<1> QED BY <1>1, SpInitIInv, SpNextIInv, PTL DEF SpSpec

-----------------------------------------------------------------------------
(***************************************************************************)
(* The HOPX parser.  HxReassembled speaks of a parser that has come to     *)
(* rest; a parser in its loop keeps what makes it true when the loop ends: *)
(* the records cut out are the first ones, and the buffer begins where     *)
(* they end.  So a buffer with a byte in it begins with a record's marker, *)
(* and the byte after that record's end is a marker too: the parser never  *)
(* takes payload for a marker.                                             *)
(***************************************************************************)
CutOut(k) ==
  [r \in 1 .. k |-> [place \in 1 .. HxLen |-> [record |-> r, place |-> place]]]

HxAsSent(k) ==
  \A i \in 1 .. Len(hxBuf) :
    /\ hxBuf[i].record = HxAt(HxLen * k + i).record
    /\ hxBuf[i].place = HxAt(HxLen * k + i).place
    /\ hxBuf[i].place = 1 => hxBuf[i].marker = "frame"

HxCut(k) == hxOut = CutOut(k) /\ hxAir = HxLen * k + Len(hxBuf) /\ HxAsSent(k)

HxIInv == HxTypeOK /\ \E k \in Nat : HxCut(k)

(* Where the bytes of the record after the first k stand.                  *)
LEMMA HxAtOfRecord ==
  ASSUME NEW k \in Nat, NEW i \in 1 .. HxLen
  PROVE  HxAt(HxLen * k + i) = [record |-> k + 1, place |-> i]
<1>1. HxLen \in Nat /\ HxLen > 0  BY HxAssumption
<1>2. HxLen * k \in Nat  BY <1>1
<1>3. (HxLen * k + i) - 1 = HxLen * k + (i - 1) /\ i - 1 \in 0 .. HxLen - 1  BY <1>1, <1>2
<1>4. (HxLen * k + (i - 1)) \div HxLen = k /\ (HxLen * k + (i - 1)) % HxLen = i - 1
  BY <1>1, <1>2, <1>3
<1> QED BY <1>3, <1>4 DEF HxAt

(* The byte after them begins a record.                                    *)
LEMMA HxAtNext ==
  ASSUME NEW k \in Nat
  PROVE  HxLen * k + HxLen = HxLen * (k + 1) /\ HxAt(HxLen * k + HxLen + 1).place = 1
<1>1. HxLen \in Nat /\ HxLen > 0  BY HxAssumption
<1>2. HxLen * k + HxLen = HxLen * (k + 1)  BY <1>1
<1>3. 1 \in 1 .. HxLen /\ k + 1 \in Nat  BY <1>1
<1>4. HxAt(HxLen * (k + 1) + 1) = [record |-> (k + 1) + 1, place |-> 1]
  BY <1>3, HxAtOfRecord
<1> QED BY <1>2, <1>4

(* A byte of the stream is one of the records the tracker sends.           *)
LEMMA HxAtTyped ==
  ASSUME NEW i \in 1 .. HxLen * HxMaxRecords
  PROVE  HxAt(i).record \in 1 .. HxMaxRecords /\ HxAt(i).place \in 1 .. HxLen
<1>1. HxLen \in Nat /\ HxLen > 0 /\ HxMaxRecords \in Nat  BY HxAssumption
<1> DEFINE j == i - 1
<1>2. HxLen * HxMaxRecords \in Nat  BY <1>1
<1>3. j \in Nat /\ j < HxLen * HxMaxRecords  BY <1>2
<1> DEFINE q == j \div HxLen
<1>4. q \in Nat /\ j % HxLen \in 0 .. HxLen - 1 /\ j = HxLen * q + (j % HxLen)
  BY <1>1, <1>3
<1>5. q < HxMaxRecords
  <2>1. SUFFICES ASSUME HxMaxRecords <= q PROVE FALSE
    BY <1>1, <1>4
  <2>2. HxLen * HxMaxRecords <= HxLen * q
    <3> HIDE DEF q
    <3> QED BY <1>1, <1>4, <2>1
  <2>3. HxLen * q \in Nat  BY <1>1, <1>4
  <2> HIDE DEF q, j
  <2> QED BY <1>1, <1>2, <1>3, <1>4, <2>2, <2>3
<1>6. HxAt(i) = [record |-> q + 1, place |-> (j % HxLen) + 1]  BY DEF HxAt
<1> HIDE DEF q, j
<1> QED BY <1>1, <1>4, <1>5, <1>6

LEMMA HxInitIInv == HxInit => HxIInv
<1> SUFFICES ASSUME HxInit PROVE HxIInv
  OBVIOUS
<1> USE DEF HxInit
<1>1. HxLen \in Nat /\ HxLen > 0 /\ HxMaxRecords \in Nat /\ HxMaxFaults \in Nat  BY HxAssumption
<1>2. HxLen * HxMaxRecords \in Nat /\ HxLen * 0 = 0  BY <1>1
<1>3. HxTypeOK
  <2>1. {hxKnown, hxLink, hxTask, hxLoop} \subseteq BOOLEAN  OBVIOUS
  <2> QED BY <1>1, <1>2, <2>1 DEF HxTypeOK
<1>4. hxOut = CutOut(0)
  BY DEF CutOut
<1>5. HxCut(0)
  BY <1>2, <1>4 DEF HxCut, HxAsSent
<1> QED BY <1>3, <1>5 DEF HxIInv

(* The scanner's and the device's steps leave the parser alone.            *)
LEMMA HxOthersKeep ==
  ASSUME HxIInv, UNCHANGED hxParser,
         {hxKnown', hxLink', hxTask'} \subseteq BOOLEAN,
         hxDev' \in {"none", "offered", "connected", "subscribed", "running", "failed", "stopped"},
         hxFaults' \in 0 .. HxMaxFaults
  PROVE  HxIInv'
<1>1. hxAir' = hxAir /\ hxBuf' = hxBuf /\ hxLoop' = hxLoop /\ hxOut' = hxOut
  BY DEF hxParser
<1>2. {hxKnown', hxLink', hxTask', hxLoop'} \subseteq BOOLEAN
  BY <1>1 DEF HxIInv, HxTypeOK
<1>3. HxTypeOK'
  BY <1>1, <1>2 DEF HxIInv, HxTypeOK
<1>4. PICK k \in Nat : HxCut(k)  BY DEF HxIInv
<1>5. HxCut(k)'  BY <1>1, <1>4 DEF HxCut, HxAsSent
<1> QED BY <1>3, <1>5 DEF HxIInv

LEMMA HxFeedIInv ==
  ASSUME HxIInv, NEW n \in 1 .. HxLen + 1, Feed(n)
  PROVE  HxIInv'
<1>1. HxLen \in Nat /\ HxLen > 0 /\ HxMaxRecords \in Nat  BY HxAssumption
<1>2. PICK k \in Nat : HxCut(k)  BY DEF HxIInv
<1>3. PICK bytes \in Sent(n) : hxBuf' = hxBuf \o bytes  BY DEF Feed
<1>4. PICK m \in [1 .. n -> HxMarkers] :
        bytes = [i \in 1 .. n |-> [record |-> HxAt(hxAir + i).record, place |-> HxAt(hxAir + i).place,
                                   marker |-> IF HxAt(hxAir + i).place = 1 THEN "frame" ELSE m[i]]]
  BY <1>3 DEF Sent
<1>5. /\ hxAir \in Nat /\ hxAir' = hxAir + n /\ hxAir' <= HxLen * HxMaxRecords
      /\ HxLen * HxMaxRecords \in Nat /\ HxLen * k \in Nat
  BY <1>1, SMTT(30) DEF Feed, HxIInv, HxTypeOK
<1>6. \A i \in 1 .. n : bytes[i] \in HxBytes
  <2> TAKE i \in 1 .. n
  <2>1. hxAir + i \in 1 .. HxLen * HxMaxRecords  BY <1>1, <1>5
  <2>2. HxAt(hxAir + i).record \in 1 .. HxMaxRecords /\ HxAt(hxAir + i).place \in 1 .. HxLen
    BY <2>1, HxAtTyped
  <2>3. m[i] \in HxMarkers /\ "frame" \in HxMarkers  BY <1>4 DEF HxMarkers
  <2>4. bytes[i] = [record |-> HxAt(hxAir + i).record, place |-> HxAt(hxAir + i).place,
                    marker |-> IF HxAt(hxAir + i).place = 1 THEN "frame" ELSE m[i]]
    BY <1>4
  <2> QED BY <2>2, <2>3, <2>4 DEF HxBytes
<1>7. bytes \in Seq(HxBytes) /\ Len(bytes) = n
  <2>1. bytes = [i \in 1 .. n |-> bytes[i]]  BY <1>4
  <2>2. n \in Nat  BY <1>1
  <2> QED BY <1>6, <2>1, <2>2
<1>8. hxBuf \in Seq(HxBytes) /\ Len(hxBuf) <= HxLen - 1 /\ hxLoop'
  BY DEF HxIInv, HxTypeOK, Feed
<1>9. /\ hxBuf' \in Seq(HxBytes) /\ Len(hxBuf') = Len(hxBuf) + n
      /\ \A i \in 1 .. Len(hxBuf) : hxBuf'[i] = hxBuf[i]
      /\ \A i \in 1 .. Len(hxBuf') : i > Len(hxBuf) => hxBuf'[i] = bytes[i - Len(hxBuf)]
  <2>4. hxBuf \o bytes \in Seq(HxBytes)
    BY <1>7, <1>8
  <2>5. Len(hxBuf \o bytes) = Len(hxBuf) + Len(bytes)
    BY <1>7, <1>8, SMTT(30)
  <2>1. hxBuf' \in Seq(HxBytes) /\ Len(hxBuf') = Len(hxBuf) + n
    BY <1>3, <1>7, <2>4, <2>5
  <2>2. \A i \in 1 .. Len(hxBuf) : hxBuf'[i] = hxBuf[i]
    BY <1>3, <1>7, <1>8
  <2>3. \A i \in 1 .. Len(hxBuf) + n : i > Len(hxBuf) => hxBuf'[i] = bytes[i - Len(hxBuf)]
    BY <1>3, <1>7, <1>8
  <2> QED BY <2>1, <2>2, <2>3
<1>10. HxTypeOK'
  <2>1. hxAir' \in 0 .. HxLen * HxMaxRecords  BY <1>1, <1>5
  <2>2. Len(hxBuf') <= 2 * HxLen  BY <1>1, <1>8, <1>9
  <2>3. {hxKnown', hxLink', hxTask', hxLoop'} \subseteq BOOLEAN
    BY <1>8 DEF HxIInv, HxTypeOK, Feed
  <2> QED BY <1>8, <1>9, <2>1, <2>2, <2>3 DEF HxIInv, HxTypeOK, Feed
<1>11. HxAsSent(k)'
  <2> SUFFICES ASSUME NEW i \in 1 .. Len(hxBuf')
               PROVE  /\ hxBuf'[i].record = HxAt(HxLen * k + i).record
                      /\ hxBuf'[i].place = HxAt(HxLen * k + i).place
                      /\ hxBuf'[i].place = 1 => hxBuf'[i].marker = "frame"
    BY DEF HxAsSent
  <2>1. CASE i <= Len(hxBuf)
    <3>1. i \in 1 .. Len(hxBuf)  BY <2>1, <1>8, <1>9
    <3> QED BY <3>1, <1>9, <1>2 DEF HxCut, HxAsSent
  <2>2. CASE i > Len(hxBuf)
    <3> DEFINE j == i - Len(hxBuf)
    <3>1. j \in 1 .. n /\ hxAir + j = HxLen * k + i
      <4> DEFINE z == HxLen * k
                 l == Len(hxBuf)
      <4>1. z \in Nat /\ l \in Nat /\ hxAir = z + l  BY <1>2, <1>5, <1>8 DEF HxCut
      <4>2. i \in 1 .. l + n /\ i > l  BY <2>2, <1>9
      <4> HIDE DEF z, l
      <4>3. i - l \in 1 .. n /\ hxAir + (i - l) = z + i  BY <4>1, <4>2
      <4> QED BY <4>3 DEF z, l
    <3>2. hxBuf'[i] = bytes[j]  BY <2>2, <1>9
    <3> HIDE DEF j
    <3>3. bytes[j] = [record |-> HxAt(hxAir + j).record, place |-> HxAt(hxAir + j).place,
                      marker |-> IF HxAt(hxAir + j).place = 1 THEN "frame" ELSE m[j]]
      BY <3>1, <1>4
    <3> QED BY <3>1, <3>2, <3>3
  <2> QED BY <2>1, <2>2, <1>8, <1>9
<1>12. HxCut(k)'
  <2>1. hxOut' = hxOut /\ hxAir = HxLen * k + Len(hxBuf) /\ hxOut = CutOut(k)
    BY <1>2 DEF HxCut, Feed
  <2>2. hxAir' = HxLen * k + Len(hxBuf')
    <3> DEFINE z == HxLen * k
    <3>1. z \in Nat /\ hxAir = z + Len(hxBuf)
      BY <1>5, <2>1
    <3> HIDE DEF z
    <3>2. hxAir' = z + Len(hxBuf')
      BY <1>1, <1>5, <1>8, <1>9, <3>1
    <3> QED BY <3>2 DEF z
  <2> QED BY <1>11, <2>1, <2>2 DEF HxCut
<1> QED BY <1>10, <1>12 DEF HxIInv

(* A pass of the loop takes out one record, the next, or none.             *)
LEMMA HxDrainCuts ==
  ASSUME HxIInv, DrainChunks
  PROVE  HxIInv' /\ \E k \in Nat : HxCut(k) /\ (HxCut(k)' \/ HxCut(k + 1)')
<1>1. HxLen \in Nat /\ HxLen > 0 /\ HxMaxRecords \in Nat  BY HxAssumption
<1>2. PICK k \in Nat : HxCut(k)  BY DEF HxIInv
<1>3. /\ hxLoop /\ hxBuf \in Seq(HxBytes) /\ Len(hxBuf) <= 2 * HxLen
      /\ UNCHANGED <<hxKnown, hxDev, hxLink, hxTask, hxAir, hxFaults>>
  BY DEF DrainChunks, HxIInv, HxTypeOK
<1>4. hxAir \in Nat /\ HxLen * k \in Nat /\ HxLen * HxMaxRecords \in Nat
      /\ hxAir <= HxLen * HxMaxRecords
  BY <1>1, SMTT(30) DEF HxIInv, HxTypeOK
<1>5. 1 \in 1 .. HxLen  BY <1>1
<1>6. Len(hxBuf) > 0 => hxBuf[1].marker = "frame"
  <2> HAVE Len(hxBuf) > 0
  <2>1. HxAt(HxLen * k + 1) = [record |-> k + 1, place |-> 1]  BY <1>5, HxAtOfRecord
  <2>2. 1 \in 1 .. Len(hxBuf)  BY <1>3
  <2> QED BY <2>1, <2>2, <1>2 DEF HxCut, HxAsSent
<1>7. Len(hxBuf) > HxLen => hxBuf[HxLen + 1].marker = "frame"
  <2> HAVE Len(hxBuf) > HxLen
  <2>1. HxLen + 1 \in 1 .. Len(hxBuf) /\ HxLen * k + (HxLen + 1) = HxLen * k + HxLen + 1
    <3> DEFINE z == HxLen * k
    <3>1. z \in Nat /\ Len(hxBuf) \in Nat  BY <1>3, <1>4
    <3> HIDE DEF z
    <3>2. z + (HxLen + 1) = z + HxLen + 1 /\ HxLen + 1 \in 1 .. Len(hxBuf)  BY <1>1, <3>1
    <3> QED BY <3>2 DEF z
  <2>2. HxAt(HxLen * k + HxLen + 1).place = 1  BY HxAtNext
  <2>3. HxAt(HxLen * k + (HxLen + 1)).place = 1  BY <2>1, <2>2, Zenon
  <2> QED BY <2>1, <2>3, <1>2 DEF HxCut, HxAsSent
<1>8. ASSUME hxBuf' \in Seq(HxBytes), hxLoop' \in BOOLEAN,
             Len(hxBuf') <= (IF hxLoop' THEN 2 * HxLen ELSE HxLen - 1),
             NEW l \in {k, k + 1}, HxCut(l)'
      PROVE  HxIInv' /\ (HxCut(k)' \/ HxCut(k + 1)')
  <2> l \in Nat  BY <1>8
  <2>1. {hxKnown', hxLink', hxTask', hxLoop'} \subseteq BOOLEAN
    BY <1>3, <1>8 DEF HxIInv, HxTypeOK
  <2>2. hxAir' \in 0 .. HxLen * HxMaxRecords  BY <1>3, <1>4
  <2>3. Len(hxOut') <= HxMaxRecords
    <3>1. Len(hxOut') = l  BY <1>8 DEF HxCut, CutOut
    <3>2. HxLen * l <= HxLen * HxMaxRecords /\ HxLen * l \in Nat
      BY <1>1, <1>3, <1>4, <1>8, SMTT(30) DEF HxCut
    <3>3. l <= HxMaxRecords
      <4>1. SUFFICES ASSUME l >= HxMaxRecords + 1 PROVE FALSE
        BY <1>1, <1>8
      <4>2. HxLen * l >= HxLen * (HxMaxRecords + 1)  BY <4>1, <1>1, <1>8
      <4>3. HxLen * (HxMaxRecords + 1) = HxLen * HxMaxRecords + HxLen  BY <1>1
      <4> QED BY <4>2, <4>3, <3>2, <1>1, <1>4
    <3> QED BY <3>1, <3>3
  <2>4. HxTypeOK'
    BY <2>1, <2>2, <2>3, <1>3, <1>8 DEF HxIInv, HxTypeOK
  <2>5. HxIInv'  BY <2>4, <1>8 DEF HxIInv
  <2>6. HxCut(k)' \/ HxCut(k + 1)'  BY <1>8
  <2> QED BY <2>5, <2>6
<1>9. ASSUME DrainAll PROVE HxIInv' /\ (HxCut(k)' \/ HxCut(k + 1)')
  <2>1. Len(hxBuf) = 0
    BY <1>3, <1>6, <1>9 DEF DrainAll
  <2>2. hxBuf = <<>> /\ hxBuf' = <<>> /\ hxLoop' = FALSE /\ hxOut' = hxOut
    BY <1>3, <1>9, <2>1 DEF DrainAll
  <2>3. HxCut(k)'
    BY <1>2, <1>3, <2>1, <2>2 DEF HxCut, HxAsSent
  <2>4. hxBuf' \in Seq(HxBytes) /\ Len(hxBuf') <= HxLen - 1
    BY <1>1, <2>2
  <2> QED BY <1>8, <2>2, <2>3, <2>4
<1>10. ASSUME NEW first \in DOMAIN hxBuf, DrainFrom(first)
       PROVE  HxIInv' /\ (HxCut(k)' \/ HxCut(k + 1)')
  <2>1. first = 1 /\ Len(hxBuf) > 0
    BY <1>3, <1>6, <1>10, SMTT(30) DEF DrainFrom
  <2>2. SubSeq(hxBuf, first, Len(hxBuf)) = hxBuf
    BY <2>1, <1>3
  <2>3. ~(Len(hxBuf) > HxLen /\ hxBuf[HxLen + 1].marker = "none")
    BY <1>7
  <2>4. /\ hxBuf' = IF Len(hxBuf) >= HxLen THEN SubSeq(hxBuf, HxLen + 1, Len(hxBuf)) ELSE hxBuf
        /\ hxOut' = IF Len(hxBuf) >= HxLen
                      THEN Append(hxOut, Where(SubSeq(hxBuf, 1, HxLen))) ELSE hxOut
        /\ hxLoop' = IF Len(hxBuf) >= HxLen THEN TRUE ELSE FALSE
    BY <1>10, <2>2, <2>3 DEF DrainFrom
  <2>5. CASE Len(hxBuf) < HxLen
    <3> ~(Len(hxBuf) >= HxLen)
      BY <2>5, <1>1, <1>3
    <3>1. hxBuf' = hxBuf /\ hxOut' = hxOut /\ hxLoop' = FALSE
      BY <2>4
    <3>2. HxCut(k)'
      BY <1>2, <1>3, <3>1 DEF HxCut, HxAsSent
    <3>3. Len(hxBuf') <= HxLen - 1
      BY <3>1, <2>5, <1>1, <1>3
    <3> QED BY <1>3, <1>8, <3>1, <3>2, <3>3
  <2>6. CASE Len(hxBuf) >= HxLen
    <3> DEFINE rest == SubSeq(hxBuf, HxLen + 1, Len(hxBuf))
               head == SubSeq(hxBuf, 1, HxLen)
    <3>1. hxBuf' = rest /\ hxOut' = Append(hxOut, Where(head)) /\ hxLoop' = TRUE
      BY <2>4, <2>6
    <3>2. /\ rest \in Seq(HxBytes) /\ Len(rest) = Len(hxBuf) - HxLen
          /\ \A i \in 1 .. Len(rest) : rest[i] = hxBuf[HxLen + i]
      BY <1>1, <1>3, <2>6
    <3>3. /\ head \in Seq(HxBytes) /\ Len(head) = HxLen
          /\ \A i \in 1 .. HxLen : head[i] = hxBuf[i]
      BY <1>1, <1>3, <2>6
    <3> HIDE DEF rest, head
    <3>4. HxLen * (k + 1) = HxLen * k + HxLen  BY HxAtNext
    <3>5. \A i \in 1 .. HxLen : head[i].record = k + 1 /\ head[i].place = i
      <4> TAKE i \in 1 .. HxLen
      <4>1. HxAt(HxLen * k + i) = [record |-> k + 1, place |-> i]  BY HxAtOfRecord
      <4>2. i \in 1 .. Len(hxBuf)  BY <1>1, <1>3, <2>6
      <4> QED BY <4>1, <4>2, <3>3, <1>2, SMTT(30) DEF HxCut, HxAsSent
    <3>6. Where(head) = [place \in 1 .. HxLen |-> [record |-> k + 1, place |-> place]]
      <4>1. DOMAIN head = 1 .. HxLen  BY <1>1, <3>3
      <4> QED BY <4>1, <3>5 DEF Where
    <3>7. hxOut' = CutOut(k + 1)
      <4> DEFINE last == [place \in 1 .. HxLen |-> [record |-> k + 1, place |-> place]]
      <4>1. hxOut = CutOut(k) /\ hxOut' = Append(CutOut(k), last)
        BY <1>2, <3>1, <3>6 DEF HxCut
      <4> DEFINE Row(r) == [place \in 1 .. HxLen |-> [record |-> r, place |-> place]]
      <4>2. CutOut(k) = [r \in 1 .. k |-> Row(r)] /\ CutOut(k + 1) = [r \in 1 .. k + 1 |-> Row(r)]
            /\ last = Row(k + 1)
        BY DEF CutOut
      <4> HIDE DEF last, Row
      <4>3. Append([r \in 1 .. k |-> Row(r)], Row(k + 1)) = [r \in 1 .. k + 1 |-> Row(r)]
        OBVIOUS
      <4> QED BY <4>1, <4>2, <4>3
    <3>8. HxAsSent(k + 1)'
      <4> SUFFICES ASSUME NEW i \in 1 .. Len(rest)
                   PROVE  /\ rest[i].record = HxAt(HxLen * (k + 1) + i).record
                          /\ rest[i].place = HxAt(HxLen * (k + 1) + i).place
                          /\ rest[i].place = 1 => rest[i].marker = "frame"
        BY <3>1 DEF HxAsSent
      <4>1. HxLen + i \in 1 .. Len(hxBuf) /\ HxLen * (k + 1) + i = HxLen * k + (HxLen + i)
        <5> DEFINE z == HxLen * k
        <5>1. z \in Nat /\ HxLen * (k + 1) = z + HxLen /\ Len(hxBuf) \in Nat
          BY <1>3, <1>4, <3>4
        <5> HIDE DEF z
        <5>2. HxLen + i \in 1 .. Len(hxBuf) /\ (z + HxLen) + i = z + (HxLen + i)
          BY <1>1, <2>6, <3>2, <5>1
        <5> QED BY <5>1, <5>2 DEF z
      <4> QED BY <4>1, <3>2, <1>2 DEF HxCut, HxAsSent
    <3>9. HxCut(k + 1)'
      <4> DEFINE z == HxLen * k
                 y == HxLen * (k + 1)
      <4>1. z \in Nat /\ y = z + HxLen /\ hxAir' = z + Len(hxBuf)
        BY <1>2, <1>3, <1>4, <3>4 DEF HxCut
      <4>2. Len(hxBuf') = Len(hxBuf) - HxLen /\ Len(hxBuf) \in Nat
        BY <1>3, <3>1, <3>2
      <4> HIDE DEF y, z
      <4>3. \A a, b \in Nat : a + b = (a + HxLen) + (b - HxLen)
        BY <1>1
      <4>4. hxAir' = y + Len(hxBuf')
        BY <4>1, <4>2, <4>3
      <4> QED BY <3>7, <3>8, <4>4 DEF HxCut, y
    <3>10. Len(hxBuf') <= 2 * HxLen
      BY <1>1, <1>3, <3>1, <3>2
    <3> QED BY <1>8, <3>1, <3>2, <3>9, <3>10
  <2> QED BY <2>5, <2>6, <1>1, <1>3
<1>11. HxIInv' /\ (HxCut(k)' \/ HxCut(k + 1)')
  <2> CASE DrainAll  BY <1>9
  <2> CASE \E first \in DOMAIN hxBuf : DrainFrom(first)  BY <1>10
  <2> QED BY DEF DrainChunks
<1> QED BY <1>2, <1>11

LEMMA HxNextIInv == HxIInv /\ [HxNext]_hxVars => HxIInv'
<1> SUFFICES ASSUME HxIInv, [HxNext]_hxVars PROVE HxIInv'
  OBVIOUS
<1>1. /\ hxKnown \in BOOLEAN /\ hxLink \in BOOLEAN /\ hxTask \in BOOLEAN
      /\ hxDev \in {"none", "offered", "connected", "subscribed", "running", "failed", "stopped"}
      /\ hxFaults \in 0 .. HxMaxFaults /\ HxMaxFaults \in Nat
  BY HxAssumption DEF HxIInv, HxTypeOK
<1>2. CASE HopxEnumerate
  BY <1>1, <1>2, HxOthersKeep DEF HopxEnumerate
<1>3. CASE HopxStart
  <2>1. hxDev' \in {"connected", "subscribed", "running"} /\ hxLink' \in BOOLEAN
    BY <1>1, <1>3 DEF HopxStart, HxStep
  <2>2. hxTask' \in BOOLEAN  BY <1>3 DEF HopxStart
  <2> QED BY <1>1, <1>3, <2>1, <2>2, HxOthersKeep DEF HopxStart
<1>4. CASE HopxStartFails
  BY <1>1, <1>4, HxOthersKeep DEF HopxStartFails
<1>5. CASE HopxLost
  <2>1. hxLink' = FALSE /\ hxTask' = FALSE /\ hxKnown' = hxKnown /\ UNCHANGED hxParser
    BY <1>5 DEF HopxLost
  <2>2. {hxKnown', hxLink', hxTask'} \subseteq BOOLEAN
    BY <1>1, <2>1
  <2>3. /\ hxDev' \in {"none", "offered", "connected", "subscribed", "running", "failed", "stopped"}
        /\ hxFaults' \in 0 .. HxMaxFaults
    BY <1>1, <1>5 DEF HopxLost
  <2> QED BY <2>1, <2>2, <2>3, HxOthersKeep
<1>6. CASE HopxStop
  BY <1>1, <1>6, HxOthersKeep DEF HopxStop
<1>7. CASE UNCHANGED hxVars
  BY <1>1, <1>7, HxOthersKeep DEF hxVars
<1> QED BY <1>2, <1>3, <1>4, <1>5, <1>6, <1>7, HxFeedIInv, HxDrainCuts DEF HxNext

LEMMA HxSettled == HxIInv => HxReassembled
<1> SUFFICES ASSUME HxIInv, ~hxLoop PROVE HxReassembled
  BY DEF HxReassembled
<1>1. HxLen \in Nat /\ HxLen > 0  BY HxAssumption
<1>2. PICK k \in Nat : HxCut(k)  BY DEF HxIInv
<1>3. Len(hxBuf) \in 0 .. HxLen - 1 /\ hxAir = HxLen * k + Len(hxBuf)
  BY <1>1, <1>2 DEF HxIInv, HxTypeOK, HxCut
<1>4. hxAir \div HxLen = k /\ hxAir % HxLen = Len(hxBuf)
  BY <1>1, <1>3, SMTT(30)
<1> QED BY <1>2, <1>4 DEF HxReassembled, HxCut, CutOut

THEOREM HopxTypeCorrect == HxSpec => []HxTypeOK
<1>1. HxIInv => HxTypeOK  BY DEF HxIInv
<1> QED BY <1>1, HxInitIInv, HxNextIInv, PTL DEF HxSpec

(* Whatever payload looks like a marker and however the stream is cut into *)
(* notifications, each record comes out once, whole and in order           *)
(* (protocol.rs:109-151), for records of every length.                     *)
THEOREM RecordsReassembled == HxSpec => []HxReassembled
<1> QED BY HxSettled, HxInitIInv, HxNextIInv, PTL DEF HxSpec

(* The records whole in a stream of r records and some bytes.              *)
LEMMA HxWhole ==
  ASSUME NEW r \in Nat, NEW l \in Nat
  PROVE  (HxLen * r + l) \div HxLen >= r
<1>1. HxLen \in Nat /\ HxLen > 0  BY HxAssumption
<1> DEFINE a == HxLen * r + l
           q == a \div HxLen
<1>2. HxLen * r \in Nat  BY <1>1
<1>3. a \in Nat /\ a >= HxLen * r  BY <1>2
<1> HIDE DEF a
<1>4. q \in Nat /\ a < HxLen * q + HxLen  BY <1>1, <1>3, SMTT(30)
<1>5. HxLen * (q + 1) = HxLen * q + HxLen /\ HxLen * q \in Nat  BY <1>1, <1>4
<1> HIDE DEF q
<1>6. q >= r
  <2>1. SUFFICES ASSUME q + 1 <= r PROVE FALSE  BY <1>4
  <2>2. HxLen * (q + 1) <= HxLen * r  BY <1>1, <1>4, <2>1
  <2> QED BY <1>1, <1>2, <1>3, <1>4, <1>5, <2>2
<1> QED BY <1>6 DEF q, a

(* A notification may complete records, takes none out, and finds none     *)
(* held back.                                                              *)
LEMMA HxFeedSends ==
  ASSUME HxIInv, NEW n \in 1 .. HxLen + 1, Feed(n)
  PROVE  Stream!Send
<1>1. HxLen \in Nat /\ HxLen > 0  BY HxAssumption
<1>2. hxAir \in Nat /\ hxAir' = hxAir + n /\ hxOut' = hxOut
  <2>1. HxLen * HxMaxRecords \in Nat  BY HxAssumption
  <2> QED BY <2>1 DEF HxIInv, HxTypeOK, Feed
<1> DEFINE p == hxAir \div HxLen
           t == hxAir % HxLen
<1>3. p \in Nat /\ t \in Nat /\ hxAir = HxLen * p + t
  BY <1>1, <1>2, SMTT(30)
<1>4. hxAir' = HxLen * p + (t + n) /\ t + n \in Nat
  <2> DEFINE z == HxLen * p
  <2>1. z \in Nat /\ hxAir = z + t  BY <1>1, <1>3
  <2> HIDE DEF p, t, z
  <2>2. hxAir' = z + (t + n) /\ t + n \in Nat  BY <1>2, <1>3, <2>1
  <2> QED BY <2>2 DEF z
<1> HIDE DEF t
<1>5. (HxLen * p + (t + n)) \div HxLen >= p
  <2> HIDE DEF p
  <2> QED BY <1>3, <1>4, HxWhole
<1>6. hxAir' \div HxLen \in Nat  BY <1>1, <1>2, SMTT(30)
<1>7. hxAir' \div HxLen >= hxAir \div HxLen  BY <1>4, <1>5
<1>8. Len(hxOut) = hxAir \div HxLen
  <2>1. HxReassembled /\ ~hxLoop  BY HxSettled DEF Feed
  <2>2. p \in Nat  BY <1>3
  <2> DEFINE Row(r) == [place \in 1 .. HxLen |-> [record |-> r, place |-> place]]
  <2>3. hxOut = [r \in 1 .. p |-> Row(r)]  BY <2>1 DEF HxReassembled
  <2> HIDE DEF Row, p
  <2>4. Len(hxOut) = p  BY <2>2, <2>3
  <2> QED BY <2>4 DEF p
<1> QED BY <1>2, <1>6, <1>7, <1>8 DEF Stream!Send

(* A pass of the loop takes out the record after those that are out, or    *)
(* none.                                                                   *)
LEMMA HxDrainDelivers ==
  ASSUME HxIInv, DrainChunks
  PROVE  Stream!Deliver \/ UNCHANGED Stream!vars
<1>1. HxLen \in Nat /\ HxLen > 0  BY HxAssumption
<1>2. PICK k \in Nat : HxCut(k) /\ (HxCut(k)' \/ HxCut(k + 1)')  BY HxDrainCuts
<1>3. hxAir' = hxAir /\ (hxAir \div HxLen)' = hxAir \div HxLen  BY DEF DrainChunks
<1>4. CASE HxCut(k)'
  BY <1>2, <1>3, <1>4 DEF HxCut, CutOut, Stream!vars
<1>5. CASE HxCut(k + 1)'
  <2> DEFINE Row(r) == [place \in 1 .. HxLen |-> [record |-> r, place |-> place]]
  <2>1. hxOut = [r \in 1 .. k |-> Row(r)] /\ hxOut' = [r \in 1 .. k + 1 |-> Row(r)]
    BY <1>2, <1>5 DEF HxCut, CutOut
  <2>2. Stream!Record(Len(hxOut) + 1) = Row(Len(hxOut) + 1)
    BY DEF Stream!Record
  <2> HIDE DEF Row
  <2>3. Len(hxOut) = k  BY <2>1
  <2>4. [r \in 1 .. k + 1 |-> Row(r)] = Append([r \in 1 .. k |-> Row(r)], Row(k + 1))
    OBVIOUS
  <2>5. hxOut' = Append(hxOut, Stream!Record(Len(hxOut) + 1))
    BY <2>1, <2>2, <2>3, <2>4
  <2>6. k < hxAir \div HxLen
    <3>1. Len(hxBuf') \in Nat  BY HxDrainCuts DEF HxIInv, HxTypeOK
    <3>2. hxAir = HxLen * (k + 1) + Len(hxBuf')  BY <1>3, <1>5 DEF HxCut
    <3>3. (HxLen * (k + 1) + Len(hxBuf')) \div HxLen >= k + 1
      BY <1>1, <3>1, HxWhole
    <3>4. hxAir \div HxLen \in Int /\ hxAir \div HxLen >= k + 1
      BY <1>1, <3>1, <3>2, <3>3
    <3> QED BY <3>4
  <2> QED BY <1>3, <2>3, <2>5, <2>6 DEF Stream!Deliver
<1> QED BY <1>2, <1>4, <1>5

LEMMA HxInitStreams == HxInit => Stream!Init
<1>1. 0 \div HxLen = 0  BY HxAssumption
<1> QED BY <1>1 DEF HxInit, Stream!Init

LEMMA HxNextStreams == HxIInv /\ [HxNext]_hxVars => [Stream!Next]_(Stream!vars)
<1> SUFFICES ASSUME HxIInv, [HxNext]_hxVars
             PROVE  Stream!Next \/ UNCHANGED Stream!vars
  OBVIOUS
<1>1. CASE UNCHANGED hxParser
  BY <1>1 DEF hxParser, Stream!vars
<1>2. ASSUME NEW n \in 1 .. HxLen + 1, Feed(n) PROVE Stream!Next
  BY <1>2, HxFeedSends DEF Stream!Next
<1>3. CASE DrainChunks
  BY <1>3, HxDrainDelivers DEF Stream!Next
<1> QED BY <1>1, <1>2, <1>3 DEF HxNext, hxVars, HopxEnumerate, HopxStart, HopxStartFails,
                                HopxLost, HopxStop

(* However the stream is split into notifications and whatever payload     *)
(* looks like a marker, the parser is the stream of whole records that its *)
(* comments promise (protocol.rs:88-91, 109-110): at no pass of its loop   *)
(* does a record come out early, twice, out of order or in parts.          *)
THEOREM RecordsStreamed == HxSpec => IsRecordStream
BY HxInitIInv, HxNextIInv, HxInitStreams, HxNextStreams, PTL
DEF HxSpec, IsRecordStream, Stream!Spec
=============================================================================
