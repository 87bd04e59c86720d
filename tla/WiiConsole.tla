------------------------------ MODULE WiiConsole ------------------------------
(***************************************************************************)
(* The companion on a Wii, companions/wii, and the handler of its          *)
(* connection: each frame the console builds the record of a remote,       *)
(* writes it, and waits for a reply before the next.  A frame is a few     *)
(* segments of a byte stream, a read of the handler takes any of those     *)
(* that came, and each read is answered.  One slot; with the records of    *)
(* the others a frame is longer, and is as likely to be split.             *)
(***************************************************************************)
EXTENDS Integers, Sequences, TLC

CONSTANTS
  WcSegments,   \* segments of a frame
  WcMaxSplits,  \* bound: reads, of a connection, that complete no frame
  WcMaxChanges  \* bound: what the user does, what the desktop asks, what breaks

ASSUME WcAssumption ==
  WcSegments \in Nat \ {0} /\ WcMaxSplits \in Nat /\ WcMaxChanges \in Nat

VARIABLES
  wcRemote,      \* in the slot: no remote, a bare one, one with MotionPlus
  wcNunchuk,     \* a Nunchuk is plugged into it
  wcOn,          \* the remote's MotionPlus is switched on
  wcFormatSet, wcEnabled, wcUnsupported, \* the companion's flags of the slot
  wcPc,          \* the companion: build, send or wait for the reply
  wcRecord,      \* the record it built
  wcSock,        \* the connection stands
  wcFrames,      \* the records of the frames the handler has not read to the end
  wcStream,      \* segments on their way to it
  wcTaken,       \* and those of an incomplete frame it keeps: leftover
  wcReplies,     \* replies on their way: the rumble bit of each
  wcSplits,      \* history: reads, since the connection, that completed no frame
  wcAsked,       \* the handler's rumble bit of the slot
  wcVibrates,    \* the remote vibrates: was_vibrating
  wcGyro,        \* the rate the device last made of a record
  wcChanges

slot == <<wcRemote, wcNunchuk, wcOn>>
flags == <<wcFormatSet, wcEnabled, wcUnsupported>>
link == <<wcSock, wcFrames, wcStream, wcTaken, wcReplies, wcSplits>>
wcVars == <<slot, flags, wcPc, wcRecord, link, wcAsked, wcVibrates, wcGyro, wcChanges>>

(* What MotionPlus reads at rest; no remote is turned here. *)
AtRest == 8192

Records == [empty : BOOLEAN, nunchuk : BOOLEAN, motionplus : BOOLEAN, data : {0, AtRest}]

EmptySlot == [empty |-> TRUE, nunchuk |-> FALSE, motionplus |-> FALSE, data |-> 0]

WcTypeOK ==
  /\ wcRemote \in {"none", "bare", "plus"} /\ wcNunchuk \in BOOLEAN /\ wcOn \in BOOLEAN
  /\ wcFormatSet \in BOOLEAN /\ wcEnabled \in BOOLEAN /\ wcUnsupported \in BOOLEAN
  /\ wcPc \in {"build", "send", "wait"} /\ wcRecord \in Records
  /\ wcSock \in BOOLEAN
  /\ wcFrames \in Seq(Records) /\ Len(wcFrames) <= 1 + WcMaxSplits
  /\ wcTaken \in 0..(WcSegments - 1)
  /\ wcStream + wcTaken = WcSegments * Len(wcFrames)
  /\ wcReplies \in Seq(BOOLEAN)
  /\ wcSplits \in 0..WcMaxSplits
  /\ wcAsked \in BOOLEAN /\ wcVibrates \in BOOLEAN
  /\ wcGyro \in {0, 0 - AtRest}
  /\ wcChanges \in 0..WcMaxChanges

Disconnected ==
  wcSock' = FALSE /\ wcFrames' = << >> /\ wcStream' = 0 /\ wcTaken' = 0 /\ wcReplies' = << >> /\ wcSplits' = 0

WcInit ==
  /\ wcRemote = "none" /\ wcNunchuk = FALSE /\ wcOn = FALSE
  /\ wcFormatSet = FALSE /\ wcEnabled = FALSE /\ wcUnsupported = FALSE
  /\ wcPc = "build" /\ wcRecord = EmptySlot
  /\ wcSock = FALSE /\ wcFrames = << >> /\ wcStream = 0 /\ wcTaken = 0 /\ wcReplies = << >> /\ wcSplits = 0
  /\ wcAsked = FALSE /\ wcVibrates = FALSE /\ wcGyro = 0 /\ wcChanges = 0

-----------------------------------------------------------------------------
(* The companion *)

(* What wiiuse tells of the extension port: a Nunchuk hides MotionPlus.    *)
HasMotionPlus(on) == wcRemote = "plus" /\ on /\ ~wcNunchuk

BuildRecord ==
  /\ wcPc = "build"
  /\ wcPc' = "send"
  /\ IF wcRemote = "none"
       THEN wcRecord' = EmptySlot /\ UNCHANGED <<wcOn, flags>>
       ELSE LET first == ~wcFormatSet /\ ~wcUnsupported
                enabled == wcEnabled \/ first
                drop == wcNunchuk /\ enabled
                back == ~wcNunchuk /\ ~enabled /\ ~wcUnsupported
                \* has_motionplus is asked before MotionPlus is brought back
                motionplus == HasMotionPlus(wcOn \/ first)
            IN  /\ wcFormatSet' = TRUE
                /\ \E data \in IF motionplus THEN {0, AtRest} ELSE {0} :
                     LET denies == motionplus /\ data = 0
                     IN  /\ wcRecord' = [empty |-> FALSE, nunchuk |-> wcNunchuk, data |-> data,
                                         motionplus |-> motionplus /\ ~denies]
                         /\ wcUnsupported' = (wcUnsupported \/ denies)
                         /\ wcEnabled' = (((enabled /\ ~drop) \/ back) /\ ~denies)
                         /\ wcOn' = ((wcOn \/ first \/ back) /\ ~drop /\ ~denies)
  /\ UNCHANGED <<wcRemote, wcNunchuk, link, wcAsked, wcVibrates, wcGyro, wcChanges>>

(* Without a connection the frame is dropped once none can be opened.      *)
SendFrame ==
  /\ wcPc = "send"
  /\ \/ /\ wcPc' = "wait"
        /\ wcSock' = TRUE
        /\ wcFrames' = Append(wcFrames, wcRecord) /\ wcStream' = wcStream + WcSegments
        /\ UNCHANGED <<wcTaken, wcReplies, wcSplits, wcChanges>>
     \/ /\ ~wcSock /\ wcChanges < WcMaxChanges
        /\ wcPc' = "build" /\ wcChanges' = wcChanges + 1
        /\ UNCHANGED link
  /\ UNCHANGED <<slot, flags, wcRecord, wcAsked, wcVibrates, wcGyro>>

ApplyReply ==
  /\ wcPc = "wait" /\ wcReplies # << >>
  /\ wcPc' = "build"
  /\ wcReplies' = Tail(wcReplies)
  /\ wcVibrates' = IF wcRemote = "none" THEN wcVibrates ELSE Head(wcReplies)
  /\ UNCHANGED <<slot, flags, wcRecord, wcSock, wcFrames, wcStream, wcTaken, wcSplits,
                 wcAsked, wcGyro, wcChanges>>

(* Any error closes the socket, and the frame is not sent again.  The      *)
(* handler ends and with it its rumble bits.                               *)
Breaks ==
  /\ wcSock /\ wcChanges < WcMaxChanges
  /\ Disconnected
  /\ wcPc' = IF wcPc = "wait" THEN "build" ELSE wcPc
  /\ wcAsked' = FALSE
  /\ wcChanges' = wcChanges + 1
  /\ UNCHANGED <<slot, flags, wcRecord, wcVibrates, wcGyro>>

-----------------------------------------------------------------------------
(* The handler, and the device of the slot *)

(* parse_packet takes the Nunchuk's flag and not MotionPlus's, and the     *)
(* device takes a record without a Nunchuk for a gyro's.                   *)
GyroOf(r) ==
  IF r.nunchuk THEN 0 ELSE r.data - AtRest

(* The segments are taken, the frames they complete parsed in order.       *)
Take(n) ==
  LET frames == (wcTaken + n) \div WcSegments
      parsed == {i \in 1..frames : ~wcFrames[i].empty}
  IN  /\ wcStream' = wcStream - n
      /\ wcTaken' = (wcTaken + n) % WcSegments
      /\ wcFrames' = SubSeq(wcFrames, frames + 1, Len(wcFrames))
      /\ wcSplits' = IF frames = 0 THEN wcSplits + 1 ELSE wcSplits
      /\ wcSplits' <= WcMaxSplits
      /\ \/ parsed = {} /\ UNCHANGED wcGyro
         \/ \E i \in parsed : (\A j \in parsed : j <= i) /\ wcGyro' = GyroOf(wcFrames[i])
      /\ UNCHANGED <<slot, flags, wcPc, wcRecord, wcSock, wcAsked, wcVibrates, wcChanges>>

(* Only a read that leaves nothing behind is answered. *)
PcReadsWhole ==
  \E n \in 1..wcStream :
    /\ Take(n)
    /\ wcReplies' = IF wcTaken = 0 /\ wcTaken' = 0 THEN Append(wcReplies, wcAsked) ELSE wcReplies

PcReads ==
  \E n \in 1..wcStream : Take(n) /\ wcReplies' = Append(wcReplies, wcAsked)

SetRumble ==
  /\ wcSock /\ wcChanges < WcMaxChanges
  /\ wcAsked' = ~wcAsked /\ wcChanges' = wcChanges + 1
  /\ UNCHANGED <<slot, flags, wcPc, wcRecord, link, wcVibrates, wcGyro>>

(* A remote that leaves is off, and what comes in its place is as it was   *)
(* made; the companion's flags are of the slot.                            *)
User ==
  /\ wcChanges < WcMaxChanges /\ wcChanges' = wcChanges + 1
  /\ \/ /\ wcRemote = "none" /\ wcRemote' \in {"bare", "plus"}
        /\ wcNunchuk' \in BOOLEAN /\ wcOn' = FALSE
     \/ /\ wcRemote # "none" /\ wcRemote' = "none"
        /\ wcNunchuk' = FALSE /\ wcOn' = FALSE
     \/ /\ wcRemote # "none" /\ wcNunchuk' = ~wcNunchuk
        /\ UNCHANGED <<wcRemote, wcOn>>
  /\ UNCHANGED <<flags, wcPc, wcRecord, link, wcAsked, wcVibrates, wcGyro>>

WcNext ==
  BuildRecord \/ SendFrame \/ ApplyReply \/ Breaks \/ PcReads \/ SetRumble \/ User

(* The companion's loop and the handler's run; no one need do anything.    *)
WcFairness ==
  /\ WF_wcVars(BuildRecord) /\ WF_wcVars(SendFrame) /\ WF_wcVars(ApplyReply)
  /\ WF_wcVars(PcReads)

WcSpec == WcInit /\ [][WcNext]_wcVars /\ WcFairness

-----------------------------------------------------------------------------
(* However a frame is split, the console gets a reply and builds the next: *)
(* the two never wait for each other.                                      *)
WcAnswered == wcPc = "wait" ~> wcPc # "wait"

(* DEVICES.md:408: the bare Wii Remote has no gyro.  main.c:221-223 falls  *)
(* back to accel only: no rotation is made of a record without one.        *)
WcBareIsStill == wcGyro = 0
=============================================================================
