------------------------------ MODULE HidReader ------------------------------
(***************************************************************************)
(* The reader thread of a HID controller, from start to its end: it polls  *)
(* the pad with a timeout, puts what it reads into the channel of the      *)
(* device's pipeline, and ends when it is told to, when the pad is gone,   *)
(* or, with some drivers, when nobody listens.  Joy-Con, DualSense and     *)
(* PS Move share one reader, hid.rs of each; Steam Deck, Steam Controller  *)
(* and DualShock 3 have their own.  rdDriver says which a behaviour is of. *)
(*                                                                         *)
(* The Joy-Con's bridge task, which only passes events on, is folded into  *)
(* the channel.                                                            *)
(***************************************************************************)
EXTENDS Integers

CONSTANTS
  RdCap,      \* events the channel holds (64)
  RdErrorsMax \* MAX_CONSECUTIVE_READ_ERRORS of the DualShock 3 (10)

RdDrivers == {"joycon", "dualsense", "psmove", "deck", "steam", "ds3"}

ASSUME RdAssumption == RdCap \in Nat \ {0} /\ RdErrorsMax \in Nat \ {0}

VARIABLES
  rdDriver,
  rdPc,    \* the device: not started, failed to start; or its reader: polling, sending, telling, ended
  rdQueue, \* events in the channel
  rdTold,  \* Disconnected was put into it
  rdOpen,  \* the pipeline holds the receiver
  rdStop,  \* the shutdown flag
  rdGone,  \* the pad has left
  rdErrs   \* consecutive_errors

rdVars == <<rdDriver, rdPc, rdQueue, rdTold, rdOpen, rdStop, rdGone, rdErrs>>

RdTypeOK ==
  /\ rdDriver \in RdDrivers
  /\ rdPc \in {"new", "failed", "poll", "send", "tell", "ended"}
  /\ rdQueue \in 0 .. RdCap
  /\ {rdTold, rdOpen, rdStop, rdGone} \subseteq BOOLEAN
  /\ rdErrs \in 0 .. RdErrorsMax

RdInit ==
  /\ rdDriver \in RdDrivers /\ rdPc = "new" /\ rdQueue = 0
  /\ rdTold = FALSE /\ rdOpen = TRUE /\ rdStop = FALSE /\ rdGone = FALSE /\ rdErrs = 0

(* A blocking send waits for room, and fails once the receiver is dropped. *)
RdRoom == rdQueue < RdCap

-----------------------------------------------------------------------------
(* start *)

(* The connect sequence or the feature reports were written.  Connected is *)
(* the first event, put there by start or by the first report.             *)
RdStarts(driver, queued) ==
  /\ rdPc = "new" /\ rdDriver = driver /\ rdPc' = "poll"
  /\ rdQueue' = queued
  /\ UNCHANGED <<rdDriver, rdTold, rdOpen, rdStop, rdGone, rdErrs>>

JoyconStarts          == RdStarts("joycon", 1)
DualSenseStarts       == RdStarts("dualsense", 0)
PsMoveStarts          == RdStarts("psmove", 0)
DeckStarts            == RdStarts("deck", 1)
SteamControllerStarts == RdStarts("steam", 1)
Ds3Starts             == RdStarts("ds3", 1)

RdStart ==
  \/ JoyconStarts \/ DualSenseStarts \/ PsMoveStarts
  \/ DeckStarts \/ SteamControllerStarts \/ Ds3Starts

(* A Joy-Con, a Deck or a Steam Controller that cannot be written to is    *)
(* not started; the others do not insist.                                  *)
RdStartFails ==
  /\ rdPc = "new" /\ rdDriver \in {"joycon", "deck", "steam"}
  /\ rdPc' = "failed"
  /\ UNCHANGED <<rdDriver, rdQueue, rdTold, rdOpen, rdStop, rdGone, rdErrs>>

-----------------------------------------------------------------------------
(* The reader *)

RdPolls == rdPc = "poll" /\ ~rdStop
RdKeep  == UNCHANGED <<rdDriver, rdOpen, rdStop, rdGone>>

(* hid.rs: an error is the end, and is told; a shutdown is not.  A Joy-Con *)
(* waits for room, the others drop what does not fit, and none minds that  *)
(* nobody listens.                                                         *)
SharedReader ==
  /\ RdKeep /\ UNCHANGED rdErrs
  /\ \/ /\ rdPc = "poll" /\ rdStop /\ rdPc' = "ended"
        /\ UNCHANGED <<rdQueue, rdTold>>
     \/ /\ RdPolls /\ ~rdGone /\ rdDriver # "joycon"
        /\ rdQueue' = IF RdRoom /\ rdOpen THEN rdQueue + 1 ELSE rdQueue
        /\ UNCHANGED <<rdPc, rdTold>>
     \/ /\ RdPolls /\ ~rdGone /\ rdDriver = "joycon"
        /\ rdPc' = "send" /\ UNCHANGED <<rdQueue, rdTold>>
     \/ /\ rdPc = "send" /\ (RdRoom \/ ~rdOpen)
        /\ rdPc' = "poll" /\ rdQueue' = IF rdOpen THEN rdQueue + 1 ELSE rdQueue
        /\ UNCHANGED rdTold
     \/ /\ RdPolls /\ rdGone
        /\ rdPc' = "tell" /\ UNCHANGED <<rdQueue, rdTold>>

SteamLeaves == rdPc = "poll" /\ (rdStop \/ rdGone) /\ rdPc' = "tell"

(* reader_loop of the Deck and of the Steam Controller: whatever ends it   *)
(* is told.                                                                *)
SteamReader ==
  /\ RdKeep /\ UNCHANGED <<rdErrs, rdTold>>
  /\ \/ SteamLeaves /\ UNCHANGED rdQueue
     \/ /\ RdPolls /\ ~rdGone
        /\ rdPc' = "send" /\ UNCHANGED rdQueue
     \/ /\ rdPc = "send" /\ RdRoom /\ rdOpen
        /\ rdPc' = "poll" /\ rdQueue' = rdQueue + 1
     \/ /\ rdPc = "send" /\ ~rdOpen
        /\ rdPc' = "tell" /\ UNCHANGED rdQueue

(* The DualShock 3's: errors in a row count, and a read in between, with   *)
(* data or without, starts the count anew.                                 *)
Ds3Reader ==
  /\ rdDriver = "ds3" /\ RdKeep /\ UNCHANGED rdTold
  /\ \/ /\ rdPc = "poll" /\ rdStop
        /\ rdPc' = "tell" /\ UNCHANGED <<rdQueue, rdErrs>>
     \/ /\ RdPolls /\ ~rdGone
        /\ rdPc' = "send" /\ rdErrs' = 0 /\ UNCHANGED rdQueue
     \/ /\ RdPolls
        /\ rdErrs < RdErrorsMax - 1 /\ rdErrs' = rdErrs + 1
        /\ UNCHANGED <<rdPc, rdQueue>>
     \/ /\ RdPolls
        /\ rdErrs = RdErrorsMax - 1 /\ rdErrs' = RdErrorsMax
        /\ rdPc' = "tell" /\ UNCHANGED rdQueue
     \/ /\ rdPc = "send" /\ RdRoom /\ rdOpen
        /\ rdPc' = "poll" /\ rdQueue' = rdQueue + 1 /\ UNCHANGED rdErrs
     \/ /\ rdPc = "send" /\ ~rdOpen
        /\ rdPc' = "ended" /\ UNCHANGED <<rdQueue, rdErrs>>

(* Mutant: try_send, and a full channel loses it. *)
RdTellTries ==
  /\ rdPc = "tell" /\ rdPc' = "ended"
  /\ rdTold' = (rdOpen /\ RdRoom) /\ rdQueue' = IF rdOpen /\ RdRoom THEN rdQueue + 1 ELSE rdQueue
  /\ UNCHANGED <<rdErrs, rdDriver, rdOpen, rdStop, rdGone>>

(* The last event; nothing follows it. *)
RdTell ==
  /\ rdPc = "tell" /\ (RdRoom \/ ~rdOpen)
  /\ rdPc' = "ended"
  /\ rdTold' = rdOpen /\ rdQueue' = IF rdOpen THEN rdQueue + 1 ELSE rdQueue
  /\ UNCHANGED <<rdErrs, rdDriver, rdOpen, rdStop, rdGone>>

-----------------------------------------------------------------------------
(* The pipeline, the supervisor and the pad *)

RdDrain ==
  /\ rdOpen /\ rdQueue > 0 /\ rdQueue' = rdQueue - 1
  /\ UNCHANGED <<rdDriver, rdPc, rdTold, rdOpen, rdStop, rdGone, rdErrs>>

RdHangUp ==
  /\ rdOpen /\ rdPc \notin {"new", "failed"}
  /\ rdOpen' = FALSE /\ rdQueue' = 0
  /\ UNCHANGED <<rdDriver, rdPc, rdTold, rdStop, rdGone, rdErrs>>

RdStops(driver) ==
  /\ rdDriver = driver /\ rdPc # "new" /\ ~rdStop /\ rdStop' = TRUE
  /\ UNCHANGED <<rdDriver, rdPc, rdQueue, rdTold, rdOpen, rdGone, rdErrs>>

(* stop, which does not wait for the reader, or the handle is dropped      *)
(* without it.                                                             *)
JoyconStops    == RdStops("joycon")
DualSenseStops == RdStops("dualsense")
PsMoveStops    == RdStops("psmove")
Ds3Stops       == RdStops("ds3")

(* stop, which waits for the reader, which by then has no pipeline to wait *)
(* for; or the device is dropped without it, and its shutdown sender with  *)
(* it, which the reader takes for a request to end.                        *)
SteamControllerStops == RdStops("steam")

(* stop alone, which waits as well: a Deck's reader does not look at       *)
(* whether the sender is still there.                                      *)
DeckStops == RdStops("deck")

RdShutdown ==
  \/ JoyconStops \/ DualSenseStops \/ PsMoveStops
  \/ DeckStops \/ SteamControllerStops \/ Ds3Stops

RdLeave ==
  /\ ~rdGone /\ rdGone' = TRUE
  /\ UNCHANGED <<rdDriver, rdPc, rdQueue, rdTold, rdOpen, rdStop, rdErrs>>

JoyconReader          == rdDriver = "joycon" /\ SharedReader
DualSenseReader       == rdDriver = "dualsense" /\ SharedReader
PsMoveReader          == rdDriver = "psmove" /\ SharedReader
DeckReader            == rdDriver = "deck" /\ SteamReader
SteamControllerReader == rdDriver = "steam" /\ SteamReader

RdReader ==
  \/ JoyconReader \/ DualSenseReader \/ PsMoveReader
  \/ DeckReader \/ SteamControllerReader \/ Ds3Reader \/ RdTell

RdNext ==
  \/ RdStart \/ RdStartFails \/ RdReader
  \/ RdDrain \/ RdHangUp \/ RdShutdown \/ RdLeave

RdSpec == RdInit /\ [][RdNext]_rdVars

-----------------------------------------------------------------------------
(* Properties *)

(* A reader that ended by itself has told its pipeline, whose receiver was *)
(* not dropped meanwhile: no path out of a reader loses Disconnected, not  *)
(* with a full channel either (joycon hid.rs:84-88, deck device.rs:173-214,*)
(* ds3 device.rs:98-124).                                                  *)
RdGoneIsTold == rdPc = "ended" /\ ~rdStop => rdTold \/ ~rdOpen

=============================================================================
