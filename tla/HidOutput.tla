------------------------------ MODULE HidOutput ------------------------------
(***************************************************************************)
(* What the PS Move and the DualSense are told to show: the level (light   *)
(* or rumble) that set_led_mask and set_rumble keep and write, the output  *)
(* thread of the PS Move that writes it again every three seconds, and the *)
(* stop of a device.  The commands come one at a time from the control     *)
(* task; the thread copies the level under its lock and writes after it    *)
(* gave the lock back.  hoDriver says which pad a behaviour is about.      *)
(***************************************************************************)
EXTENDS Integers

CONSTANTS
  HoLevels,   \* levels a pad can show; 0 is dark and still
  HoMaxFaults \* bound: writes that fail

ASSUME HoAssumption == 0 \in HoLevels /\ HoMaxFaults \in Nat

VARIABLES
  hoDriver,
  hoPc,     \* the control task: not started, idle, with a level to write, or at a step of stop
  hoWant,   \* output_state
  hoThread, \* the output thread
  hoBeat,   \* the level it copied
  hoFlag,   \* output_shutdown
  hoPad,    \* what the pad shows
  hoSeen,   \* DualSense: last_report_len is known
  hoLost,   \* the last command was put off or its write failed, and nobody tries again
  hoFaults

hoVars == <<hoDriver, hoPc, hoWant, hoThread, hoBeat, hoFlag, hoPad, hoSeen, hoLost, hoFaults>>

HoTypeOK ==
  /\ hoDriver \in {"psmove", "dualsense"}
  /\ hoPc \in {"new", "idle", "write", "joining", "closed"}
  /\ hoThread \in {"none", "top", "write", "asleep", "done"}
  /\ {hoWant, hoBeat, hoPad} \subseteq HoLevels
  /\ {hoFlag, hoSeen, hoLost} \subseteq BOOLEAN
  /\ hoFaults \in 0 .. HoMaxFaults

HoInit ==
  /\ hoDriver \in {"psmove", "dualsense"}
  /\ hoPc = "new" /\ hoThread = "none" /\ hoWant = 0 /\ hoBeat = 0 /\ hoPad = 0
  /\ hoFlag = FALSE /\ hoSeen = FALSE /\ hoLost = FALSE /\ hoFaults = 0

PsMoveStart ==
  /\ hoDriver = "psmove" /\ hoPc = "new" /\ hoPc' = "idle" /\ hoThread' = "top"
  /\ UNCHANGED <<hoDriver, hoWant, hoBeat, hoFlag, hoPad, hoSeen, hoLost, hoFaults>>

DualSenseStart ==
  /\ hoDriver = "dualsense" /\ hoPc = "new" /\ hoPc' = "idle"
  /\ UNCHANGED <<hoDriver, hoWant, hoThread, hoBeat, hoFlag, hoPad, hoSeen, hoLost, hoFaults>>

(* The level is stored first, and the lock given back. *)
HoSet(level) ==
  /\ hoPc = "idle" /\ hoPc' = "write" /\ hoWant' = level
  /\ UNCHANGED <<hoDriver, hoThread, hoBeat, hoFlag, hoPad, hoSeen, hoLost, hoFaults>>

(* write_output_now; the pad keeps what it shows when the write fails. *)
PsMoveWrite ==
  /\ hoDriver = "psmove" /\ hoPc = "write" /\ hoPc' = "idle"
  /\ \/ hoPad' = hoWant /\ UNCHANGED hoFaults
     \/ hoFaults < HoMaxFaults /\ hoFaults' = hoFaults + 1 /\ UNCHANGED hoPad
  /\ UNCHANGED <<hoDriver, hoWant, hoThread, hoBeat, hoFlag, hoSeen, hoLost>>

(* Before the first report the transport, and with it the shape of the     *)
(* output report, is unknown: nothing is written.                          *)
DualSenseWrite ==
  /\ hoDriver = "dualsense" /\ hoPc = "write" /\ hoPc' = "idle"
  /\ \/ hoSeen /\ hoPad' = hoWant /\ hoLost' = FALSE /\ UNCHANGED hoFaults
     \/ ~hoSeen /\ hoLost' = TRUE /\ UNCHANGED <<hoPad, hoFaults>>
     \/ /\ hoSeen /\ hoFaults < HoMaxFaults /\ hoFaults' = hoFaults + 1
        /\ hoLost' = TRUE /\ UNCHANGED hoPad
  /\ UNCHANGED <<hoDriver, hoWant, hoThread, hoBeat, hoFlag, hoSeen>>

DualSenseReport ==
  /\ hoDriver = "dualsense" /\ hoPc # "new" /\ ~hoSeen /\ hoSeen' = TRUE
  /\ UNCHANGED <<hoDriver, hoPc, hoWant, hoThread, hoBeat, hoFlag, hoPad, hoLost, hoFaults>>

-----------------------------------------------------------------------------
(* The output thread: a dark and still pad is not written to. *)

BeatCopy ==
  /\ hoThread = "top"
  /\ IF hoFlag THEN hoThread' = "done" /\ UNCHANGED hoBeat
               ELSE hoBeat' = hoWant /\ hoThread' = IF hoWant = 0 THEN "asleep" ELSE "write"
  /\ UNCHANGED <<hoDriver, hoPc, hoWant, hoFlag, hoPad, hoSeen, hoLost, hoFaults>>

BeatWrite ==
  /\ hoThread = "write" /\ hoThread' = "asleep"
  /\ \/ hoPad' = hoBeat /\ UNCHANGED hoFaults
     \/ hoFaults < HoMaxFaults /\ hoFaults' = hoFaults + 1 /\ UNCHANGED hoPad
  /\ UNCHANGED <<hoDriver, hoPc, hoWant, hoBeat, hoFlag, hoSeen, hoLost>>

BeatWake ==
  /\ hoThread = "asleep" /\ hoThread' = "top"
  /\ UNCHANGED <<hoDriver, hoPc, hoWant, hoBeat, hoFlag, hoPad, hoSeen, hoLost, hoFaults>>

OutputThread == BeatCopy \/ BeatWrite \/ BeatWake

-----------------------------------------------------------------------------
(* stop *)

PsMoveStop ==
  /\ hoDriver = "psmove" /\ hoPc = "idle" /\ hoPc' = "joining" /\ hoFlag' = TRUE
  /\ UNCHANGED <<hoDriver, hoWant, hoThread, hoBeat, hoPad, hoSeen, hoLost, hoFaults>>

(* Mutant: the thread is told to end, and not joined. *)
PsMoveExtinguishAtOnce ==
  /\ hoPc = "joining" /\ hoPc' = "closed" /\ hoPad' = 0
  /\ UNCHANGED <<hoDriver, hoWant, hoThread, hoBeat, hoFlag, hoSeen, hoLost, hoFaults>>

(* Only when the thread has been joined is the pad told to be dark. *)
PsMoveExtinguish ==
  /\ hoPc = "joining" /\ hoThread = "done" /\ hoPc' = "closed"
  /\ \/ hoPad' = 0 /\ UNCHANGED <<hoLost, hoFaults>>
     \/ /\ hoFaults < HoMaxFaults /\ hoFaults' = hoFaults + 1
        /\ hoLost' = TRUE /\ UNCHANGED hoPad
  /\ UNCHANGED <<hoDriver, hoWant, hoThread, hoBeat, hoFlag, hoSeen>>

(* Nothing is written: what the pad shows is left to it. *)
DualSenseStop ==
  /\ hoDriver = "dualsense" /\ hoPc = "idle" /\ hoPc' = "closed"
  /\ UNCHANGED <<hoDriver, hoWant, hoThread, hoBeat, hoFlag, hoPad, hoSeen, hoLost, hoFaults>>

(* Five seconds without a write, which a level that is wanted never lets   *)
(* pass as long as the thread runs, and a PS Move turns itself off.        *)
AutoOff ==
  /\ hoDriver = "psmove" /\ hoPad # 0 /\ (hoWant = 0 \/ hoThread = "done") /\ hoPad' = 0
  /\ UNCHANGED <<hoDriver, hoPc, hoWant, hoThread, hoBeat, hoFlag, hoSeen, hoLost, hoFaults>>

HoCommand == PsMoveWrite \/ DualSenseWrite \/ PsMoveExtinguish

HoNext ==
  \/ PsMoveStart \/ DualSenseStart \/ (\E level \in HoLevels : HoSet(level))
  \/ HoCommand \/ DualSenseReport \/ OutputThread
  \/ PsMoveStop \/ DualSenseStop \/ AutoOff

HoSpec == HoInit /\ [][HoNext]_hoVars

-----------------------------------------------------------------------------
(* Properties *)

(* A PS Move that was stopped is dark, and no write of the output thread,  *)
(* which may hold a level it copied before, lights it again                *)
(* (psmove device.rs:157-175); unless that one write failed.               *)
PsMoveStopDark == hoDriver = "psmove" /\ hoPc = "closed" => hoPad = 0 \/ hoLost

=============================================================================
