--------------------------- MODULE MagCalibration ---------------------------
(***************************************************************************)
(* A magnetometer calibration session of one device: the panel in the UI   *)
(* (MagCalibrationPanel.tsx), the commands it calls (app_state.rs,         *)
(* commands.rs), and the pipeline that collects and fits (pipeline.rs).    *)
(*                                                                         *)
(* Panel and pipeline talk over three tokio watch channels, each a single  *)
(* slot that keeps the last value sent: a command that was not looked at   *)
(* is overwritten by the next one, and a receiver waits for a version it   *)
(* has not seen.  Samples are counted, and known by the session they       *)
(* belong to; a calibration is known by the sessions of its samples, {}    *)
(* being none.  Whether the sphere fit of enough samples succeeds is open. *)
(***************************************************************************)
EXTENDS Integers

CONSTANTS
  Cap,          \* MAG_CAL_BUFFER_CAP
  Enough,       \* MIN_FIT_SAMPLES
  MaxSessions,  \* bound: sessions the user starts
  MaxFaults     \* bound: writes to the database that fail

ASSUME CalAssumption == Enough \in Nat \ {0} /\ Cap \in Nat /\ Enough <= Cap
ASSUME CalBounds == MaxSessions \in Nat /\ MaxFaults \in Nat

VARIABLES
  cmd,        \* mag_cal_cmd, the last command sent
  cmdUnseen,  \* the pipeline has not looked at it
  active,     \* Pipeline.mag_cal_active
  buffer,     \* Pipeline.mag_cal_buffer: how many samples, of which sessions
  session,    \* history: the session the pipeline was last told to start
  progress,   \* mag_cal_progress: the number of samples, 0 when inactive
  result,     \* mag_cal_result, the last value
  version,    \* mag_cal_result: results sent
  alive,      \* the pipeline runs
  live,       \* PipelineConfig.mag_calibration
  stored,     \* the setting mag_cal:<mac>
  phase,      \* where the panel is
  shown,      \* the progress it polled last
  answer,     \* the calibration finish_mag_calibration returned, while it is saved
  started,    \* sessions started
  faults

cmdVars  == <<cmd, cmdUnseen>>
pipeVars == <<active, buffer, session, progress, result, version>>
uiVars   == <<phase, shown, answer, started>>
magVars == <<cmdVars, pipeVars, alive, live, stored, uiVars, faults>>

Sessions == 0 .. MaxSessions   \* 0 is a session of an earlier run of the program
MagNone     == {}
Commands == [kind : {"idle", "start", "finish", "cancel"}, session : Sessions]
Empty    == [n |-> 0, from |-> {}]

MagTypeOK ==
  /\ cmd \in Commands /\ cmdUnseen \in BOOLEAN
  /\ active \in BOOLEAN
  /\ buffer \in [n : 0 .. Cap, from : SUBSET Sessions]
  /\ session \in Sessions
  /\ progress \in 0 .. Cap
  /\ result \in SUBSET Sessions
  /\ version \in Nat
  /\ alive \in BOOLEAN
  /\ live \in SUBSET Sessions /\ stored \in SUBSET Sessions
  /\ phase \in {"idle", "running", "waiting", "storing", "enabling", "applying", "clearing"}
  /\ shown \in 0 .. Cap
  /\ answer \in SUBSET Sessions
  /\ started \in Sessions
  /\ faults \in 0 .. MaxFaults

(* The device was registered with the calibration that was stored. *)
MagInit ==
  /\ cmd = [kind |-> "idle", session |-> 0] /\ cmdUnseen = FALSE
  /\ active = FALSE /\ buffer = Empty /\ session = 0
  /\ progress = 0
  /\ result = MagNone /\ version = 0
  /\ alive = TRUE
  /\ stored \in {MagNone, {0}} /\ live = stored
  /\ phase = "idle" /\ shown = 0 /\ answer = MagNone
  /\ started = 0 /\ faults = 0

-----------------------------------------------------------------------------
(* The pipeline *)

(* Mutated form: the cap is tested after the push. *)
CollectOneMore ==
  /\ alive
  /\ buffer' = IF active /\ buffer.n <= Cap
               THEN [n |-> buffer.n + 1, from |-> buffer.from \cup {session}]
               ELSE buffer
  /\ progress' = IF active THEN buffer'.n ELSE progress
  /\ UNCHANGED <<cmdVars, active, session, result, version, alive, live, stored, uiVars, faults>>

(* publish_mag_cal_progress, after each batch. *)
PublishProgress == progress' = IF active THEN buffer'.n ELSE progress

(* A batch with a magnetometer sample. *)
Collect ==
  /\ alive
  /\ buffer' = IF active /\ buffer.n < Cap
               THEN [n |-> buffer.n + 1, from |-> buffer.from \cup {session}]
               ELSE buffer
  /\ PublishProgress
  /\ UNCHANGED <<cmdVars, active, session, result, version, alive, live, stored, uiVars, faults>>

(* Mutated form: a session that runs is not started again. *)
HandleStartOnce ==
  /\ cmd.kind = "start"
  /\ active' = TRUE
  /\ buffer' = IF active THEN buffer ELSE Empty
  /\ progress' = 0
  /\ session' = cmd.session
  /\ UNCHANGED <<result, version>>

HandleStart ==
  /\ cmd.kind = "start"
  /\ active' = TRUE /\ buffer' = Empty /\ progress' = 0
  /\ session' = cmd.session
  /\ UNCHANGED <<result, version>>

HandleCancel ==
  /\ cmd.kind = "cancel"
  /\ active' = FALSE /\ buffer' = Empty /\ progress' = 0
  /\ UNCHANGED <<session, result, version>>

(* mag_cal::calibrate fails for want of samples, or of their spread. *)
Calibrate(b) ==
  {MagNone} \cup (IF b.n >= Enough THEN {b.from} ELSE {})

HandleFinish ==
  /\ cmd.kind = "finish"
  /\ active' = FALSE /\ buffer' = Empty /\ progress' = 0
  /\ result' \in Calibrate(buffer)
  /\ version' = version + 1
  /\ UNCHANGED session

(* handle_mag_cal_cmd: the select! wakes up for a command not yet seen. *)
HandleMagCalCmd ==
  /\ alive /\ cmdUnseen
  /\ cmdUnseen' = FALSE
  /\ HandleStart \/ HandleCancel \/ HandleFinish
  /\ UNCHANGED <<cmd, alive, live, stored, uiVars, faults>>

(* The device disconnects; the receivers are dropped with the pipeline. *)
PipelineEnds ==
  /\ alive /\ alive' = FALSE
  /\ UNCHANGED <<cmdVars, pipeVars, live, stored, uiVars, faults>>

-----------------------------------------------------------------------------
(* The panel and the commands *)

SendCmd(kind) ==
  /\ alive
  /\ cmd' = [kind |-> kind, session |-> started'] /\ cmdUnseen' = TRUE

(* start; if the device is gone the panel stays as it is. *)
Start ==
  /\ phase = "idle" /\ started < MaxSessions
  /\ started' = started + 1
  /\ phase' = "running" /\ shown' = 0
  /\ SendCmd("start")
  /\ UNCHANGED <<pipeVars, alive, live, stored, answer, faults>>

(* cancel; the panel is idle again whether or not the device is there. *)
Cancel ==
  /\ phase = "running"
  /\ phase' = "idle"
  /\ UNCHANGED <<shown, started>>
  /\ IF alive THEN SendCmd("cancel") ELSE UNCHANGED cmdVars
  /\ UNCHANGED <<pipeVars, alive, live, stored, answer, faults>>

(* mag_cal_progress: nothing of a device that is gone. *)
MagCalProgress == IF alive THEN progress ELSE 0

(* The panel polls every 150 ms.  If Start was not handled yet, it gets    *)
(* the progress of the session before.                                     *)
Poll ==
  /\ phase = "running"
  /\ shown' = MagCalProgress
  /\ UNCHANGED <<cmdVars, pipeVars, alive, live, stored, phase, answer, started, faults>>

(* finish is enabled by the coverage last polled. *)
Finish ==
  /\ phase = "running" /\ shown >= Enough
  /\ UNCHANGED <<shown, started>>
  /\ IF alive THEN SendCmd("finish") /\ phase' = "waiting"
     ELSE UNCHANGED cmdVars /\ phase' = "idle"
  /\ UNCHANGED <<pipeVars, alive, live, stored, answer, faults>>

(* The panel is closed and opened again: it forgets the session, the       *)
(* pipeline does not.                                                      *)
Reopen ==
  /\ phase = "running"
  /\ phase' = "idle"
  /\ UNCHANGED <<cmdVars, pipeVars, alive, live, stored, shown, answer, started, faults>>

(* The version a clone of the registry's mag_cal_result_rx has seen: that  *)
(* receiver itself never looks.                                            *)
SeenByClone == 0

(* changed() returns: there is a version the clone has not seen. *)
TakeResult ==
  /\ phase = "waiting" /\ version > SeenByClone
  /\ answer' = result
  /\ phase' = IF result = MagNone THEN "idle" ELSE "storing"
  /\ UNCHANGED <<cmdVars, pipeVars, alive, live, stored, shown, started, faults>>

(* Two seconds pass, or the sender is gone, and nothing was ever sent. *)
GiveUp ==
  /\ phase = "waiting" /\ version = SeenByClone
  /\ phase' = "idle"
  /\ UNCHANGED <<cmdVars, pipeVars, alive, live, stored, shown, answer, started, faults>>

Fault == faults < MaxFaults /\ faults' = faults + 1

(* finish_mag_calibration stores the calibration, ... *)
Store ==
  /\ phase = "storing"
  /\ \/ stored' = answer /\ phase' = "enabling" /\ UNCHANGED faults
     \/ Fault /\ phase' = "idle" /\ UNCHANGED stored
  /\ UNCHANGED <<cmdVars, pipeVars, alive, live, shown, answer, started>>

(* ... then that the magnetometer is wanted, ... *)
StoreEnabled ==
  /\ phase = "enabling"
  /\ \/ phase' = "applying" /\ UNCHANGED faults
     \/ Fault /\ phase' = "idle"
  /\ UNCHANGED <<cmdVars, pipeVars, alive, live, stored, shown, answer, started>>

(* ... and applies it, if the device is still there. *)
ApplyLive ==
  /\ phase = "applying"
  /\ live' = IF alive THEN answer ELSE live
  /\ answer' = MagNone
  /\ phase' = "idle"
  /\ UNCHANGED <<cmdVars, pipeVars, alive, stored, shown, started, faults>>

(* clear_mag_calibration, in two steps. *)
Clear ==
  /\ phase = "idle" /\ stored # MagNone
  /\ \/ stored' = MagNone /\ phase' = "clearing" /\ UNCHANGED faults
     \/ Fault /\ UNCHANGED <<stored, phase>>
  /\ UNCHANGED <<cmdVars, pipeVars, alive, live, shown, answer, started>>

ApplyClear ==
  /\ phase = "clearing"
  /\ live' = IF alive THEN MagNone ELSE live
  /\ phase' = "idle"
  /\ UNCHANGED <<cmdVars, pipeVars, alive, stored, shown, answer, started, faults>>

Pipeline == Collect \/ HandleMagCalCmd \/ PipelineEnds
User     == Start \/ Poll \/ Cancel \/ Finish \/ Reopen \/ Clear
Command  == TakeResult \/ GiveUp \/ Store \/ StoreEnabled \/ ApplyLive \/ ApplyClear

MagNext == Pipeline \/ User \/ Command

MagSpec == MagInit /\ [][MagNext]_magVars

(* tokio runs the pipeline and the commands; the user may stop any time.   *)
MagFairSpec == MagSpec /\ WF_magVars(HandleMagCalCmd) /\ WF_magVars(Command)

-----------------------------------------------------------------------------
(* Properties *)

OfOneSession == {MagNone} \cup {{k} : k \in Sessions}

(* Every calibration comes from the samples of one session: though a       *)
(* command may be overwritten unseen and a session started while another   *)
(* runs, nothing of an earlier session is left in the buffer               *)
(* (pipeline.rs:983-993, 1000-1020).                                       *)
OneSessionOnly ==
  /\ buffer.from = (IF buffer.n = 0 THEN {} ELSE {session})
  /\ {result, answer, stored, live} \subseteq OfOneSession

(* What app_state.rs:297-298 says: finish signals the pipeline to fit a    *)
(* sphere and awaits the result.  From the second time on there is nothing *)
(* to await: the answer is there before the pipeline has even seen the     *)
(* command.                                                                *)
AwaitsTheResult == [][phase = "waiting" /\ phase' = "storing" => ~cmdUnseen]_magVars
=============================================================================
