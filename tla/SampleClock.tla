---------------------------- MODULE SampleClock ----------------------------
(***************************************************************************)
(* The time step with which a pipeline integrates the samples it is given  *)
(* (core/src/pipeline.rs): taken from the device's own clock where the     *)
(* samples carry its time, and otherwise from a count of the samples that  *)
(* arrive in a window of the host's time, smoothed and clamped.            *)
(*                                                                         *)
(* Time is in units of a thousandth of a tick; the shares are fractions of *)
(* integers, and what is smoothed is kept in sixteenths.                   *)
(***************************************************************************)
EXTENDS Integers

CONSTANTS
  CkRates,     \* samples per tick a device may deliver
  CkWarmup,    \* WARMUP_SECS, in ticks (1.5 s)
  CkWindow,    \* WINDOW_SECS, in ticks (4 s)
  CkMinTs,     \* MIN_TS and
  CkMaxTs,     \* MAX_TS, the band of plausible steps
  CkMaxSilence,\* bound: ticks a device is silent
  CkMaxFaults  \* bound: silences, shifts of the rate, reports lost

ASSUME CkAssumption ==
  /\ CkRates \subseteq Nat \ {0} /\ CkWarmup \in Nat /\ CkWindow \in Nat \ {0}
  /\ CkMinTs \in Nat \ {0} /\ CkMaxTs \in Nat \ {0} /\ CkMinTs < CkMaxTs
  /\ CkMaxSilence \in Nat /\ CkMaxFaults \in Nat
  /\ \A rate \in CkRates : rate <= 1000  \* a step is a thousandth of a tick at least
  /\ CkWindow + CkMaxSilence < 16         \* and a sixteenth of a sample per tick is told from none

VARIABLES
  ckOn,     \* the device delivers
  ckHw,     \* the samples carry the device's time
  ckRate,   \* samples per tick the device delivers
  ckWarm,   \* ticks since rate_cal_first_batch, no longer counted after the warm-up; -1 before it
  ckWin,    \* ticks since rate_cal_window_start; -1 before it
  ckCount,  \* rate_cal_window_samples
  ckEma,    \* rate_cal_ema_hz or hw_dt_ema, in sixteenths; 0 when there is none
  ckTs,     \* gyr_ts_current
  ckSeen,   \* last_hw_ts_us is there
  ckFaults

ckVars == <<ckOn, ckHw, ckRate, ckWarm, ckWin, ckCount, ckEma, ckTs, ckSeen, ckFaults>>

CkSpan == CkWindow + CkMaxSilence + 2

CkPeriod(rate) == 1000 \div rate

(* A step that was measured is plausible; one that was claimed need not be. *)
CkTypeOK ==
  /\ {ckOn, ckHw} \subseteq BOOLEAN /\ ckRate \in CkRates /\ ckSeen \in BOOLEAN
  /\ ckWarm \in -1 .. CkWarmup /\ ckWin \in -1 .. CkSpan
  /\ ckCount \in Nat /\ ckEma \in Nat
  /\ ckTs \in Nat \ {0}
  /\ ckHw \/ ckTs \in CkMinTs .. CkMaxTs \cup {CkPeriod(rate) : rate \in CkRates}
  /\ ckFaults \in 0 .. CkMaxFaults

(* The step of the rate the device claims, which need not be the one at    *)
(* which its reports get through.                                          *)
CkInit ==
  /\ ckOn = FALSE /\ ckHw \in BOOLEAN /\ ckRate \in CkRates
  /\ ckWarm = -1 /\ ckWin = -1 /\ ckCount = 0 /\ ckEma = 0
  /\ ckTs \in {CkPeriod(rate) : rate \in CkRates}
  /\ ckSeen = FALSE /\ ckFaults = 0

CkAbs(a) == IF a < 0 THEN -a ELSE a

(* corrected_timestep: a step is applied when it is off by a twentieth. *)
CorrectedTimestep(measured, current) ==
  IF 20 * CkAbs(measured - current) > current THEN measured ELSE current

CkClamp(ts) == IF ts < CkMinTs THEN CkMinTs ELSE IF ts > CkMaxTs THEN CkMaxTs ELSE ts

-----------------------------------------------------------------------------
(* calibrate_rate: a batch of n samples, gap ticks after the one before. *)

SmoothRate(rate) == IF ckEma = 0 THEN rate ELSE (rate + 3 * ckEma) \div 4

CkWarms(gap) ==
  /\ ckWarm # CkWarmup
  /\ ckWarm' = IF ckWarm = -1 THEN 0 ELSE IF ckWarm + gap < CkWarmup THEN ckWarm + gap ELSE CkWarmup

NextWindowCountsBatch(n) == ckWin' = 0 /\ ckCount' = n

NextWindow(n) == ckWin' = 0 /\ ckCount' = 0

(* The batch that ends the warm-up opens the first window, and is counted  *)
(* in it; every other window opens with the batch that closed the one      *)
(* before.                                                                 *)
CalibrateRate(n, gap) ==
  \/ /\ CkWarms(gap) /\ ckWarm' # CkWarmup
     /\ UNCHANGED <<ckWin, ckCount, ckEma, ckTs>>
  \/ /\ CkWarms(gap) /\ ckWarm' = CkWarmup
     /\ ckWin' = 0 /\ ckCount' = n /\ UNCHANGED <<ckEma, ckTs>>
  \/ /\ ckWarm = CkWarmup /\ UNCHANGED ckWarm
     /\ IF ckWin + gap < CkWindow
          THEN ckWin' = ckWin + gap /\ ckCount' = ckCount + n /\ UNCHANGED <<ckEma, ckTs>>
          ELSE LET ema == SmoothRate((16 * (ckCount + n)) \div (ckWin + gap))
               IN  /\ NextWindow(n) /\ ckEma' = ema
                   /\ ckTs' = CorrectedTimestep(CkClamp(16000 \div ema), ckTs)

(* The device's clock: what lies between two samples is smoothed, unless   *)
(* it is a tenth of a second or more, as it is when the counter wraps      *)
(* around or the device was silent.                                        *)
HardwareStep(dt, plausible) ==
  /\ ckSeen' = TRUE /\ UNCHANGED <<ckWarm, ckWin, ckCount>>
  /\ ckEma' = IF ~ckSeen \/ ~plausible THEN ckEma
              ELSE IF ckEma = 0 THEN 16 * dt ELSE (16 * dt + 9 * ckEma) \div 10
  /\ ckTs' = IF ckEma' = 0 THEN ckTs ELSE CorrectedTimestep(ckEma' \div 16, ckTs)

-----------------------------------------------------------------------------

CkConnect ==
  /\ ~ckOn /\ ckOn' = TRUE
  /\ UNCHANGED <<ckHw, ckRate, ckWarm, ckWin, ckCount, ckEma, ckTs, ckSeen, ckFaults>>

(* A device that works: its samples arrive in every tick, or all of two    *)
(* ticks at once.                                                          *)
CkBatch == \E gap \in {1, 2} :
  /\ ckOn
  /\ IF ckHw THEN gap = 1 /\ HardwareStep(CkPeriod(ckRate), TRUE)
             ELSE CalibrateRate(gap * ckRate, gap) /\ UNCHANGED ckSeen
  /\ UNCHANGED <<ckOn, ckHw, ckRate, ckFaults>>

CkFault == ckOn /\ ckFaults < CkMaxFaults /\ ckFaults' = ckFaults + 1

(* A silence, after which there is no more than a tick's samples.  The     *)
(* counter wraps around every 24 minutes, which is told by no other sign   *)
(* than the gap it seems to leave.                                         *)
CkSilence == \E gap \in 2 .. CkMaxSilence :
  /\ CkFault
  /\ IF ckHw THEN HardwareStep(gap, FALSE)
             ELSE CalibrateRate(ckRate, gap) /\ UNCHANGED ckSeen
  /\ UNCHANGED <<ckOn, ckHw, ckRate>>

(* A report is lost, and the next sample stands for two. *)
CkLosesReport ==
  /\ ckHw /\ CkFault /\ HardwareStep(2 * CkPeriod(ckRate), TRUE)
  /\ UNCHANGED <<ckOn, ckHw, ckRate>>

(* The stack renegotiates the interval of the link. *)
CkShift ==
  /\ CkFault /\ ckRate' \in CkRates \ {ckRate}
  /\ UNCHANGED <<ckOn, ckHw, ckWarm, ckWin, ckCount, ckEma, ckTs, ckSeen>>

CkNext == CkConnect \/ CkBatch \/ CkSilence \/ CkLosesReport \/ CkShift

CkFairness == WF_ckVars(CkBatch)

CkSpec == CkInit /\ [][CkNext]_ckVars /\ CkFairness

-----------------------------------------------------------------------------
(* Properties *)

CkNear == 10 * CkAbs(ckTs - CkPeriod(ckRate)) <= CkPeriod(ckRate)

(* The filter's clock keeps pace with the wall clock: whatever a device    *)
(* claimed, however its samples clump, and after silences, lost reports    *)
(* and shifts of its rate, the step settles within a tenth of the time     *)
(* between two samples, as soon as nothing more disturbs the device        *)
(* (pipeline.rs:839-880; the bursts at a window's edges are counted once). *)
ClockSettles == ckOn ~> []CkNear
=============================================================================
