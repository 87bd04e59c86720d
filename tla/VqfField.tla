------------------------------ MODULE VqfField ------------------------------
(***************************************************************************)
(* What VQF makes of a magnetometer (imu-fusion/src/vqf.rs, update_mag):   *)
(* when the field is disturbed, when a new field becomes the reference,    *)
(* and when the heading follows the field.  The magnetometer is fed while  *)
(* it is enabled and calibrated.                                           *)
(*                                                                         *)
(* A field is the norm and dip that the low-pass yields; two are near when *)
(* neither threshold is exceeded.  Time is counted in samples.             *)
(***************************************************************************)
EXTENDS Integers

CONSTANTS
  VqCleanMin,  \* mag_min_undisturbed_time
  VqNewTime,   \* mag_new_time
  VqNewFirst,  \* mag_new_first_time
  VqMaxReject, \* mag_max_rejection_time
  VqFactor,    \* mag_rejection_factor
  VqInitial,   \* samples for which k_mag_init counts
  VqFields     \* fields there are

ASSUME VqAssumption ==
  /\ {VqCleanMin, VqNewTime, VqNewFirst, VqMaxReject, VqFactor} \subseteq Nat \ {0}
  /\ VqNewFirst <= VqNewTime /\ VqInitial \in Nat /\ VqFields \subseteq Nat \ {0}

VARIABLES
  vqFed,     \* the magnetometer is enabled and calibrated
  vqField,   \* the field the device is in
  vqTurning, \* it turns by at least mag_new_min_gyr
  vqRef,     \* mag_ref, 0 when there is none
  vqClean,   \* mag_undisturbed_t
  vqDist,    \* mag_dist_detected
  vqCand,    \* mag_candidate, 0 when there is none
  vqCandT,   \* mag_candidate_t
  vqReject,  \* mag_reject_t
  vqInit,    \* samples for which k_mag_init still counts
  vqHeading, \* the field that last moved delta, 0 when none did
  vqBad      \* history: samples since the field was last calm

vqEnv  == <<vqFed, vqField, vqTurning>>
vqMag  == <<vqRef, vqClean, vqDist, vqCand, vqCandT, vqReject, vqInit, vqHeading, vqBad>>
vqVars == <<vqEnv, vqMag>>

VqTypeOK ==
  /\ {vqFed, vqTurning, vqDist} \subseteq BOOLEAN /\ vqField \in VqFields
  /\ {vqRef, vqCand, vqHeading} \subseteq VqFields \cup {0}
  /\ vqClean \in 0 .. VqCleanMin /\ vqCandT \in 0 .. VqNewTime
  /\ vqReject \in -1 .. VqMaxReject + 1 /\ vqInit \in 0 .. VqInitial
  /\ vqBad \in 0 .. VqMaxReject + 2

VqInit ==
  /\ vqFed = FALSE /\ vqField \in VqFields /\ vqTurning = FALSE
  /\ vqRef = 0 /\ vqClean = 0 /\ vqDist = TRUE /\ vqCand = 0 /\ vqCandT = 0
  /\ vqReject = -1 /\ vqInit = VqInitial /\ vqHeading = 0 /\ vqBad = 0

VqCap(n, max) == IF n > max THEN max ELSE n
Near(a, b) == a # 0 /\ b # 0 /\ a - b \in {-1, 0, 1}

-----------------------------------------------------------------------------
(* update_mag *)

Calm == Near(vqField, vqRef)
CleanTime == IF Calm THEN VqCap(vqClean + 1, VqCleanMin) ELSE 0
Disturbed == ~Calm \/ (vqDist /\ CleanTime < VqCleanMin)

(* The candidate is followed; its time counts while the device turns. *)
CandidateTime ==
  IF ~Near(vqField, vqCand) THEN 0
  ELSE IF vqTurning THEN VqCap(vqCandT + 1, VqNewTime) ELSE vqCandT

(* The candidate has lasted, sooner where there is no reference, and the   *)
(* field is disturbed.                                                     *)
Lasts ==
  /\ Disturbed /\ Near(vqField, vqCand)
  /\ CandidateTime >= VqNewTime \/ (vqRef = 0 /\ CandidateTime >= VqNewFirst)

(* Reference and candidate move towards a field near them. *)
UpdateReference ==
  /\ vqCandT' = CandidateTime
  /\ vqCand' \in IF Near(vqField, vqCand) THEN {vqCand, vqField} ELSE {vqField}
  /\ vqDist' = (Disturbed /\ ~Lasts)
  /\ vqClean' = IF Lasts THEN VqCleanMin ELSE CleanTime
  /\ IF Lasts THEN vqRef' = vqCand'
     ELSE vqRef' \in IF Calm /\ CleanTime = VqCleanMin THEN {vqRef, vqField} ELSE {vqRef}

(* Times without a disturbance win the time back that rejecting took. *)
WonBack == IF vqReject > VqFactor THEN vqReject - VqFactor ELSE 0

(* Mutant: a disturbed field is rejected for ever. *)
CorrectHeadingNever ==
  /\ vqReject' = IF vqDist' THEN VqCap(vqReject + 1, VqMaxReject) ELSE WonBack
  /\ vqHeading' = IF vqDist' /\ vqInit = 0 THEN vqHeading ELSE vqField
  /\ vqInit' = IF vqInit > 0 THEN vqInit - 1 ELSE 0

(* A disturbed field is rejected for a time, and then followed at half the *)
(* gain.  The first samples move the heading, disturbed or not.            *)
CorrectHeading ==
  LET rejected == vqDist' /\ vqReject <= VqMaxReject
  IN  /\ vqReject' = IF rejected THEN vqReject + 1 ELSE IF vqDist' THEN vqReject ELSE WonBack
      /\ vqHeading' = IF rejected /\ vqInit = 0 THEN vqHeading ELSE vqField
      /\ vqInit' = IF vqInit > 0 THEN vqInit - 1 ELSE 0

UpdateMag ==
  /\ vqFed /\ UpdateReference /\ CorrectHeading
  /\ vqBad' = IF vqDist' THEN VqCap(vqBad + 1, VqMaxReject + 2)
              ELSE IF vqReject' = 0 THEN 0 ELSE vqBad
  /\ UNCHANGED vqEnv

-----------------------------------------------------------------------------

(* The setters of the magnetometer and of its calibration. *)
VqSetFed == vqFed' = ~vqFed /\ UNCHANGED <<vqField, vqTurning, vqMag>>

VqMove ==
  /\ \/ vqField' \in VqFields \ {vqField} /\ UNCHANGED vqTurning
     \/ vqTurning' = ~vqTurning /\ UNCHANGED vqField
  /\ UNCHANGED <<vqFed, vqMag>>

VqNext == UpdateMag \/ VqSetFed \/ VqMove

(* The device delivers. *)
VqFairness == WF_vqVars(UpdateMag)

VqSpec == VqInit /\ [][VqNext]_vqVars /\ VqFairness

-----------------------------------------------------------------------------
(* Properties *)

VqIn(f) == vqFed /\ vqField = f

(* The heading is never locked out: fed with one field for long enough, it *)
(* follows that field, moving or not, whatever reference, candidate and    *)
(* rejections earlier fields have left (vqf.rs:736-753).                   *)
HeadingFollows == \A f \in VqFields : VqIn(f) ~> (vqHeading = f \/ ~VqIn(f))

=============================================================================
