------------------------------- MODULE Fusion -------------------------------
(***************************************************************************)
(* The orientation filter of a pipeline's sessions, crates/imu-fusion as   *)
(* core's pipeline.rs uses it: which filter a session makes, when VQF      *)
(* takes the device to be at rest, and the gyroscope bias that is seeded,  *)
(* estimated and stored.  What VQF does with a magnetometer is VqfField.   *)
(*                                                                         *)
(* Of the numbers only what the decisions tell apart is kept; time is      *)
(* counted in samples.                                                     *)
(***************************************************************************)
EXTENDS Integers

CONSTANT VqRestMin   \* rest_min_t

ASSUME FuAssumption == VqRestMin \in Nat \ {0}

VARIABLES
  fuOn,     \* a session runs
  fuAlgo,   \* its FusionAlgo
  fuHasMag, \* the device has a magnetometer
  fuStored, \* the bias in the store: none at all, zero, or one that was learned
  fuGyr,    \* how the device moves
  vqRestT,  \* rest_t
  vqRest,   \* rest_detected
  vqBias    \* bias: zero, learned, or at the clip

vqRestVars == <<vqRestT, vqRest, vqBias>>
fuVars == <<fuOn, fuAlgo, fuHasMag, fuStored, fuGyr, vqRestVars>>

FuAlgos == {"vqf", "basic", "madgwick"}
FuCapped(n) == IF n > VqRestMin THEN VqRestMin ELSE n

FuTypeOK ==
  /\ {fuOn, fuHasMag, vqRest} \subseteq BOOLEAN /\ fuAlgo \in FuAlgos
  /\ fuStored \in {"absent", "zero", "learned"} /\ vqBias \in {"zero", "learned", "clipped"}
  /\ fuGyr \in {"still", "moving"}
  /\ vqRestT \in 0 .. VqRestMin

FuInit ==
  /\ fuOn = FALSE /\ fuAlgo = "vqf" /\ fuHasMag = FALSE
  /\ fuStored = "absent" /\ fuGyr = "still"
  /\ vqRestT = 0 /\ vqRest = FALSE /\ vqBias = "zero"

-----------------------------------------------------------------------------
(* The session *)

(* Mutant: a filter that begins anew. *)
UnseededBias(algo) == "zero"

(* A bias that was stored is seeded, into the one filter that has any. *)
SeededBias(algo) == IF algo = "vqf" /\ fuStored = "learned" THEN "learned" ELSE "zero"

FuStart(algo, mag) ==
  /\ ~fuOn /\ fuOn' = TRUE /\ fuAlgo' = algo /\ fuHasMag' = mag
  /\ vqBias' = SeededBias(algo)
  /\ vqRestT' = 0 /\ vqRest' = FALSE
  /\ UNCHANGED <<fuStored, fuGyr>>

(* persist_bias: a bias near the clip is not stored; the filters without   *)
(* one store zero.                                                         *)
PersistedBias == IF vqBias = "clipped" THEN fuStored ELSE vqBias

(* Every ten seconds, and when the session ends. *)
FuPersist ==
  /\ fuOn /\ fuStored' = PersistedBias /\ fuOn' \in BOOLEAN
  /\ UNCHANGED <<fuAlgo, fuHasMag, fuGyr, vqRestVars>>

-----------------------------------------------------------------------------
(* A sample *)

(* update_gyr: a gyroscope off its low-pass, or above the clip, ends a     *)
(* rest.                                                                   *)
UpdateGyr ==
  [t |-> IF fuGyr = "still" THEN vqRestT ELSE 0, rest |-> vqRest /\ fuGyr = "still"]

(* update_acc after it: the accelerometer of the same sample counts. *)
UpdateAcc(still) ==
  /\ vqRestT' = IF still THEN FuCapped(UpdateGyr.t + 1) ELSE 0
  /\ vqRest' = (still /\ (UpdateGyr.rest \/ vqRestT' = VqRestMin))

(* update_bias_kalman: at rest the gyroscope itself tells the bias; while  *)
(* it moves the inclination does, if there is a magnetometer.              *)
UpdateBiasKalman ==
  vqBias' \in IF vqRest' \/ fuHasMag THEN {vqBias, "learned", "clipped"} ELSE {vqBias}

(* Without acceleration only the gyroscope is looked at. *)
VqfUpdate ==
  \/ \E still \in BOOLEAN : UpdateAcc(still) /\ UpdateBiasKalman
  \/ vqRestT' = UpdateGyr.t /\ vqRest' = UpdateGyr.rest /\ UNCHANGED vqBias

(* The basic filter and Madgwick's know neither rest nor bias. *)
FilterUpdate ==
  IF fuAlgo = "vqf" THEN VqfUpdate ELSE UNCHANGED <<vqRestT, vqRest, vqBias>>

FuSample ==
  /\ fuOn /\ FilterUpdate
  /\ UNCHANGED <<fuOn, fuAlgo, fuHasMag, fuStored, fuGyr>>

FuMove ==
  /\ fuOn /\ fuGyr' = IF fuGyr = "still" THEN "moving" ELSE "still"
  /\ UNCHANGED <<fuOn, fuAlgo, fuHasMag, fuStored, vqRestVars>>

FuNext ==
  \/ \E algo \in FuAlgos, mag \in BOOLEAN : FuStart(algo, mag)
  \/ FuPersist \/ FuSample \/ FuMove

FuSpec == FuInit /\ [][FuNext]_fuVars

-----------------------------------------------------------------------------
(* Properties *)

(* The bias a device was found to have is not lost: it is seeded into the  *)
(* next session, which stores it again or what it has learned since, and a *)
(* saturated estimate does not take its place (pipeline.rs:418-451,        *)
(* 955-976); only a session with a filter that has no bias stores zero     *)
(* over it.                                                                *)
BiasNotForgotten ==
  [][fuStored = "learned" => fuStored' = "learned" \/ fuAlgo # "vqf"]_fuVars
=============================================================================
