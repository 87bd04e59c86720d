---------------------------- MODULE MCHapticBridge ----------------------------
(* TLC instance of HapticBridge alone. *)
EXTENDS HapticBridge

(* One device with a proximity rule and a pulse rule. *)
MixedRules == << [address |-> "touch", mac |-> "left", mode |-> "proximity"],
                 [address |-> "hit", mac |-> "left", mode |-> "pulse"] >>
=============================================================================
