---------------------------- MODULE SpiCalibration ----------------------------
(***************************************************************************)
(* The calibration of a Joy-Con, crates/device-joycon/src/jc1.rs.  A start *)
(* asks for three places of the controller's flash, the factory's block,   *)
(* the magic of a user's block and that block; the reader takes the        *)
(* replies as they come, in any order or not at all, and settles on one of *)
(* the two calibrations.                                                   *)
(***************************************************************************)
EXTENDS Sequences, SequencesExt

Places == {"factory", "magic", "block"}

VARIABLES
  spFlash,     \* of each block, whether it comes whole; and whether the magic is there
  spAwaited,   \* requests without a reply so far
  spHeard,     \* history: the replies handled, in order
  spMagicSeen, \* user_override_magic_seen
  spPending,   \* pending_user_override holds the user's block
  spCal        \* the calibration applied to the samples

spVars == <<spFlash, spAwaited, spHeard, spMagicSeen, spPending, spCal>>

SpTypeOK ==
  /\ spFlash \in [Places -> BOOLEAN]
  /\ spAwaited \subseteq Places
  /\ ToSet(spHeard) \subseteq Places \ spAwaited
  /\ spMagicSeen \in BOOLEAN /\ spPending \in BOOLEAN
  /\ spCal \in {"nominal", "factory", "user"}

SpInit ==
  /\ spFlash \in [Places -> BOOLEAN]
  /\ spAwaited = Places /\ spHeard = << >>
  /\ spMagicSeen = FALSE /\ spPending = FALSE /\ spCal = "nominal"

-----------------------------------------------------------------------------
(* A block that came short is not parsed, and changes nothing. *)
StoreBlock(place, cal) == IF spFlash[place] THEN cal ELSE spCal

(* No calibration is pending once the magic was seen.                      *)
Factory ==
  /\ spCal' = IF ~spPending \/ ~spMagicSeen THEN StoreBlock("factory", "factory") ELSE spCal
  /\ UNCHANGED <<spMagicSeen, spPending>>

Magic ==
  /\ spMagicSeen' = spFlash["magic"]
  /\ spCal' = IF spMagicSeen' /\ spPending THEN StoreBlock("block", "user") ELSE spCal
  /\ spPending' = (spPending /\ ~spMagicSeen')

(* A block that comes before its magic is forgotten. *)
BlockNotKept ==
  /\ spCal' = IF spMagicSeen THEN StoreBlock("block", "user") ELSE spCal
  /\ UNCHANGED <<spMagicSeen, spPending>>

Block ==
  /\ spCal' = IF spMagicSeen THEN StoreBlock("block", "user") ELSE spCal
  /\ spPending' = (spPending \/ ~spMagicSeen)
  /\ UNCHANGED spMagicSeen

HandleSpiReply(place) ==
  /\ place \in spAwaited
  /\ spAwaited' = spAwaited \ {place}
  /\ spHeard' = Append(spHeard, place)
  /\ CASE place = "factory" -> Factory [] place = "magic" -> Magic [] place = "block" -> Block
  /\ UNCHANGED spFlash

SpLost(place) ==
  /\ place \in spAwaited
  /\ spAwaited' = spAwaited \ {place}
  /\ UNCHANGED <<spFlash, spHeard, spMagicSeen, spPending, spCal>>

SpNext == \E place \in Places : HandleSpiReply(place) \/ SpLost(place)

SpSpec == SpInit /\ [][SpNext]_spVars

-----------------------------------------------------------------------------
Heard(places) == places \subseteq ToSet(spHeard)

(* Both parts of a user's calibration are there, in either order.          *)
UserCal == Heard({"magic", "block"}) /\ spFlash["magic"] /\ spFlash["block"]

(* A user's calibration is applied when its magic and its block have come, *)
(* whichever came first, and never without both; the factory's when it has *)
(* come and there is no other.  (The factory's block is asked for first;   *)
(* if it comes last, the guard at jc1.rs:319, which nothing can fail, lets *)
(* it take the place of the user's.)                                       *)
SpCalIsResolved ==
  /\ spCal = "user" => UserCal
  /\ UserCal /\ Last(spHeard) # "factory" => spCal = "user"
  /\ Heard({"factory"}) /\ spFlash["factory"] /\ ~UserCal => spCal = "factory"
=============================================================================
