------------------------------ MODULE RemoteLoss ------------------------------
(***************************************************************************)
(* LossStats, crates/device-remote/src/factory.rs: from the wrapping       *)
(* number of each burst of samples, how many of them the network lost.     *)
(***************************************************************************)
EXTENDS Naturals, FiniteSets

CONSTANTS
  LoMod,     \* numbers there are (65536)
  LoSkip,    \* a gap that is not counted (1000)
  LoMaxSent, \* bound: bursts sent
  LoMaxNet,  \* bound: bursts under way
  LoMaxCount \* bound: bursts received in a window of ten seconds

ASSUME LoAssumption ==
  LoMod \in Nat \ {0} /\ LoSkip \in 1..LoMod /\ LoMaxSent \in Nat
  /\ LoMaxNet \in Nat /\ LoMaxCount \in Nat

VARIABLES
  loSent,     \* bursts the hub sent
  loNet,      \* those under way
  loLast,     \* last_seq, or nothing
  loReceived, loLost,
  loFrom,     \* history: the burst before the first that this window counts
  loNewest,   \* history: the newest burst received
  loInOrder   \* history: none was repeated or overtaken, nor LoSkip in a row lost

loVars == <<loSent, loNet, loLast, loReceived, loLost, loFrom, loNewest, loInOrder>>

LoTypeOK ==
  /\ loSent \in 0..LoMaxSent /\ loNet \subseteq 1..loSent
  /\ loLast \subseteq 0..(LoMod - 1) /\ Cardinality(loLast) <= 1
  /\ loReceived \in 0..LoMaxCount /\ loLost \in 0..(LoMaxCount * LoSkip)
  /\ loFrom \in 0..LoMaxSent /\ loNewest \in 0..LoMaxSent /\ loInOrder \in BOOLEAN

LoInit ==
  /\ loSent = 0 /\ loNet = {} /\ loLast = {} /\ loReceived = 0 /\ loLost = 0
  /\ loFrom = 0 /\ loNewest = 0 /\ loInOrder = TRUE

Seq16(n) == n % LoMod

(* The difference of the numbers as they are. *)
GapUnwrapped(seq, prev) == IF seq < prev THEN 0 ELSE seq - prev

Gap(seq, prev) == (seq + LoMod - prev) % LoMod

Missed(seq) ==
  IF \E prev \in loLast : Gap(seq, prev) > 1 /\ Gap(seq, prev) < LoSkip
    THEN Gap(seq, CHOOSE prev \in loLast : TRUE) - 1
    ELSE 0

(* The burst that ends a window of ten seconds is the last it counts.      *)
Record(n) ==
  /\ loLast' = {Seq16(n)}
  /\ loNewest' = IF n > loNewest THEN n ELSE loNewest
  /\ loInOrder' = (loInOrder /\ n > loNewest /\ (loLast = {} \/ n - loNewest < LoSkip))
  /\ \/ /\ loReceived < LoMaxCount
        /\ loReceived' = loReceived + 1 /\ loLost' = loLost + Missed(Seq16(n))
        /\ loFrom' = IF loLast = {} THEN n - 1 ELSE loFrom
     \/ loReceived' = 0 /\ loLost' = 0 /\ loFrom' = n

LoSend ==
  /\ loSent < LoMaxSent /\ Cardinality(loNet) < LoMaxNet
  /\ loSent' = loSent + 1 /\ loNet' = loNet \cup {loSent'}
  /\ UNCHANGED <<loLast, loReceived, loLost, loFrom, loNewest, loInOrder>>

(* A burst may be repeated by the network, and come again.                 *)
LoReceive(n) ==
  /\ loNet' \in {loNet, loNet \ {n}}
  /\ Record(n)
  /\ UNCHANGED loSent

LoLose(n) ==
  /\ loNet' = loNet \ {n}
  /\ UNCHANGED <<loSent, loLast, loReceived, loLost, loFrom, loNewest, loInOrder>>

LoNext == LoSend \/ \E n \in loNet : LoReceive(n) \/ LoLose(n)

LoSpec == LoInit /\ [][LoNext]_loVars

-----------------------------------------------------------------------------
(* While bursts arrive in the order they were sent, every one since the    *)
(* window began was received or is counted as lost, also across the wrap   *)
(* of their numbers.  (One that comes late or twice makes the next be      *)
(* counted as a gap, as last_seq goes back with it: factory.rs:52.)        *)
LossIsCounted == loInOrder => loReceived + loLost = loNewest - loFrom
=============================================================================
