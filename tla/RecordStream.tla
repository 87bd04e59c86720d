---------------------------- MODULE RecordStream ----------------------------
(***************************************************************************)
(* What the record parser of crates/device-hopx/src/protocol.rs promises   *)
(* (its comments at 88-91 and 109-110): the records a tracker sends come   *)
(* out one at a time, in the order of their sending, each once and whole,  *)
(* none before its last byte was sent, and all that are whole before more  *)
(* is sent; what is out stays as it is.                                    *)
(***************************************************************************)
EXTENDS Integers, Sequences

CONSTANT Length  \* bytes of a record

VARIABLES
  sent,  \* records sent to their last byte
  out    \* records that have come out

vars == <<sent, out>>

Init == sent = 0 /\ out = <<>>

Record(r) == [place \in 1 .. Length |-> [record |-> r, place |-> place]]

(* However many bytes arrive, some records may have become whole; none was *)
(* held back.                                                              *)
Send ==
  /\ Len(out) = sent
  /\ sent' \in Nat /\ sent' >= sent
  /\ UNCHANGED out

Deliver ==
  /\ Len(out) < sent
  /\ out' = Append(out, Record(Len(out) + 1))
  /\ UNCHANGED sent

Next == Send \/ Deliver

Spec == Init /\ [][Next]_vars
=============================================================================
