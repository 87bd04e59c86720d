-------------------------- MODULE DeviceDirectory --------------------------
(***************************************************************************)
(* What the device registry of crates/core/src/app_state.rs promises: it   *)
(* holds at most one incarnation of each physical device (one MAC), and of *)
(* those that come from one source always a later one than it held before  *)
(* (app_state.rs:100-102, and the test at 613-631: a device with the same  *)
(* MAC must replace, not duplicate).  Sources are not ordered among each   *)
(* other: of what two of them bring, whichever arrives last replaces the   *)
(* other.                                                                  *)
(***************************************************************************)
EXTENDS Integers

CONSTANTS Incarnations, Macs, Sources

VARIABLES
  mac,      \* the MAC of each incarnation
  source,   \* where it comes from
  present,  \* the incarnations in the directory
  latest    \* the incarnation that came last from each source, 0 before the first

vars == <<mac, source, present, latest>>

Init ==
  /\ mac \in [Incarnations -> Macs] /\ source \in [Incarnations -> Sources]
  /\ present = {} /\ latest = [s \in Sources |-> 0]

(* A device arrives and replaces whatever has its MAC. *)
Arrive(i) ==
  /\ i > latest[source[i]]
  /\ latest' = [latest EXCEPT ![source[i]] = i]
  /\ present' = {j \in present : mac[j] # mac[i]} \cup {i}
  /\ UNCHANGED <<mac, source>>

(* Some devices leave. *)
Leave(S) ==
  /\ present' = present \ S
  /\ UNCHANGED <<mac, source, latest>>

Next == \/ \E i \in Incarnations : Arrive(i)
        \/ \E S \in SUBSET Incarnations : Leave(S)

Spec == Init /\ [][Next]_vars
=============================================================================
