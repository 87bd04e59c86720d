-------------------------- MODULE DiscoveryChannel --------------------------
(***************************************************************************)
(* The one bounded channel from all factories to the supervisor,           *)
(* crates/core/src/supervisor.rs.  A factory's loop, and of some factories *)
(* several tasks, offer each device they find and await a place for it;    *)
(* the remote hub does so inside its receive loop.  The supervisor takes   *)
(* one device at a time and awaits its start, which may take as long as a  *)
(* Bluetooth connection does, before it takes the next.                    *)
(*                                                                         *)
(* What registration does with a device is DeviceRegistry's.               *)
(***************************************************************************)
EXTENDS Integers, Sequences, FiniteSets

CONSTANTS
  DcLoops,    \* the tasks that offer devices
  DcCap,      \* places of the channel (16)
  DcMaxFinds, \* bound: devices a loop finds
  DcNone      \* no device

ASSUME DcAssumption ==
  /\ IsFiniteSet(DcLoops) /\ DcCap \in Nat \ {0} /\ DcMaxFinds \in Nat
  /\ DcNone \notin [loop : DcLoops, number : 1 .. DcMaxFinds]

VARIABLES
  dcFound,   \* devices each loop has found; the last is the one it offers
  dcWaiting, \* the loops that await a place, the first to come first
  dcGranted, \* the loops that were given a place and have not filled it yet
  dcFree,    \* places that are nobody's
  dcChan,    \* devices in the channel
  dcNow,     \* the device the supervisor starts
  dcBegun,   \* of each loop's devices, the last that the supervisor took
  dcStarts   \* starts that have ended since each loop began to wait

dcVars == <<dcFound, dcWaiting, dcGranted, dcFree, dcChan, dcNow, dcBegun, dcStarts>>

DcDevices == [loop : DcLoops, number : 1 .. DcMaxFinds]

DcTypeOK ==
  /\ dcFound \in [DcLoops -> 0 .. DcMaxFinds] /\ dcBegun \in [DcLoops -> 0 .. DcMaxFinds]
  /\ dcWaiting \in Seq(DcLoops) /\ dcGranted \in SUBSET DcLoops
  /\ dcChan \in Seq(DcDevices) /\ dcNow \in DcDevices \cup {DcNone}
  /\ dcFree \in 0 .. DcCap /\ dcFree + Cardinality(dcGranted) + Len(dcChan) = DcCap
  /\ dcStarts \in [DcLoops -> Nat]

DcInit ==
  /\ dcFound = [l \in DcLoops |-> 0] /\ dcBegun = [l \in DcLoops |-> 0]
  /\ dcWaiting = <<>> /\ dcGranted = {} /\ dcFree = DcCap
  /\ dcChan = <<>> /\ dcNow = DcNone
  /\ dcStarts = [l \in DcLoops |-> 0]

-----------------------------------------------------------------------------
(* The loops *)

Awaits(l) == \E i \in DOMAIN dcWaiting : dcWaiting[i] = l

Offered(l) == [loop |-> l, number |-> dcFound[l]]

(* Mutant: the offer is left to a task of its own, and the loop goes on.   *)
OfferAside(l) ==
  /\ dcFound[l] < DcMaxFinds
  /\ dcFound' = [dcFound EXCEPT ![l] = @ + 1]
  /\ IF dcFree > 0
     THEN /\ dcFree' = dcFree - 1 /\ dcChan' = Append(dcChan, Offered(l)')
          /\ UNCHANGED <<dcWaiting, dcStarts>>
     ELSE /\ dcWaiting' = Append(dcWaiting, l) /\ dcStarts' = [dcStarts EXCEPT ![l] = 0]
          /\ UNCHANGED <<dcFree, dcChan>>
  /\ UNCHANGED <<dcGranted, dcNow, dcBegun>>

(* A loop offers the device it found, and waits where there is no place.   *)
Offer(l) ==
  /\ ~Awaits(l) /\ l \notin dcGranted /\ dcFound[l] < DcMaxFinds
  /\ dcFound' = [dcFound EXCEPT ![l] = @ + 1]
  /\ IF dcFree > 0
     THEN /\ dcFree' = dcFree - 1 /\ dcChan' = Append(dcChan, Offered(l)')
          /\ UNCHANGED <<dcWaiting, dcStarts>>
     ELSE /\ dcWaiting' = Append(dcWaiting, l) /\ dcStarts' = [dcStarts EXCEPT ![l] = 0]
          /\ UNCHANGED <<dcFree, dcChan>>
  /\ UNCHANGED <<dcGranted, dcNow, dcBegun>>

(* A loop that was given a place is polled, later than another perhaps     *)
(* that was given one after it.                                            *)
FillPlace(l) ==
  /\ l \in dcGranted /\ dcGranted' = dcGranted \ {l}
  /\ dcChan' = Append(dcChan, Offered(l))
  /\ UNCHANGED <<dcFound, dcWaiting, dcFree, dcNow, dcBegun, dcStarts>>

-----------------------------------------------------------------------------
(* The supervisor *)

(* The place of a device that was taken goes to the loop that waited       *)
(* longest.                                                                *)
FreePlace ==
  IF dcWaiting = <<>>
  THEN dcFree' = dcFree + 1 /\ UNCHANGED <<dcWaiting, dcGranted>>
  ELSE /\ dcGranted' = dcGranted \cup {Head(dcWaiting)} /\ dcWaiting' = Tail(dcWaiting)
       /\ UNCHANGED dcFree

(* The next device is taken out of the channel, and its start begins.      *)
TakeDevice ==
  /\ dcNow = DcNone /\ dcChan # <<>>
  /\ dcNow' = Head(dcChan) /\ dcChan' = Tail(dcChan)
  /\ dcBegun' = [dcBegun EXCEPT ![Head(dcChan).loop] = Head(dcChan).number]
  /\ FreePlace
  /\ UNCHANGED <<dcFound, dcStarts>>

(* Mutant: a start that failed is tried again at once.                     *)
StartAgain ==
  /\ dcNow # DcNone /\ dcNow' \in {dcNow, DcNone}
  /\ dcStarts' = [l \in DcLoops |-> dcStarts[l] + (IF Awaits(l) THEN 1 ELSE 0)]
  /\ UNCHANGED <<dcFound, dcWaiting, dcGranted, dcFree, dcChan, dcBegun>>

(* A start ends, and its device is registered, or has failed and is let go *)
(* of.                                                                     *)
EndStart ==
  /\ dcNow # DcNone /\ dcNow' = DcNone
  /\ dcStarts' = [l \in DcLoops |-> dcStarts[l] + (IF Awaits(l) THEN 1 ELSE 0)]
  /\ UNCHANGED <<dcFound, dcWaiting, dcGranted, dcFree, dcChan, dcBegun>>

DcNext ==
  \/ \E l \in DcLoops : Offer(l) \/ FillPlace(l)
  \/ TakeDevice \/ EndStart

DcSpec == DcInit /\ [][DcNext]_dcVars

-----------------------------------------------------------------------------
(* Properties *)

(* A loop that awaits a place, with all that it serves, waits for one      *)
(* start of each loop at most, however many devices the channel holds and  *)
(* whatever the others find meanwhile: the hub's receive loop for no more  *)
(* starts than there are tasks that offer (supervisor.rs:21, 36-38, remote *)
(* factory.rs:203).                                                        *)
WaitsAreBounded ==
  \A l \in DcLoops : Awaits(l) => dcStarts[l] <= Cardinality(DcLoops)

(* What a loop finds is started in the order it was found, each device     *)
(* once and none passed over.  The registry relies on it: of two devices   *)
(* with one MAC the later to be registered replaces the other              *)
(* (app_state.rs:100-117, supervisor.rs:36-61).                            *)
StartsInOrder ==
  [][\A l \in DcLoops : dcBegun'[l] # dcBegun[l] => dcBegun'[l] = dcBegun[l] + 1]_dcVars
=============================================================================
