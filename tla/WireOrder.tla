------------------------------ MODULE WireOrder ------------------------------
(***************************************************************************)
(* The tasks that send through one SlimeVR client.  Each takes the next    *)
(* number of the shared counter and then, in a step of its own, sends: the *)
(* one that took the smaller number may send last, and the network delays, *)
(* repeats and loses what was sent.  The server drops whatever is not      *)
(* newer than the newest it has seen, and puts an acceleration on the      *)
(* rotation it has.                                                        *)
(***************************************************************************)
EXTENDS Naturals, FiniteSets

CONSTANT WoMaxSeq \* bound: numbers taken

ASSUME WoAssumption == WoMaxSeq \in Nat

(* The device's pipeline, the client's watchdog and the user's resets. *)
Senders == {"pipeline", "watchdog", "reset"}

VARIABLES
  woSeq,       \* the counter
  woHeld,      \* what each task is about to send: a datagram, or nothing
  woNet,       \* the datagrams under way
  woBundles,   \* the server advertised BUNDLE
  woSample,    \* the sample the pipeline is at
  woDue,       \* and what of it remains to be sent
  woSeen,      \* the server: the numbers it took
  woRotation,  \* the sample of its rotation
  woAccel      \* the samples of its acceleration and, then, of its rotation, and
               \* whether it had all that was sent before

woVars == <<woSeq, woHeld, woNet, woBundles, woSample, woDue, woSeen, woRotation, woAccel>>

Datagrams ==
  [seq : 1..WoMaxSeq, what : {"rotation", "accel", "both", "other"}, sample : 0..WoMaxSeq]

WoTypeOK ==
  /\ woSeq \in 0..WoMaxSeq
  /\ woHeld \in [Senders -> SUBSET Datagrams]
  /\ \A s \in Senders : Cardinality(woHeld[s]) <= 1
  /\ woNet \subseteq Datagrams
  /\ woBundles \in BOOLEAN
  /\ woSample \in 0..WoMaxSeq
  /\ woDue \in {"nothing", "accel", "rotation"}
  /\ woSeen \subseteq 1..WoMaxSeq
  /\ woRotation \in 0..WoMaxSeq
  /\ woAccel \in [accel : 0..WoMaxSeq, rotation : 0..WoMaxSeq, whole : BOOLEAN]

WoInit ==
  /\ woSeq = 0 /\ woHeld = [s \in Senders |-> {}] /\ woNet = {} /\ woBundles = FALSE
  /\ woSample = 0 /\ woDue = "nothing"
  /\ woSeen = {} /\ woRotation = 0
  /\ woAccel = [accel |-> 0, rotation |-> 0, whole |-> TRUE]

server == <<woSeen, woRotation, woAccel>>

-----------------------------------------------------------------------------

NextSeq(s, what, sample) ==
  /\ woHeld[s] = {} /\ woSeq < WoMaxSeq
  /\ woSeq' = woSeq + 1
  /\ woHeld' = [woHeld EXCEPT ![s] = {[seq |-> woSeq + 1, what |-> what, sample |-> sample]}]
  /\ UNCHANGED <<woNet, woBundles, server>>

(* A socket that reports the peer's refusal has lost the datagram, and the *)
(* sender does not learn of it.                                            *)
SendPacket(s) ==
  /\ woHeld[s] # {}
  /\ woHeld' = [woHeld EXCEPT ![s] = {}]
  /\ \/ woNet' = woNet \cup woHeld[s]
     \/ woNet' = woNet
  /\ UNCHANGED <<woSeq, woBundles, woSample, woDue, server>>

(* The pipeline's next sample: in one datagram, or the rotation first.     *)
SendAccelAndRotation ==
  /\ woDue = "nothing"
  /\ woSample' = woSample + 1
  /\ IF woBundles THEN NextSeq("pipeline", "both", woSample') /\ UNCHANGED woDue
                  ELSE NextSeq("pipeline", "accel", woSample') /\ woDue' = "rotation"

SendRotationAndAccel ==
  /\ woDue = "nothing"
  /\ woSample' = woSample + 1
  /\ IF woBundles THEN NextSeq("pipeline", "both", woSample') /\ UNCHANGED woDue
                  ELSE NextSeq("pipeline", "rotation", woSample') /\ woDue' = "accel"

SendAcceleration ==
  /\ woDue # "nothing"
  /\ NextSeq("pipeline", woDue, woSample)
  /\ woDue' = "nothing"
  /\ UNCHANGED woSample

SendOther(s) ==
  /\ NextSeq(s, "other", 0)
  /\ UNCHANGED <<woSample, woDue>>

(* What the pipeline sends between two samples: SENSOR_INFO, FEATURE_FLAGS,*)
(* a magnetometer sample, the battery or an action.                        *)
SendBetween == woDue = "nothing" /\ SendOther("pipeline")

SendHandshake == SendOther("watchdog")

RequestReset == SendOther("reset")

(* Any other error ends the pipeline, which leaves the rest of the sample. *)
SendFails ==
  /\ woHeld["pipeline"] # {}
  /\ woHeld' = [woHeld EXCEPT !["pipeline"] = {}]
  /\ woDue' = "nothing"
  /\ UNCHANGED <<woSeq, woNet, woBundles, woSample, server>>

(* FEATURE_FLAGS of a server, or of the one that took its place.           *)
HearsFlags ==
  /\ woBundles' = ~woBundles
  /\ UNCHANGED <<woSeq, woHeld, woNet, woSample, woDue, server>>

-----------------------------------------------------------------------------
(* The server as the crate takes it to be. *)
Newer(d) == \A n \in woSeen : d.seq > n

Deliver(d) ==
  /\ woNet' \in {woNet, woNet \ {d}}
  /\ IF Newer(d)
       THEN /\ woSeen' = woSeen \cup {d.seq}
            /\ woRotation' = IF d.what \in {"rotation", "both"} THEN d.sample ELSE woRotation
            /\ woAccel' = IF d.what \in {"accel", "both"}
                            THEN [accel |-> d.sample, rotation |-> woRotation',
                                  whole |-> 1..(d.seq - 1) \subseteq woSeen]
                            ELSE woAccel
       ELSE UNCHANGED server
  /\ UNCHANGED <<woSeq, woHeld, woBundles, woSample, woDue>>

WoNext ==
  \/ SendRotationAndAccel \/ SendAcceleration \/ SendFails \/ HearsFlags
  \/ SendBetween \/ SendHandshake \/ RequestReset
  \/ \E s \in Senders : SendPacket(s)
  \/ \E d \in woNet : Deliver(d)

WoSpec == WoInit /\ [][WoNext]_woVars

-----------------------------------------------------------------------------

(* However the datagrams overtake each other, the server puts no           *)
(* acceleration on the rotation of a later sample; and on that of an       *)
(* earlier one only when it lacks something that was sent before.          *)
(* client.rs:341-343 sends the rotation first to that end.                 *)
AccelMeetsItsRotation ==
  /\ woAccel.rotation <= woAccel.accel
  /\ woAccel.whole => woAccel.rotation = woAccel.accel
=============================================================================
