------------------------------ MODULE WireProofs ------------------------------
(***************************************************************************)
(* The datagrams the client sends, in their order and in their bytes.      *)
(*                                                                         *)
(* Order: the server puts no acceleration on the rotation of another       *)
(* sample but for one it lacks, for every number of datagrams, however the *)
(* senders interleave and the network reorders, repeats and loses.         *)
(* The numbers order the samples (Ordered), so that the server's rotation  *)
(* is never ahead of a datagram it will still take (NotBehind); and before *)
(* every acceleration a smaller number was given to the rotation of the    *)
(* same sample, which the server has taken, or lacks (AccelFollows).       *)
(*                                                                         *)
(* Bytes: of a message of any length, claiming anything of its contents,   *)
(* no decoder takes a field from outside it or a byte into two fields; and *)
(* what is written here is read back where it was written.  Each decoder's *)
(* record is shown Sound by itself.                                        *)
(***************************************************************************)
EXTENDS WireOrder, WireLayouts, FiniteSetTheorems, TLAPS


Sent == [seq : Nat \ {0}, what : {"rotation", "accel", "both", "other"}, sample : Nat]

UnderWay == woNet \cup UNION {woHeld[s] : s \in Senders}

Turns(d) == d.what \in {"rotation", "both"}
Moves(d) == d.what # "other"

Types ==
  /\ woSeq \in Nat /\ woSample \in Nat /\ woRotation \in 0..woSample
  /\ woDue \in {"nothing", "accel"}
  /\ woHeld \in [Senders -> SUBSET Sent] /\ woNet \subseteq Sent
  /\ woSeen \subseteq 1..woSeq
  /\ woAccel \in [accel : Nat, rotation : Nat, whole : BOOLEAN]

Bounded == \A d \in UnderWay : d.seq <= woSeq /\ d.sample <= woSample

Ordered ==
  \A d, e \in UnderWay : Moves(d) /\ Moves(e) /\ d.seq <= e.seq => d.sample <= e.sample

NotBehind == \A d \in UnderWay : Moves(d) /\ Newer(d) => woRotation <= d.sample

(* The r-th number is that of the n-th sample's rotation. *)
Carried(r, n) ==
  /\ r \in 1..woSeq
  /\ r \in woSeen => n <= woRotation
  /\ \A d \in UnderWay : d.seq = r => Turns(d) /\ d.sample = n

AccelFollows ==
  \A d \in UnderWay : d.what = "accel" => \E r \in 1..(d.seq - 1) : Carried(r, d.sample)

DueFollows == woDue = "accel" => \E r \in 1..woSeq : Carried(r, woSample)

WoIInv ==
  /\ Types /\ Bounded /\ Ordered /\ NotBehind /\ AccelFollows /\ DueFollows
  /\ AccelMeetsItsRotation

LEMMA WoInitIInv == WoInit => WoIInv
<1> SUFFICES ASSUME WoInit PROVE WoIInv
  OBVIOUS
<1>1. UnderWay = {}
  BY DEF WoInit, UnderWay
<1>2. Types
  BY DEF WoInit, Types
<1>3. Bounded /\ Ordered /\ NotBehind /\ AccelFollows
  BY <1>1 DEF Bounded, Ordered, NotBehind, AccelFollows
<1>4. DueFollows /\ AccelMeetsItsRotation
  BY DEF WoInit, DueFollows, AccelMeetsItsRotation
<1> QED BY <1>2, <1>3, <1>4 DEF WoIInv

LEMMA UnderWaySent == ASSUME Types PROVE UnderWay \subseteq Sent
BY DEF Types, UnderWay

(* What a task is about to send leaves, or not. *)
LEMMA LeavesUnderWay ==
  ASSUME Types, NEW s \in Senders,
         woHeld' = [woHeld EXCEPT ![s] = {}],
         woNet' = woNet \cup woHeld[s] \/ woNet' = woNet
  PROVE  UnderWay' \subseteq UnderWay /\ woHeld' \in [Senders -> SUBSET Sent]
<1>1. \A t \in Senders : woHeld'[t] \subseteq woHeld[t]
  BY DEF Types
<1>2. woHeld' \in [Senders -> SUBSET Sent]
  BY DEF Types
<1> QED BY <1>1, <1>2 DEF UnderWay

(* A step that sends nothing and is not the server's. *)
LEMMA QuietKeeps ==
  ASSUME WoIInv, Types', UnderWay' \subseteq UnderWay,
         UNCHANGED <<woSeq, woSample, woSeen, woRotation, woAccel>>,
         woDue' \in {woDue, "nothing"}
  PROVE  WoIInv'
<1>1. ASSUME NEW r, NEW n, Carried(r, n) PROVE Carried(r, n)'
  BY <1>1 DEF Carried
<1>2. Bounded' /\ Ordered'
  BY DEF WoIInv, Bounded, Ordered
<1>3. NotBehind'
  BY DEF WoIInv, NotBehind, Newer
<1>4. AccelFollows'
  BY <1>1 DEF WoIInv, AccelFollows
<1>5. DueFollows'
  BY <1>1 DEF WoIInv, DueFollows
<1> QED BY <1>2, <1>3, <1>4, <1>5 DEF WoIInv, AccelMeetsItsRotation

(* A task takes the next number for d. *)
LEMMA SendKeeps ==
  ASSUME WoIInv, Types', NEW d \in Sent,
         UnderWay' \subseteq UnderWay \cup {d},
         d.seq = woSeq + 1, woSeq' = woSeq + 1,
         woSample <= woSample', d.sample <= woSample',
         Moves(d) => d.sample = woSample',
         d.what = "accel" => \E r \in 1..woSeq : Carried(r, d.sample),
         UNCHANGED <<woSeen, woRotation, woAccel>>,
         DueFollows'
  PROVE  WoIInv'
<1> USE DEF WoIInv
<1>1. /\ woSeq \in Nat /\ woSample \in Nat /\ woSample' \in Nat /\ woRotation \in Nat
      /\ woRotation <= woSample /\ UnderWay \subseteq Sent
  BY UnderWaySent DEF Types
<1>2. \A e \in UnderWay : e.seq \in Nat /\ e.sample \in Nat
  BY <1>1 DEF Sent
<1>3. ASSUME NEW r, NEW n, Carried(r, n) PROVE Carried(r, n)'
  BY <1>1, <1>3 DEF Carried
<1>4. Bounded'
  BY <1>1, <1>2 DEF Bounded
<1>5. Ordered'
  BY <1>1, <1>2 DEF Ordered, Bounded
<1>6. NotBehind'
  BY <1>1 DEF NotBehind, Newer
<1>7. AccelFollows'
  <2> SUFFICES ASSUME NEW e \in UnderWay', e.what = "accel"
               PROVE  \E r \in 1..(e.seq - 1) : Carried(r, e.sample)'
    BY DEF AccelFollows
  <2>1. CASE e = d
    BY <1>1, <1>3, <2>1
  <2>2. CASE e # d
    BY <1>3, <2>2 DEF AccelFollows
  <2> QED BY <2>1, <2>2
<1> QED BY <1>4, <1>5, <1>6, <1>7 DEF AccelMeetsItsRotation

LEMMA NextSeqUnderWay ==
  ASSUME Types, NEW s \in Senders, NEW what, NEW n \in Nat,
         what \in {"rotation", "accel", "both", "other"}, NextSeq(s, what, n)
  PROVE  LET d == [seq |-> woSeq + 1, what |-> what, sample |-> n]
         IN  /\ d \in Sent
             /\ UnderWay' \subseteq UnderWay \cup {d}
             /\ woHeld' \in [Senders -> SUBSET Sent] /\ woNet' \subseteq Sent
<1> DEFINE d == [seq |-> woSeq + 1, what |-> what, sample |-> n]
<1>1. d \in Sent
  BY DEF Types, Sent
<1>2. woHeld' = [woHeld EXCEPT ![s] = {d}] /\ woNet' = woNet
  BY DEF NextSeq
<1>3. \A t \in Senders : woHeld'[t] \subseteq woHeld[t] \cup {d}
  BY <1>2 DEF Types
<1>4. UnderWay' \subseteq UnderWay \cup {d}
  BY <1>2, <1>3 DEF UnderWay
<1>5. woHeld' \in [Senders -> SUBSET Sent]
  BY <1>1, <1>2 DEF Types
<1> QED BY <1>1, <1>2, <1>4, <1>5 DEF Types

LEMMA SampleKeeps == ASSUME WoIInv, SendRotationAndAccel PROVE WoIInv'
<1> DEFINE what == IF woBundles THEN "both" ELSE "rotation"
           d == [seq |-> woSeq + 1, what |-> what, sample |-> woSample']
<1>1. Types
  BY DEF WoIInv
<1>2. /\ woSeq \in Nat /\ woSample \in Nat /\ woSample' = woSample + 1
      /\ NextSeq("pipeline", what, woSample') /\ woDue = "nothing"
      /\ woDue' = IF woBundles THEN "nothing" ELSE "accel"
  BY <1>1 DEF SendRotationAndAccel, Types
<1>3. /\ woSample' \in Nat /\ "pipeline" \in Senders
      /\ what \in {"rotation", "accel", "both", "other"}
  BY <1>2 DEF Senders
<1>4. /\ d \in Sent /\ UnderWay' \subseteq UnderWay \cup {d}
      /\ woHeld' \in [Senders -> SUBSET Sent] /\ woNet' \subseteq Sent
  <2> HIDE DEF what
  <2> QED BY <1>1, <1>2, <1>3, NextSeqUnderWay
<1>5. woSeq' = woSeq + 1 /\ UNCHANGED <<woSeen, woRotation, woAccel>>
  BY <1>2 DEF NextSeq, server
<1>6. Types'
  BY <1>1, <1>2, <1>4, <1>5 DEF Types
<1>7. \E r \in 1..woSeq' : Carried(r, woSample)'
  <2>1. PICK r : r = woSeq + 1
    OBVIOUS
  <2>2. \A e \in UnderWay : e.seq # r
    BY <1>2, <2>1, UnderWaySent DEF WoIInv, Bounded, Sent
  <2>3. r \notin woSeen /\ r \in 1..woSeq'
    BY <1>1, <1>2, <1>5, <2>1 DEF Types
  <2>4. Turns(d) /\ d.sample = woSample'
    BY DEF Turns
  <2>5. \A e \in UnderWay' : e.seq = r => Turns(e) /\ e.sample = woSample'
    BY <1>4, <2>2, <2>4
  <2> QED BY <1>5, <2>3, <2>5 DEF Carried
<1>8. DueFollows'
  BY <1>7 DEF DueFollows
<1>9. d.seq = woSeq + 1 /\ d.sample = woSample' /\ d.what # "accel"
  OBVIOUS
<1> HIDE DEF d
<1> QED BY <1>2, <1>4, <1>5, <1>6, <1>8, <1>9, SendKeeps

LEMMA AccelKeeps == ASSUME WoIInv, SendAcceleration PROVE WoIInv'
<1> DEFINE d == [seq |-> woSeq + 1, what |-> "accel", sample |-> woSample]
<1>1. Types
  BY DEF WoIInv
<1>2. /\ woSeq \in Nat /\ woSample \in Nat /\ woSample' = woSample
      /\ NextSeq("pipeline", "accel", woSample) /\ woDue = "accel" /\ woDue' = "nothing"
  BY <1>1 DEF SendAcceleration, Types
<1>3. /\ d \in Sent /\ UnderWay' \subseteq UnderWay \cup {d}
      /\ woHeld' \in [Senders -> SUBSET Sent] /\ woNet' \subseteq Sent
  BY <1>1, <1>2, NextSeqUnderWay DEF Senders
<1>4. woSeq' = woSeq + 1 /\ UNCHANGED <<woSeen, woRotation, woAccel>>
  BY <1>2 DEF NextSeq, server
<1>5. Types'
  BY <1>1, <1>2, <1>3, <1>4 DEF Types
<1>6. DueFollows'
  BY <1>2 DEF DueFollows
<1>7. d.seq = woSeq + 1 /\ d.sample = woSample
  OBVIOUS
<1>8. \E r \in 1..woSeq : Carried(r, d.sample)
  BY <1>2, <1>7 DEF WoIInv, DueFollows
<1> HIDE DEF d
<1> QED BY <1>2, <1>3, <1>4, <1>5, <1>6, <1>7, <1>8, SendKeeps

LEMMA OtherKeeps ==
  ASSUME WoIInv, NEW s \in Senders, SendOther(s) PROVE WoIInv'
<1> DEFINE d == [seq |-> woSeq + 1, what |-> "other", sample |-> 0]
<1>1. Types
  BY DEF WoIInv
<1>2. /\ woSeq \in Nat /\ woSample \in Nat /\ woSample' = woSample
      /\ NextSeq(s, "other", 0) /\ woDue' = woDue
  BY <1>1 DEF SendOther, Types
<1>3. /\ d \in Sent /\ UnderWay' \subseteq UnderWay \cup {d}
      /\ woHeld' \in [Senders -> SUBSET Sent] /\ woNet' \subseteq Sent
  BY <1>1, <1>2, NextSeqUnderWay
<1>4. woSeq' = woSeq + 1 /\ UNCHANGED <<woSeen, woRotation, woAccel>>
  BY <1>2 DEF NextSeq, server
<1>5. Types'
  BY <1>1, <1>2, <1>3, <1>4 DEF Types
<1>6. DueFollows'
  <2>1. ASSUME NEW r, Carried(r, woSample) PROVE Carried(r, woSample)'
    BY <1>2, <1>3, <1>4, <2>1 DEF Carried
  <2> QED BY <1>2, <1>4, <2>1 DEF WoIInv, DueFollows
<1>7. d.seq = woSeq + 1 /\ d.sample = 0 /\ ~Moves(d) /\ d.what # "accel"
  BY DEF Moves
<1> HIDE DEF d
<1> QED BY <1>2, <1>3, <1>4, <1>5, <1>6, <1>7, SendKeeps

LEMMA PacketKeeps ==
  ASSUME WoIInv, NEW s \in Senders, SendPacket(s) PROVE WoIInv'
<1>1. Types /\ woNet \subseteq Sent /\ woHeld[s] \subseteq Sent
  BY DEF WoIInv, Types
<1>2. UnderWay' \subseteq UnderWay /\ woHeld' \in [Senders -> SUBSET Sent]
  BY <1>1, LeavesUnderWay DEF SendPacket
<1>3. woNet' \subseteq Sent
  BY <1>1 DEF SendPacket
<1>4. Types'
  BY <1>1, <1>2, <1>3 DEF Types, SendPacket, server
<1> QED BY <1>2, <1>4, QuietKeeps DEF SendPacket, server

LEMMA FailsKeeps == ASSUME WoIInv, SendFails PROVE WoIInv'
<1>1. Types /\ "pipeline" \in Senders
  BY DEF WoIInv, Senders
<1>2. UnderWay' \subseteq UnderWay /\ woHeld' \in [Senders -> SUBSET Sent]
  BY <1>1, LeavesUnderWay DEF SendFails
<1>3. Types'
  BY <1>1, <1>2 DEF Types, SendFails, server
<1> QED BY <1>2, <1>3, QuietKeeps DEF SendFails, server

LEMMA FlagsKeep == ASSUME WoIInv, HearsFlags PROVE WoIInv'
<1>1. UnderWay' \subseteq UnderWay
  BY DEF HearsFlags, UnderWay
<1>2. Types'
  BY DEF WoIInv, Types, HearsFlags, server
<1> QED BY <1>1, <1>2, QuietKeeps DEF HearsFlags, server

(* The server takes a datagram, or drops it. *)
LEMMA DeliverKeeps ==
  ASSUME WoIInv, NEW d \in woNet, Deliver(d) PROVE WoIInv'
<1>1. Types /\ d \in Sent /\ d \in UnderWay
  BY DEF WoIInv, Types, UnderWay
<1>2. UnderWay' \subseteq UnderWay /\ woNet' \subseteq woNet /\ woHeld' = woHeld
  BY DEF Deliver, UnderWay
<1>3. UNCHANGED <<woSeq, woSample, woDue>>
  BY DEF Deliver
<1>4. CASE ~Newer(d)
  <2>1. UNCHANGED <<woSeen, woRotation, woAccel>>
    BY <1>4 DEF Deliver, server
  <2>2. Types'
    BY <1>1, <1>2, <1>3, <2>1 DEF Types
  <2> QED BY <1>2, <1>3, <2>1, <2>2, QuietKeeps
<1>5. CASE Newer(d)
  <2>1. /\ woSeen' = woSeen \cup {d.seq}
        /\ woRotation' = IF Turns(d) THEN d.sample ELSE woRotation
        /\ woAccel' = IF d.what \in {"accel", "both"}
                        THEN [accel |-> d.sample, rotation |-> woRotation',
                              whole |-> 1..(d.seq - 1) \subseteq woSeen]
                        ELSE woAccel
    BY <1>5 DEF Deliver, Turns
  <2>2. /\ d.seq \in 1..woSeq /\ d.sample \in 0..woSample
        /\ d.what \in {"rotation", "accel", "both", "other"}
        /\ woSeq \in Nat /\ woSample \in Nat /\ woRotation \in 0..woSample
        /\ UnderWay \subseteq Sent
    BY <1>1, UnderWaySent DEF WoIInv, Bounded, Sent, Types
  <2>3. Moves(d) => woRotation <= d.sample
    BY <1>1, <1>5 DEF WoIInv, NotBehind
  <2>4. woRotation <= woRotation' /\ woRotation' \in 0..woSample
    BY <2>1, <2>2, <2>3 DEF Turns, Moves
  <2>5. Types'
    <3>1. woSeen' \subseteq 1..woSeq /\ woNet' \subseteq Sent
      BY <1>1, <1>2, <2>1, <2>2 DEF Types
    <3>2. (1..(d.seq - 1) \subseteq woSeen) \in BOOLEAN
      OBVIOUS
    <3>3. woAccel' \in [accel : Nat, rotation : Nat, whole : BOOLEAN]
      BY <1>1, <2>1, <2>2, <2>4, <3>2 DEF Types
    <3> QED BY <1>1, <1>2, <1>3, <2>4, <3>1, <3>3 DEF Types
  <2>6. ASSUME NEW r, NEW n \in Nat, Carried(r, n) PROVE Carried(r, n)'
    <3>1. r \in woSeen' => n <= woRotation'
      <4>1. CASE r = d.seq
        BY <1>1, <2>1, <2>2, <2>6, <4>1 DEF Carried
      <4>2. CASE r # d.seq
        <5>1. r \in woSeen' => r \in woSeen
          BY <2>1, <4>2
        <5> QED BY <2>2, <2>4, <2>6, <5>1 DEF Carried
      <4> QED BY <4>1, <4>2
    <3> QED BY <1>2, <1>3, <2>6, <3>1 DEF Carried
  <2>7. Bounded' /\ Ordered'
    BY <1>2, <1>3 DEF WoIInv, Bounded, Ordered
  <2>8. NotBehind'
    <3> SUFFICES ASSUME NEW e \in UnderWay', Moves(e), Newer(e)' PROVE woRotation' <= e.sample
      BY DEF NotBehind
    <3>1. e \in UnderWay /\ e \in Sent /\ Newer(e) /\ e.seq > d.seq
      BY <1>2, <2>1, <2>2 DEF Newer
    <3>2. CASE Turns(d)
      <4>1. Moves(d) /\ d.seq <= e.seq
        BY <2>2, <3>1, <3>2 DEF Turns, Moves, Sent
      <4> QED BY <1>1, <2>1, <3>1, <3>2, <4>1 DEF WoIInv, Ordered
    <3>3. CASE ~Turns(d)
      BY <2>1, <3>1, <3>3 DEF WoIInv, NotBehind
    <3> QED BY <3>2, <3>3
  <2>9. AccelFollows'
    <3> SUFFICES ASSUME NEW e \in UnderWay', e.what = "accel"
                 PROVE  \E r \in 1..(e.seq - 1) : Carried(r, e.sample)'
      BY DEF AccelFollows
    <3>1. e \in UnderWay /\ e.sample \in Nat
      BY <1>2, <2>2 DEF Sent
    <3> QED BY <2>6, <3>1 DEF WoIInv, AccelFollows
  <2>10. DueFollows'
    BY <1>3, <2>2, <2>6 DEF WoIInv, DueFollows
  <2>11. AccelMeetsItsRotation'
    <3>1. CASE d.what \notin {"accel", "both"}
      BY <2>1, <3>1 DEF WoIInv, AccelMeetsItsRotation
    <3>2. CASE d.what = "both"
      <4>1. woAccel'.rotation = d.sample /\ woAccel'.accel = d.sample
        BY <2>1, <3>2 DEF Turns
      <4> QED BY <2>2, <4>1 DEF AccelMeetsItsRotation
    <3>3. CASE d.what = "accel"
      <4>1. /\ woAccel'.rotation = woRotation /\ woAccel'.accel = d.sample
            /\ woAccel'.whole <=> 1..(d.seq - 1) \subseteq woSeen
        BY <2>1, <3>3 DEF Turns
      <4>2. woRotation <= d.sample
        BY <2>3, <3>3 DEF Moves
      <4>3. PICK r \in 1..(d.seq - 1) : Carried(r, d.sample)
        BY <1>1, <3>3 DEF WoIInv, AccelFollows
      <4>4. 1..(d.seq - 1) \subseteq woSeen => d.sample <= woRotation
        BY <4>3 DEF Carried
      <4> QED BY <2>2, <4>1, <4>2, <4>4 DEF AccelMeetsItsRotation
    <3> QED BY <2>2, <3>1, <3>2, <3>3
  <2> QED BY <2>5, <2>7, <2>8, <2>9, <2>10, <2>11 DEF WoIInv
<1> QED BY <1>4, <1>5

LEMMA WoNextIInv == WoIInv /\ [WoNext]_woVars => WoIInv'
<1> SUFFICES ASSUME WoIInv, [WoNext]_woVars PROVE WoIInv'
  OBVIOUS
<1>1. CASE SendRotationAndAccel \/ SendAcceleration \/ SendFails \/ HearsFlags
  BY <1>1, SampleKeeps, AccelKeeps, FailsKeeps, FlagsKeep
<1>2. CASE SendBetween \/ SendHandshake \/ RequestReset
  BY <1>2, OtherKeeps DEF SendBetween, SendHandshake, RequestReset, Senders
<1>3. CASE \E s \in Senders : SendPacket(s)
  BY <1>3, PacketKeeps
<1>4. CASE \E d \in woNet : Deliver(d)
  BY <1>4, DeliverKeeps
<1>5. CASE UNCHANGED woVars
  <2>1. UnderWay' \subseteq UnderWay
    BY <1>5 DEF woVars, UnderWay
  <2>2. Types'
    BY <1>5 DEF WoIInv, Types, woVars
  <2> QED BY <1>5, <2>1, <2>2, QuietKeeps DEF woVars
<1> QED BY <1>1, <1>2, <1>3, <1>4, <1>5 DEF WoNext

(* Rotation first (client.rs:341-343) and numbers taken before the sends   *)
(* suffice: an acceleration never meets the rotation of a later sample,    *)
(* and that of an earlier one only where a datagram is missing.            *)
THEOREM RotationFirst == WoSpec => []AccelMeetsItsRotation
<1>1. WoIInv => AccelMeetsItsRotation
  BY DEF WoIInv
<1> QED BY <1>1, WoInitIInv, WoNextIInv, PTL DEF WoSpec

-----------------------------------------------------------------------------
(* Fields inside a message of len bytes, and fields no two of which share  *)
(* a byte.                                                                 *)
Inside(fields, len) == \A f \in DOMAIN fields : fields[f] \subseteq 0..(len - 1)
Apart(fields) == \A f, g \in DOMAIN fields : f # g => fields[f] \cap fields[g] = {}
Sound(fields, len) == Inside(fields, len) /\ Apart(fields)

(* What refuses reads nothing; what wants a length, only within it. *)
LEMMA RefusedSound == \A len : Sound(Refused, len)
BY DEF Sound, Inside, Apart, Refused

LEMMA AtLeastSound ==
  ASSUME NEW len, NEW min, NEW fields, len >= min => Sound(fields, len)
  PROVE  Sound(AtLeast(len, min, fields), len)
BY RefusedSound DEF AtLeast

(* Two records joined, when no byte is in both. *)
LEMMA JoinedSound ==
  ASSUME NEW f, NEW g, NEW len, Sound(f, len), Sound(g, len),
         \A x \in DOMAIN f, y \in DOMAIN g : f[x] \cap g[y] = {}
  PROVE  Sound(Joined(f, g), len)
BY DEF Joined, Sound, Inside, Apart

(* Wherever a Sony controller's report has its IMU (ImuOffsets). *)
LEMMA SonySound == ASSUME NEW kind \in Sony, NEW len \in Nat PROVE Sound(SonyReport(kind, len), len)
<1>1. CASE ImuOffsets(kind, len) = {}
  BY <1>1, RefusedSound DEF SonyReport
<1>2. CASE ImuOffsets(kind, len) # {}
  <2> DEFINE o == CHOOSE x \in ImuOffsets(kind, len) : TRUE
             f == [gyro |-> Triple(o.gyro), accel |-> Triple(o.accel), battery |-> {o.battery}]
             g == Joined(SensorTimestamp(kind, o), PsButton(o))
  <2>1. PICK at \in 13..17, end \in 30..54 :
          /\ o.gyro = at /\ o.accel = at + 6 /\ o.buttons_2 = at - 6 /\ o.battery = end
          /\ end \in {at + 17, at + 37} /\ (kind \in DualSenses => end = at + 37)
    BY <1>2 DEF ImuOffsets, Offsets, DualSenses
  <2>2. len >= 64
    BY <1>2 DEF ImuOffsets
  <2> HIDE DEF o
  <2>3. /\ DOMAIN f = {"gyro", "accel", "battery"}
        /\ f.gyro = at .. at + 5 /\ f.accel = at + 6 .. at + 11 /\ f.battery = {end}
    BY <2>1 DEF Triple, Bytes
  <2>4. /\ DOMAIN g \subseteq {"timestamp", "ps_button"} /\ g.ps_button = {at - 6}
        /\ "timestamp" \in DOMAIN g => g.timestamp = at + 12 .. at + 15 /\ end = at + 37
    BY <2>1 DEF SensorTimestamp, PsButton, Joined, Bytes
  <2>5. SonyReport(kind, len) = Joined(f, g)
    BY <1>2 DEF SonyReport, o
  <2> HIDE DEF f, g
  <2>6. Sound(f, len)
    <3>1. Inside(f, len)
      BY <2>1, <2>2, <2>3, SMTT(30) DEF Inside
    <3>2. Apart(f)
      BY <2>1, <2>3 DEF Apart
    <3> QED BY <3>1, <3>2 DEF Sound
  <2>7. Sound(g, len)
    BY <2>1, <2>2, <2>4 DEF Sound, Inside, Apart
  <2>8. \A x \in DOMAIN f, y \in DOMAIN g : f[x] \cap g[y] = {}
    BY <2>1, <2>3, <2>4
  <2>9. Sound(Joined(f, g), len)
    BY ONLY <2>6, <2>7, <2>8, JoinedSound
  <2> QED BY ONLY <2>5, <2>9, ZenonT(60)
<1> QED BY <1>1, <1>2

LEMMA PsMoveSound == ASSUME NEW kind, NEW len \in Nat PROVE Sound(PsMoveReport(kind, len), len)
<1> DEFINE f == [accel_a |-> Triple(13), accel_b |-> Triple(19), gyro_a |-> Triple(25),
                 gyro_b |-> Triple(31), battery |-> {12}]
           g == IF kind = "zcm1" THEN [mag |-> Bytes(38, 5)] ELSE << >>
<1>1. ASSUME len >= 49 PROVE Sound(f, len)
  BY <1>1 DEF Sound, Inside, Apart, Triple, Bytes
<1>2. ASSUME len >= 49 PROVE Sound(g, len)
  BY <1>2 DEF Sound, Inside, Apart, Bytes
<1>3. \A x \in DOMAIN f, y \in DOMAIN g : f[x] \cap g[y] = {}
  <2>1. \A x \in DOMAIN f : f[x] \subseteq 0..37
    BY DEF Triple, Bytes
  <2>2. \A y \in DOMAIN g : g[y] = 38..42
    BY DEF Bytes
  <2> HIDE DEF f, g
  <2> QED BY <2>1, <2>2
<1>4. PsMoveReport(kind, len) = AtLeast(len, 49, Joined(f, g))
  BY DEF PsMoveReport
<1> HIDE DEF f, g
<1> QED BY <1>1, <1>2, <1>3, <1>4, JoinedSound, AtLeastSound

(* A hello with a name as long as it says, and a time after it if there is *)
(* room.                                                                   *)
LEMMA HelloSound == ASSUME NEW len \in Nat, NEW name \in Nat PROVE Sound(Hello(len, name), len)
<1>1. CASE len < Header + 17 + name
  BY <1>1, RefusedSound DEF Hello, Header
<1>2. CASE len >= Header + 17 + name
  <2> DEFINE f == [uuid |-> Payload(0, 16), size |-> Payload(16, 1), name |-> Payload(17, name)]
             g == IF len - (Header + 17 + name) >= 8 THEN [ts |-> Payload(17 + name, 8)] ELSE << >>
             end == Header + 17 + name
  <2>1. /\ DOMAIN f = {"uuid", "size", "name"}
        /\ f.uuid = Header .. Header + 15 /\ f.size = Header + 16 .. Header + 16
        /\ f.name = Header + 17 .. end - 1
    BY DEF Payload, Bytes, Header
  <2>2. \A y \in DOMAIN g : y = "ts" /\ g[y] = end .. end + 7 /\ end + 7 <= len - 1
    BY <1>2 DEF Payload, Bytes, Header
  <2>3. end \in Nat /\ end >= Header + 17 /\ len >= end /\ Header \in Nat
    BY <1>2 DEF Header
  <2>4. Hello(len, name) = Joined(f, g)
    BY <1>2 DEF Hello, Header
  <2> HIDE DEF f, g, end
  <2>5. \A x \in DOMAIN f : f[x] \subseteq 0 .. end - 1
    BY <2>1, <2>3
  <2>6. Inside(f, len) /\ Apart(f)
    BY <2>1, <2>3, <2>5 DEF Inside, Apart
  <2>7. Inside(g, len) /\ Apart(g)
    BY <2>2, <2>3 DEF Inside, Apart
  <2>8. \A x \in DOMAIN f, y \in DOMAIN g : f[x] \cap g[y] = {}
    BY <2>2, <2>3, <2>5
  <2> QED BY <2>4, <2>6, <2>7, <2>8, JoinedSound DEF Sound
<1> QED BY <1>1, <1>2 DEF Header

LEMMA FactoryBlobSound == ASSUME NEW len \in Nat PROVE Sound(FactoryBlob(len), len)
<1> DEFINE s == [accel |-> Bytes(2, 6 * 6), gyro_bias |-> Triple(38),
     turn_x |-> Bytes(48, 2), turn_y |-> Bytes(48 + 6 + 2, 2), turn_z |-> Bytes(48 + 12 + 4, 2)]
<1>1. /\ DOMAIN s = {"accel", "gyro_bias", "turn_x", "turn_y", "turn_z"}
      /\ s.accel = 2..37 /\ s.gyro_bias = 38..43 /\ s.turn_x = 48..49 /\ s.turn_y = 56..57
      /\ s.turn_z = 64..65
  BY DEF Triple, Bytes
<1>2. FactoryBlob(len) = AtLeast(len, 66, s)
  BY DEF FactoryBlob
<1> HIDE DEF s
<1>3. ASSUME len >= 66 PROVE Sound(s, len)
  BY <1>1, <1>3 DEF Sound, Inside, Apart
<1> QED BY <1>2, <1>3, AtLeastSound

(* Of a burst, the samples follow each other, 45 bytes each. *)
LEMMA ImuSound ==
  ASSUME NEW len \in Nat, NEW extra \in {0, 2}, NEW count \in Nat
  PROVE  Sound(ImuSamples(len, extra, count), len)
<1>1. CASE len < Header + 3 + extra + 45 * count
  BY <1>1, RefusedSound DEF ImuSamples
<1>2. CASE len >= Header + 3 + extra + 45 * count
  <2> DEFINE head == [handle |-> Payload(0, 2), seq |-> Payload(2, extra), count |-> Payload(2 + extra, 1)]
             s == ImuSamples(len, extra, count)
  <2>1. s = [f \in {0} \X DOMAIN head \cup (1..count) \X DOMAIN Sample(0) |->
               IF f[1] = 0 THEN head[f[2]] ELSE Sample(3 + extra + 45 * (f[1] - 1))[f[2]]]
    BY <1>2 DEF ImuSamples, Header
  <2>2. \A x \in DOMAIN head : head[x] \subseteq 0 .. Header + 2 + extra
    BY DEF Payload, Bytes, Header
  <2>3. Apart(head)
    BY DEF Apart, Payload, Bytes, Header
  <2>4. ASSUME NEW n \in Nat
        PROVE  /\ DOMAIN Sample(n) = {"ts", "gyro", "accel", "has_mag", "mag"}
               /\ Apart(Sample(n))
               /\ \A x \in DOMAIN Sample(n) : Sample(n)[x] \subseteq Header + n .. Header + n + 44
    BY SMTT(30) DEF Sample, Apart, Payload, Bytes, Header
  <2> DEFINE at(k) == 3 + extra + 45 * (k - 1)
  <2>5. \A k \in 1..count : at(k) \in Nat /\ Header + at(k) + 44 <= len - 1 /\ at(k) >= 3 + extra
    BY <1>2 DEF Header
  <2>6. \A j, k \in 1..count : j # k => at(j) + 44 < at(k) \/ at(k) + 44 < at(j)
    OBVIOUS
  <2> HIDE DEF head, s, at
  <2>7. ASSUME NEW f \in DOMAIN s
        PROVE  \/ f[1] = 0 /\ f[2] \in DOMAIN head /\ s[f] = head[f[2]] /\ f = <<f[1], f[2]>>
               \/ /\ f[1] \in 1..count /\ f[2] \in DOMAIN Sample(at(f[1])) /\ f = <<f[1], f[2]>>
                  /\ s[f] = Sample(at(f[1]))[f[2]]
                  /\ s[f] \subseteq Header + at(f[1]) .. Header + at(f[1]) + 44
    <3>1. CASE f \in {0} \X DOMAIN head
      BY <2>1, <3>1
    <3>2. CASE f \in (1..count) \X DOMAIN Sample(0)
      <4>1. f[1] \in 1..count /\ f[1] # 0 /\ f[2] \in DOMAIN Sample(0) /\ f = <<f[1], f[2]>>
        BY <3>2
      <4>2. s[f] = Sample(at(f[1]))[f[2]]
        BY <2>1, <4>1 DEF at
      <4>3. at(f[1]) \in Nat
        BY <2>5, <4>1
      <4> QED BY <2>4, <4>1, <4>2, <4>3
    <3> QED BY <2>1, <3>1, <3>2
  <2>8. Inside(s, len)
    <3> SUFFICES ASSUME NEW f \in DOMAIN s PROVE s[f] \subseteq 0..(len - 1)
      BY DEF Inside
    <3> QED BY <2>7, <2>2, <2>5, <1>2 DEF Header
  <2>9. Apart(s)
    <3> SUFFICES ASSUME NEW f \in DOMAIN s, NEW g \in DOMAIN s, f # g PROVE s[f] \cap s[g] = {}
      BY DEF Apart
    <3>1. CASE f[1] = 0 /\ g[1] = 0
      BY <3>1, <2>7, <2>3 DEF Apart
    <3>2. CASE f[1] = 0 /\ g[1] # 0
      BY <3>2, <2>7, <2>2, <2>5 DEF Header
    <3>3. CASE f[1] # 0 /\ g[1] = 0
      BY <3>3, <2>7, <2>2, <2>5 DEF Header
    <3>4. CASE f[1] # 0 /\ g[1] # 0 /\ f[1] = g[1]
      BY <3>4, <2>7, <2>4, <2>5 DEF Apart
    <3>5. CASE f[1] # 0 /\ g[1] # 0 /\ f[1] # g[1]
      BY <3>5, <2>7, <2>6, <2>5 DEF Header
    <3> QED BY <3>1, <3>2, <3>3, <3>4, <3>5
  <2> QED BY <2>8, <2>9 DEF Sound, s
<1> QED BY <1>1, <1>2 DEF Header

(* PartAt, unfolded as far as a bundle of two needs: the function the      *)
(* CHOOSE stands for exists, and its first values follow.                  *)
LEMMA FirstPart == \A claims : PartAt(claims, 1) = 12
<1> SUFFICES ASSUME NEW claims PROVE PartAt(claims, 1) = 12
  OBVIOUS
<1> DEFINE P(A) == A = [i \in 0..(1 - 1) |-> IF i = 0 THEN SlimeHeader ELSE A[i - 1] + 2 + claims[i]]
           After == CHOOSE A : P(A)
<1>1. PartAt(claims, 1) = After[1 - 1]
  BY DEF PartAt
<1>2. P([i \in 0..0 |-> 12])
  BY DEF SlimeHeader
<1>3. P(After)
  <2> HIDE DEF P
  <2> QED BY <1>2
<1> HIDE DEF After
<1> QED BY <1>1, <1>3 DEF SlimeHeader

LEMMA SecondPart ==
  ASSUME NEW claims, claims[1] \in Nat
  PROVE  PartAt(claims, 2) = 14 + claims[1]
<1> DEFINE P(A) == A = [i \in 0..(2 - 1) |-> IF i = 0 THEN SlimeHeader ELSE A[i - 1] + 2 + claims[i]]
           After == CHOOSE A : P(A)
           W == [i \in 0..1 |-> IF i = 0 THEN 12 ELSE 14 + claims[1]]
<1>1. PartAt(claims, 2) = After[2 - 1]
  BY DEF PartAt
<1>2. P(W)
  <2>1. \A i \in 0..1 : W[i] = IF i = 0 THEN SlimeHeader ELSE W[i - 1] + 2 + claims[i]
    BY DEF SlimeHeader
  <2> QED BY <2>1
<1>3. P(After)
  <2> HIDE DEF P
  <2> QED BY <1>2
<1> HIDE DEF After
<1>4. After[0] = 12 /\ After[1] = After[0] + 2 + claims[1]
  BY <1>3 DEF SlimeHeader
<1> QED BY <1>1, <1>4

LEMMA ThirdPart ==
  ASSUME NEW claims, claims[1] \in Nat, claims[2] \in Nat
  PROVE  PartAt(claims, 3) = 16 + claims[1] + claims[2]
<1> DEFINE P(A) == A = [i \in 0..(3 - 1) |-> IF i = 0 THEN SlimeHeader ELSE A[i - 1] + 2 + claims[i]]
           After == CHOOSE A : P(A)
           W == [i \in 0..2 |-> IF i = 0 THEN 12 ELSE IF i = 1 THEN 14 + claims[1]
                                                   ELSE 16 + claims[1] + claims[2]]
<1>1. PartAt(claims, 3) = After[3 - 1]
  BY DEF PartAt
<1>2. P(W)
  <2>1. \A i \in 0..2 : W[i] = IF i = 0 THEN SlimeHeader ELSE W[i - 1] + 2 + claims[i]
    BY DEF SlimeHeader
  <2> QED BY <2>1
<1>3. P(After)
  <2> HIDE DEF P
  <2> QED BY <1>2
<1> HIDE DEF After
<1>4. After[0] = 12 /\ After[1] = After[0] + 2 + claims[1] /\ After[2] = After[1] + 2 + claims[2]
  BY <1>3 DEF SlimeHeader
<1> QED BY <1>1, <1>4

LEMMA WindowsInside ==
  ASSUME NEW len \in Nat, NEW first \in Nat, NEW size \in Nat \ {0}, len >= first + size
  PROVE  Windows(len, first, size) \subseteq 0..(len - 1)
BY DEF Windows, Bytes

(* A scan's windows end where the report does. *)
LEMMA ScansInside ==
  ASSUME NEW len \in Nat
  PROVE  /\ Inside(Advert(len), len) /\ Inside(ContainsAddr(len), len)
         /\ Inside(FlashMagBias(len), len) /\ Inside(FlashPid(len), len)
<1>1. Inside(Advert(len), len)
  BY DEF Inside, Advert, AtLeast, Refused, Bytes
<1>2. Inside(ContainsAddr(len), len)
  BY WindowsInside DEF Inside, ContainsAddr, AtLeast, Refused
<1>3. Inside(FlashMagBias(len), len)
  BY WindowsInside DEF Inside, FlashMagBias, AtLeast, Refused
<1>4. Inside(FlashPid(len), len)
  BY WindowsInside DEF Inside, FlashPid, AtLeast, Refused
<1> QED BY <1>1, <1>2, <1>3, <1>4

LEMMA ClientboundSound ==
  ASSUME NEW packet \in ServerTags, NEW len \in Nat
  PROVE  Sound(Clientbound(packet, len), len)
<1>1. CASE packet \in {"flags", "hey"}
  BY <1>1, SMTT(30) DEF Clientbound, Sound, Inside, Apart, AtLeast, Refused, SlimeHeader
<1>2. CASE packet \in {"ping", "heartbeat", "discovery", "config"}
  <2> DEFINE n == [ping |-> 4, heartbeat |-> 0, discovery |-> 0, config |-> 4][packet]
             s == [tag |-> Bytes(0, 4), seq |-> Bytes(4, 8), body |-> Bytes(12, n)]
  <2>1. n \in Nat
    BY <1>2
  <2>2. Clientbound(packet, len) = IF len = 12 + n THEN s ELSE Refused
    BY <1>2 DEF Clientbound, SlimeHeader
  <2> HIDE DEF n
  <2>3. ASSUME len = 12 + n PROVE Sound(s, len)
    <3>1. /\ DOMAIN s = {"tag", "seq", "body"} /\ s.tag = 0..3 /\ s.seq = 4..11
          /\ s.body = 12 .. 11 + n
      BY <2>1 DEF Bytes
    <3> HIDE DEF s
    <3>2. Inside(s, len)
      BY <2>1, <2>3, <3>1, SMTT(30) DEF Inside
    <3>3. Apart(s)
      BY <2>1, <3>1, SMTT(30) DEF Apart
    <3> QED BY <3>2, <3>3 DEF Sound
  <2> QED BY <2>2, <2>3, RefusedSound
<1> QED BY <1>1, <1>2 DEF ServerTags

(* A packet's length, where its fields leave no byte out. *)
LEMMA SizeIs ==
  ASSUME NEW fields, NEW n \in Nat, Inside(fields, n),
         \A b \in 0..(n - 1) : \E f \in DOMAIN fields : b \in fields[f]
  PROVE  SizeOf(fields) = n
<1>1. UNION {fields[f] : f \in DOMAIN fields} = 0..(n - 1)
  BY DEF Inside
<1>2. Cardinality(0..(n - 1)) = n
  BY FS_Interval
<1> QED BY <1>1, <1>2 DEF SizeOf

BodySize(packet) ==
  CASE packet = "heartbeat" -> 1 [] packet = "acceleration" -> 13 [] packet = "magnetometer" -> 15
    [] packet = "ping" -> 4 [] packet = "battery_level" -> 8 [] packet = "sensor_info" -> 8
    [] packet = "rotation" -> 19 [] packet = "user_action" -> 1 [] packet = "ack_config" -> 3

LEMMA BodySound ==
  ASSUME NEW packet \in SlimePackets
  PROVE  /\ BodySize(packet) \in Nat
         /\ BodyLen(packet) = BodySize(packet) /\ Sound(Body(packet), BodyLen(packet))
<1> DEFINE Whole(p) == /\ BodySize(p) \in Nat /\ Sound(Body(p), BodySize(p))
                       /\ \A b \in 0..(BodySize(p) - 1) : \E f \in DOMAIN Body(p) : b \in Body(p)[f]
<1>1. Whole("heartbeat") /\ Whole("ping") /\ Whole("user_action")
  BY DEF Sound, Inside, Apart, Body, BodySize, Bytes
<1>2. Whole("acceleration")
  BY DEF Sound, Inside, Apart, Body, BodySize, Floats, Bytes
<1>3. Whole("magnetometer")
  BY DEF Sound, Inside, Apart, Body, BodySize, Floats, Bytes
<1>4. Whole("battery_level") /\ Whole("ack_config")
  BY DEF Sound, Inside, Apart, Body, BodySize, Floats, Bytes
<1>5. Whole("sensor_info")
  BY DEF Sound, Inside, Apart, Body, BodySize, Floats, Bytes
<1>6. Whole("rotation")
  BY DEF Sound, Inside, Apart, Body, BodySize, Floats, Bytes
<1>7. Whole(packet)
  <2> HIDE DEF Whole
  <2> QED BY <1>1, <1>2, <1>3, <1>4, <1>5, <1>6 DEF SlimePackets
<1> HIDE DEF BodySize
<1> QED BY <1>7, SizeIs DEF Sound, BodyLen

LEMMA HandshakeSound ==
  ASSUME NEW n \in Nat
  PROVE  SizeOf(Handshake(n)) = 35 + n /\ Sound(Handshake(n), 35 + n)
<1> DEFINE f == Body("handshake")
           g == [name |-> Bytes(29, n), mac |-> Bytes(29 + n, 6)]
<1>1. f = [board |-> Bytes(0, 4), imu |-> Bytes(4, 4), mcu |-> Bytes(8, 4), info |-> Floats(12),
          version |-> Bytes(24, 4), count |-> {28}]
  BY DEF Body
<1>2. /\ DOMAIN f = {"board", "imu", "mcu", "info", "version", "count"}
      /\ f.board = 0..3 /\ f.imu = 4..7 /\ f.mcu = 8..11 /\ f.info = 12..23 /\ f.version = 24..27
      /\ f.count = 28..28
  BY <1>1 DEF Bytes, Floats
<1>3. DOMAIN g = {"name", "mac"} /\ g.name = 29..28 + n /\ g.mac = 29 + n .. 34 + n
  BY DEF Bytes
<1>4. Handshake(n) = Joined(f, g)
  BY DEF Handshake
<1> HIDE DEF f, g
<1>5. Sound(f, 35 + n) /\ \A x \in DOMAIN f : f[x] \subseteq 0..28
  BY <1>2 DEF Sound, Inside, Apart
<1>6. Sound(g, 35 + n) /\ \A y \in DOMAIN g : g[y] \subseteq 29 .. 34 + n
  BY <1>3 DEF Sound, Inside, Apart
<1>7. Sound(Handshake(n), 35 + n)
  BY <1>4, <1>5, <1>6, JoinedSound
<1>8. \A b \in 0..(34 + n) : (\E x \in DOMAIN f : b \in f[x]) \/ (\E y \in DOMAIN g : b \in g[y])
  <2>1. \A b \in 0..28 : \E x \in DOMAIN f : b \in f[x]
    BY <1>2
  <2>2. \A b \in 29..(34 + n) : \E y \in DOMAIN g : b \in g[y]
    BY <1>3
  <2> QED BY <2>1, <2>2
<1>9. \A b \in 0..(34 + n) : \E x \in DOMAIN Handshake(n) : b \in Handshake(n)[x]
  <2> TAKE b \in 0..(34 + n)
  <2>1. CASE \E x \in DOMAIN f : b \in f[x]
    <3>1. PICK x \in DOMAIN f : b \in f[x]
      BY <2>1
    <3>2. x \in DOMAIN Handshake(n) /\ Handshake(n)[x] = f[x]
      BY ONLY <1>4, <3>1 DEF Joined
    <3> QED BY <3>1, <3>2
  <2>2. CASE \E y \in DOMAIN g : b \in g[y]
    <3>1. PICK y \in DOMAIN g : b \in g[y]
      BY <2>2
    <3>2. y \notin DOMAIN f
      BY <1>2, <1>3, <3>1
    <3>3. y \in DOMAIN Handshake(n) /\ Handshake(n)[y] = g[y]
      BY ONLY <1>4, <3>1, <3>2 DEF Joined
    <3> QED BY <3>1, <3>3
  <2> QED BY <1>8, <2>1, <2>2
<1> QED BY <1>7, <1>9, SizeIs DEF Sound

LEMMA InnerApart ==
  ASSUME NEW at \in Nat, NEW c \in Nat, c >= 4, NEW claims, NEW k,
         PartAt(claims, k) = at, claims[k] = c
  PROVE  /\ DOMAIN Inner(claims, k) = InnerFields
         /\ Apart(Inner(claims, k))
         /\ \A f \in InnerFields : Inner(claims, k)[f] \subseteq at .. at + 1 + c
BY DEF Inner, InnerFields, Apart, Bytes

(* Whatever the inner packets claim, those taken end before the datagram. *)
LEMMA BundleSound ==
  ASSUME NEW len \in Nat, NEW n \in 0..2, NEW claims \in [1..n -> Nat]
  PROVE  Sound(Bundle(len, claims), len)
<1> DEFINE Fits(k) == /\ len >= PartAt(claims, k) + 6
                      /\ claims[k] >= 4
                      /\ len >= PartAt(claims, k) + 2 + claims[k]
           ends == {m \in 0..Len(claims) : /\ \A k \in 1..m : Fits(k)
                                           /\ PartAt(Append(claims, 0), m + 1) = len}
           last == CHOOSE m \in ends : TRUE
           s == [f \in {<<k, name>> : k \in 1..last, name \in InnerFields} |->
                   Inner(claims, f[1])[f[2]]]
<1>1. Bundle(len, claims) = IF len < SlimeHeader \/ ends = {} THEN Refused ELSE s
  BY DEF Bundle
<1>2. CASE len < SlimeHeader \/ ends = {}
  BY <1>1, <1>2, RefusedSound
<1>3. CASE ~(len < SlimeHeader \/ ends = {})
  <2>1. last \in 0..n /\ \A k \in 1..last : Fits(k)
    <3>1. last \in ends
      BY <1>3
    <3>2. Len(claims) = n
      OBVIOUS
    <3> HIDE DEF Fits, last
    <3> QED BY <3>1, <3>2
  <2> HIDE DEF last, ends
  <2>2. \A k \in 1..last : /\ PartAt(claims, k) \in Nat /\ claims[k] \in Nat
                           /\ (k = 1 \/ (k = 2 /\ PartAt(claims, k) = PartAt(claims, 1) + 2 + claims[1]))
    <3> SUFFICES ASSUME NEW k \in 1..last
                 PROVE  /\ PartAt(claims, k) \in Nat /\ claims[k] \in Nat
                        /\ (k = 1 \/ (k = 2 /\ PartAt(claims, k) = PartAt(claims, 1) + 2 + claims[1]))
      OBVIOUS
    <3>1. (k = 1 \/ k = 2) /\ k \in 1..n
      BY <2>1
    <3>2. claims[1] \in Nat /\ claims[k] \in Nat
      BY <3>1
    <3>3. PartAt(claims, 1) = 12 /\ PartAt(claims, 2) = 14 + claims[1]
      BY <3>2, FirstPart, SecondPart
    <3>4. CASE k = 1
      BY <3>2, <3>3, <3>4
    <3>5. CASE k = 2
      BY <3>2, <3>3, <3>5
    <3> QED BY <3>1, <3>4, <3>5
  <2>3. \A k \in 1..last : /\ DOMAIN Inner(claims, k) = InnerFields
                           /\ Apart(Inner(claims, k))
                           /\ \A f \in InnerFields : Inner(claims, k)[f] \subseteq
                                PartAt(claims, k) .. PartAt(claims, k) + 1 + claims[k]
    BY <2>1, <2>2, InnerApart
  <2>4. ASSUME NEW f \in DOMAIN s
        PROVE  /\ f[1] \in 1..last /\ f[2] \in InnerFields /\ f = <<f[1], f[2]>>
               /\ s[f] = Inner(claims, f[1])[f[2]]
    OBVIOUS
  <2> HIDE DEF s
  <2>5. Inside(s, len)
    <3> SUFFICES ASSUME NEW f \in DOMAIN s PROVE s[f] \subseteq 0..(len - 1)
      BY DEF Inside
    <3>1. PICK k \in 1..last : k = f[1]
      BY <2>4
    <3>2. s[f] \subseteq PartAt(claims, k) .. PartAt(claims, k) + 1 + claims[k]
      BY <2>3, <2>4, <3>1
    <3>3. PartAt(claims, k) \in Nat /\ claims[k] \in Nat /\ len >= PartAt(claims, k) + 2 + claims[k]
      BY <2>1, <2>2
    <3>4. \A at \in Nat, c \in Nat : len >= at + 2 + c => at .. at + 1 + c \subseteq 0..(len - 1)
      OBVIOUS
    <3> QED BY ONLY <3>2, <3>3, <3>4
  <2>6. ASSUME NEW f \in DOMAIN s, NEW g \in DOMAIN s, f # g
        PROVE  s[f] \cap s[g] = {}
    <3>1. CASE f[1] = g[1]
      BY <3>1, <2>6, <2>3, <2>4 DEF Apart
    <3>2. CASE f[1] # g[1]
      <4>1. {f[1], g[1]} = {1, 2} /\ last = 2
        BY <3>2, <2>1, <2>4, SMTT(30)
      <4>2. /\ s[f] \subseteq PartAt(claims, f[1]) .. PartAt(claims, f[1]) + 1 + claims[f[1]]
            /\ s[g] \subseteq PartAt(claims, g[1]) .. PartAt(claims, g[1]) + 1 + claims[g[1]]
        BY <2>3, <2>4
      <4>3. /\ PartAt(claims, 1) \in Nat /\ claims[1] \in Nat /\ claims[2] \in Nat
            /\ PartAt(claims, 2) = PartAt(claims, 1) + 2 + claims[1]
        BY <4>1, <2>2
      <4>4. \/ f[1] = 1 /\ g[1] = 2
            \/ f[1] = 2 /\ g[1] = 1
        BY <4>1, <3>2
      <4>5. CASE f[1] = 1 /\ g[1] = 2
        BY <4>2, <4>3, <4>5
      <4>6. CASE f[1] = 2 /\ g[1] = 1
        BY <4>2, <4>3, <4>6
      <4> QED BY <4>4, <4>5, <4>6
    <3> QED BY <3>1, <3>2
  <2> QED BY <1>1, <1>3, <2>5, <2>6 DEF Sound, Apart
<1> QED BY <1>2, <1>3

(* The first n inner packets at the places that claims give them. *)
Parts(claims, n) ==
  [f \in {<<k, name>> : k \in 1..n, name \in InnerFields} |-> Inner(claims, f[1])[f[2]]]

(* What encode_bundle writes is laid out by the lengths it puts down. *)
LEMMA SentAt ==
  ASSUME NEW n \in 1..2, NEW packets \in [1..n -> Motion]
  PROVE  /\ \A k \in 1..n : Claims(packets)[k] \in {17, 23}
         /\ DOMAIN Claims(packets) = 1..n
         /\ BundleSent(packets).len = PartAt(Claims(packets), n) + 2 + Claims(packets)[n]
         /\ BundleSent(packets).fields = Parts(Claims(packets), n)
<1> DEFINE c == Claims(packets)
           P(A) == A = [k \in 1..(Len(packets) + 1) |->
                          IF k = 1 THEN SlimeHeader ELSE A[k - 1] + 6 + BodyLen(packets[k - 1])]
           At == CHOOSE A : P(A)
           inner(k) == [size |-> Bytes(At[k], 2), type |-> Bytes(At[k] + 2, 4),
                        payload |-> Bytes(At[k] + 6, BodyLen(packets[k]))]
<1>1. BundleSent(packets) =
        [len |-> At[Len(packets) + 1],
         fields |-> [f \in {<<k, name>> : k \in DOMAIN packets, name \in InnerFields} |->
                     inner(f[1])[f[2]]]]
  BY DEF BundleSent
<1>2. Len(packets) = n /\ DOMAIN packets = 1..n
  OBVIOUS
<1>3. \A k \in 1..n : BodyLen(packets[k]) \in {13, 19}
  <2>1. \A p \in Motion : BodyLen(p) \in {13, 19}
    BY BodySound DEF Motion, SlimePackets, BodySize
  <2> QED BY <2>1
<1>4. P(At)
  <2> DEFINE W == [k \in 1..(n + 1) |-> IF k = 1 THEN 12 ELSE IF k = 2 THEN 18 + BodyLen(packets[1])
                                        ELSE 24 + BodyLen(packets[1]) + BodyLen(packets[2])]
  <2>1. \A k \in 1..(n + 1) : W[k] = IF k = 1 THEN SlimeHeader ELSE W[k - 1] + 6 + BodyLen(packets[k - 1])
    BY <1>3 DEF SlimeHeader
  <2>2. P(W)
    BY <1>2, <2>1, SMTT(30)
  <2> HIDE DEF P, W
  <2> QED BY <2>2
<1> HIDE DEF At
<1>5. DOMAIN c = 1..n /\ \A k \in 1..n : c[k] = 4 + BodyLen(packets[k]) /\ c[k] \in {17, 23}
  BY <1>2, <1>3 DEF Claims
<1> HIDE DEF c
<1>6. At[1] = 12 /\ \A k \in 2..(n + 1) : At[k] = At[k - 1] + 6 + BodyLen(packets[k - 1])
  BY <1>2, <1>4 DEF SlimeHeader
<1>7. /\ \A k \in 1..n : At[k] = PartAt(c, k)
      /\ At[n + 1] = PartAt(c, n) + 2 + c[n]
  <2>1. PartAt(c, 1) = 12 /\ At[2] = 12 + 2 + c[1]
    BY <1>3, <1>5, <1>6, FirstPart
  <2>2. ASSUME n = 2 PROVE PartAt(c, 2) = At[2] /\ At[3] = PartAt(c, 2) + 2 + c[2]
    <3>1. PartAt(c, 2) = 14 + c[1]
      BY <1>5, SecondPart
    <3>2. At[3] = At[2] + 6 + BodyLen(packets[2]) /\ c[2] = 4 + BodyLen(packets[2])
      BY <1>5, <1>6, <2>2
    <3>3. BodyLen(packets[2]) \in Nat /\ c[1] \in Nat
      BY <1>3, <1>5, <2>2
    <3>4. \A a, b \in Nat : a + 6 + b = a + 2 + (4 + b)
      OBVIOUS
    <3>5. At[2] = 14 + c[1] /\ At[2] \in Nat
      BY <2>1, <3>3
    <3>6. PartAt(c, 2) = At[2]
      BY ONLY <3>1, <3>5
    <3> QED BY ONLY <3>2, <3>3, <3>4, <3>5, <3>6, Zenon
  <2>3. CASE n = 1
    BY <1>6, <2>1, <2>3
  <2>4. CASE n = 2
    BY <1>6, <2>1, <2>2, <2>4
  <2> QED BY <2>3, <2>4
<1>8. \A k \in 1..n : inner(k) = Inner(c, k)
  <2> SUFFICES ASSUME NEW k \in 1..n PROVE inner(k) = Inner(c, k)
    OBVIOUS
  <2>1. At[k] = PartAt(c, k) /\ BodyLen(packets[k]) = c[k] - 4
    BY <1>3, <1>5, <1>7
  <2> QED BY <2>1 DEF Inner
<1> HIDE DEF inner
<1> QED BY <1>1, <1>2, <1>5, <1>7, <1>8 DEF c, Parts

(* So decode_bundle, by those lengths, finds every packet and the end. *)
LEMMA BundleRead ==
  ASSUME NEW n \in 1..2, NEW packets \in [1..n -> Motion]
  PROVE  /\ Bundle(BundleSent(packets).len, Claims(packets)) = BundleSent(packets).fields
         /\ BundleSent(packets).len \in Nat
         /\ Claims(packets) \in [1..n -> Nat]
<1>0. /\ \A k \in 1..n : Claims(packets)[k] \in {17, 23}
      /\ DOMAIN Claims(packets) = 1..n
      /\ BundleSent(packets).len = PartAt(Claims(packets), n) + 2 + Claims(packets)[n]
      /\ BundleSent(packets).fields = Parts(Claims(packets), n)
  BY SentAt
<1> DEFINE c == Claims(packets)
           len == BundleSent(packets).len
           Fits(k) == /\ len >= PartAt(c, k) + 6
                      /\ c[k] >= 4
                      /\ len >= PartAt(c, k) + 2 + c[k]
           ends == {m \in 0..Len(c) : /\ \A k \in 1..m : Fits(k)
                                      /\ PartAt(Append(c, 0), m + 1) = len}
<1>1. /\ \A k \in 1..n : c[k] \in {17, 23}
      /\ DOMAIN c = 1..n /\ len = PartAt(c, n) + 2 + c[n]
  BY <1>0
<1>12. c \in [1..n -> Nat]
  <2>1. c = [k \in 1..n |-> c[k]]
    BY DEF Claims
  <2> HIDE DEF c
  <2> QED BY <1>1, <2>1
<1>2. Bundle(len, c) =
        IF len < SlimeHeader \/ ends = {} THEN Refused
        ELSE Parts(c, CHOOSE m \in ends : TRUE)
  BY DEF Bundle, Parts
<1>3. BundleSent(packets).fields = Parts(c, n)
  BY <1>0
<1> HIDE DEF c, len
<1> DEFINE d == Append(c, 0)
<1>4. Len(c) = n /\ \A k \in 1..n : d[k] = c[k]
  BY <1>12
<1>5. PartAt(c, 1) = 12 /\ PartAt(d, 1) = 12
  BY FirstPart
<1>6. PartAt(d, 2) = 14 + c[1]
  <2>1. c[1] \in Nat /\ d[1] = c[1]
    BY <1>1, <1>4
  <2> HIDE DEF d
  <2> QED BY <2>1, SecondPart
<1>7. n = 2 => PartAt(c, 2) = 14 + c[1] /\ PartAt(d, 3) = 16 + c[1] + c[2]
  <2> HAVE n = 2
  <2>1. c[1] \in Nat /\ c[2] \in Nat /\ d[1] = c[1] /\ d[2] = c[2]
    BY <1>1, <1>4
  <2> HIDE DEF d
  <2> QED BY <2>1, SecondPart, ThirdPart
<1> HIDE DEF d
<1>8. ends = {n}
  <2>1. CASE n = 1
    <3>1. len = 14 + c[1] /\ c[1] \in {17, 23}
      BY <1>1, <1>5, <2>1
    <3>2. Fits(1)
      BY <3>1, <1>5
    <3>3. \A m \in 0..1 : PartAt(d, m + 1) = len <=> m = 1
      BY <3>1, <1>5, <1>6
    <3> HIDE DEF Fits
    <3> QED BY <1>4, <2>1, <3>2, <3>3 DEF d
  <2>2. CASE n = 2
    <3>1. len = 16 + c[1] + c[2] /\ c[1] \in {17, 23} /\ c[2] \in {17, 23}
      BY <1>1, <1>7, <2>2
    <3>2. Fits(1) /\ Fits(2)
      BY <3>1, <1>5, <1>7, <2>2
    <3>3. \A m \in 0..2 : PartAt(d, m + 1) = len <=> m = 2
      BY <3>1, <1>5, <1>6, <1>7, <2>2
    <3> HIDE DEF Fits
    <3> QED BY <1>4, <2>2, <3>2, <3>3 DEF d
  <2> QED BY <2>1, <2>2
<1>9. len \in Nat /\ len >= SlimeHeader
  <2>1. CASE n = 1
    BY <1>1, <1>5, <2>1 DEF SlimeHeader
  <2>2. CASE n = 2
    BY <1>1, <1>7, <2>2 DEF SlimeHeader
  <2> QED BY <2>1, <2>2
<1> HIDE DEF ends
<1>10. (CHOOSE m \in ends : TRUE) = n
  BY <1>8
<1>11. Bundle(len, c) = BundleSent(packets).fields
  <2>1. ~(len < SlimeHeader \/ ends = {})
    BY <1>8, <1>9 DEF SlimeHeader
  <2> QED BY <1>2, <1>3, <1>10, <2>1
<1> QED BY <1>12, <1>9, <1>11 DEF c, len

(* The reports and commands that are written. *)
LEMMA OutputSound ==
  ASSUME NEW kind \in Sony, NEW bt \in BOOLEAN
  PROVE  Sound(OutputReport(kind, bt).fields, OutputReport(kind, bt).len)
<1>1. CASE kind \in DualSenses /\ ~bt
  <2>1. OutputReport(kind, bt) = [len |-> 48, fields |-> Ds5Payload(1)]
    BY <1>1 DEF OutputReport, DualSenses
  <2>2. Sound(Ds5Payload(1), 48)
    BY DEF Sound, Inside, Apart, Ds5Payload, Bytes
  <2> QED BY <2>1, <2>2
<1>2. CASE kind \in DualSenses /\ bt
  <2>1. OutputReport(kind, bt) = [len |-> 78, fields |-> Joined(Ds5Payload(2), Crc)]
    BY <1>2 DEF OutputReport, DualSenses
  <2>2. Sound(Ds5Payload(2), 78) /\ Sound(Crc, 78)
    BY DEF Sound, Inside, Apart, Ds5Payload, Crc, Bytes
  <2>3. \A x \in DOMAIN Ds5Payload(2), y \in DOMAIN Crc : Ds5Payload(2)[x] \cap Crc[y] = {}
    BY DEF Ds5Payload, Crc, Bytes
  <2> QED BY <2>1, <2>2, <2>3, JoinedSound
<1>3. CASE kind = "dualshock4" /\ ~bt
  <2> DEFINE f == [flags |-> {1}, motors |-> Bytes(4, 2), rgb |-> Bytes(6, 3)]
  <2>1. OutputReport(kind, bt) = [len |-> 32, fields |-> f]
    BY <1>3 DEF OutputReport, DualSenses
  <2>2. Sound(f, 32)
    BY DEF Sound, Inside, Apart, Bytes
  <2> QED BY <2>1, <2>2
<1>4. CASE kind = "dualshock4" /\ bt
  <2> DEFINE f == [flags |-> {3}, motors |-> Bytes(6, 2), rgb |-> Bytes(8, 3), mode |-> Bytes(1, 2)]
  <2>1. OutputReport(kind, bt) = [len |-> 78, fields |-> Joined(f, Crc)]
    BY <1>4 DEF OutputReport, DualSenses
  <2>2. Sound(f, 78) /\ Sound(Crc, 78)
    BY DEF Sound, Inside, Apart, Crc, Bytes
  <2>3. \A x \in DOMAIN f, y \in DOMAIN Crc : f[x] \cap Crc[y] = {}
    BY DEF Crc, Bytes
  <2> QED BY <2>1, <2>2, <2>3, JoinedSound
<1> QED BY <1>1, <1>2, <1>3, <1>4 DEF Sony

SoundReport(r) == Sound(r.fields, r.len)

LEMMA SwitchSound ==
  /\ \A data \in Nat : SoundReport(Report0x01(data))
  /\ SoundReport(Report0x80) /\ SoundReport(Report0x10)
<1>1. ASSUME NEW data \in Nat PROVE SoundReport(Report0x01(data))
  BY SMTT(30) DEF SoundReport, Sound, Inside, Apart, Report0x01, Bytes
<1> QED BY <1>1 DEF SoundReport, Sound, Inside, Apart, Report0x80, Report0x10, Bytes

LEMMA JoyCon2Sound ==
  /\ SoundReport(FeatureSelectCmd) /\ SoundReport(RumblePresetCmd) /\ SoundReport(PlayerLedCmd)
  /\ SoundReport(FlashReadCmd)
<1> DEFINE f == [cmd |-> Bytes(0, 4), size |-> {5}]
<1>1. ASSUME NEW len \in Nat, NEW g, len >= 6, Sound(g, len), \A y \in DOMAIN g : g[y] \subseteq 6..len
      PROVE  SoundReport(Jc2Command(len, g))
  <2>1. Sound(f, len) /\ \A x \in DOMAIN f : f[x] \subseteq 0..5
    BY <1>1 DEF Sound, Inside, Apart, Bytes
  <2>2. Jc2Command(len, g) = [len |-> len, fields |-> Joined(f, g)]
    BY DEF Jc2Command
  <2> HIDE DEF f
  <2> QED BY <1>1, <2>1, <2>2, JoinedSound DEF SoundReport
<1> HIDE DEF f
<1>2. SoundReport(FeatureSelectCmd) /\ SoundReport(PlayerLedCmd)
  BY <1>1 DEF FeatureSelectCmd, PlayerLedCmd, Sound, Inside, Apart
<1>3. SoundReport(RumblePresetCmd)
  BY <1>1 DEF RumblePresetCmd, Sound, Inside, Apart
<1>4. SoundReport(FlashReadCmd)
  BY <1>1 DEF FlashReadCmd, Sound, Inside, Apart, Bytes
<1> QED BY <1>2, <1>3, <1>4

LEMMA SteamSound ==
  SoundReport(SteamSimple) /\ SoundReport(SteamSetting) /\ SoundReport(LizardReport) /\ SoundReport(PsMoveOutput)
BY DEF SoundReport, Sound, Inside, Apart, SteamSimple, SteamSetting, LizardReport, PsMoveOutput, Bytes

LEMMA HubReplySound ==
  SoundReport(HelloAck) /\ SoundReport(HelloAckEcho) /\ SoundReport(HubRumble)
<1> DEFINE f == [magic |-> Bytes(0, 4), version |-> {4}, msg |-> {5}]
<1>1. ASSUME NEW len \in Nat, NEW g, len >= 6, Sound(g, len), \A y \in DOMAIN g : g[y] \subseteq 6..len
      PROVE  Sound(HubReply(g), len)
  <2>1. Sound(f, len) /\ \A x \in DOMAIN f : f[x] \subseteq 0..5
    BY <1>1 DEF Sound, Inside, Apart, Bytes
  <2>2. HubReply(g) = Joined(f, g)
    BY DEF HubReply
  <2> HIDE DEF f
  <2> QED BY <1>1, <2>1, <2>2, JoinedSound
<1> HIDE DEF f
<1>2. SoundReport(HelloAck)
  BY <1>1 DEF SoundReport, HelloAck, Sound, Inside, Apart, Payload, Header, Bytes
<1>3. SoundReport(HelloAckEcho)
  BY <1>1 DEF SoundReport, HelloAckEcho, Sound, Inside, Apart, Payload, Header, Bytes
<1>4. SoundReport(HubRumble)
  BY <1>1 DEF SoundReport, HubRumble, Sound, Inside, Apart, Payload, Header, Bytes
<1> QED BY <1>2, <1>3, <1>4

LEMMA CommandsSound == \A c \in DOMAIN Commands : SoundReport(Commands[c])
BY SwitchSound, JoyCon2Sound, SteamSound, HubReplySound DEF Commands, SwitchSubcmd, SpiRead, DeviceInfo

(* The decoders that are one record, or refuse. *)
LEMMA HidSound ==
  ASSUME NEW len \in Nat
  PROVE  Sound(Ds3Report(len), len) /\ Sound(DeckReport(len), len) /\ Sound(SteamState(len), len)
<1>1. Sound(Ds3Report(len), len)
  BY DEF Sound, Inside, Apart, Ds3Report, AtLeast, Refused, Triple, Bytes
<1>2. Sound(DeckReport(len), len)
  <2> DEFINE s == [id |-> {0}, seq |-> Bytes(4, 4), accel |-> Triple(28), gyro |-> Triple(34)]
  <2>1. /\ DOMAIN s = {"id", "seq", "accel", "gyro"}
        /\ s.id = {0} /\ s.seq = 4..7 /\ s.accel = 28..33 /\ s.gyro = 34..39
    BY DEF Triple, Bytes
  <2>2. DeckReport(len) = AtLeast(len, 60, s)
    BY DEF DeckReport
  <2> HIDE DEF s
  <2>3. ASSUME len >= 60 PROVE Sound(s, len)
    BY <2>1, <2>3 DEF Sound, Inside, Apart
  <2> QED BY <2>2, <2>3, AtLeastSound
<1>3. Sound(SteamState(len), len)
  <2> DEFINE s == [accel |-> Triple(20), gyro |-> Triple(26), quat |-> Bytes(32, 8)]
  <2>1. DOMAIN s = {"accel", "gyro", "quat"} /\ s.accel = 20..25 /\ s.gyro = 26..31 /\ s.quat = 32..39
    BY DEF Triple, Bytes
  <2>2. SteamState(len) = AtLeast(len, 64, s)
    BY DEF SteamState
  <2> HIDE DEF s
  <2>3. ASSUME len >= 64 PROVE Sound(s, len)
    BY <2>1, <2>3 DEF Sound, Inside, Apart
  <2> QED BY <2>2, <2>3, AtLeastSound
<1> QED BY <1>1, <1>2, <1>3

LEMMA JoyConSound ==
  ASSUME NEW len \in Nat
  PROVE  /\ Sound(Report0x30(len), len) /\ Sound(FactoryBlock(len), len)
         /\ Sound(Report0x05(len), len)
<1>1. Sound(Report0x30(len), len)
  <2> DEFINE s == [id |-> {0}, timer |-> {1}, battery |-> {2}, buttons |-> Bytes(3, 3),
                   accel_1 |-> Triple(13), gyro_1 |-> Triple(19), accel_2 |-> Triple(25),
                   gyro_2 |-> Triple(31), accel_3 |-> Triple(37), gyro_3 |-> Triple(43)]
  <2>1. /\ DOMAIN s = {"id", "timer", "battery", "buttons", "accel_1", "gyro_1", "accel_2",
                       "gyro_2", "accel_3", "gyro_3"}
        /\ s.id = {0} /\ s.timer = {1} /\ s.battery = {2} /\ s.buttons = 3..5
        /\ s.accel_1 = 13..18 /\ s.gyro_1 = 19..24 /\ s.accel_2 = 25..30
        /\ s.gyro_2 = 31..36 /\ s.accel_3 = 37..42 /\ s.gyro_3 = 43..48
    BY DEF Triple, Bytes
  <2>2. Report0x30(len) = AtLeast(len, 49, s)
    BY DEF Report0x30
  <2> HIDE DEF s
  <2>3. ASSUME len >= 49 PROVE Sound(s, len)
    BY <2>1, <2>3 DEF Sound, Inside, Apart
  <2> QED BY <2>2, <2>3, AtLeastSound
<1>2. Sound(FactoryBlock(len), len)
  <2> DEFINE s == [accel_offset |-> Triple(0), accel_sens |-> Triple(6),
                   gyro_offset |-> Triple(12), gyro_sens |-> Triple(18)]
  <2>1. /\ DOMAIN s = {"accel_offset", "accel_sens", "gyro_offset", "gyro_sens"}
        /\ s.accel_offset = 0..5 /\ s.accel_sens = 6..11 /\ s.gyro_offset = 12..17
        /\ s.gyro_sens = 18..23
    BY DEF Triple, Bytes
  <2>2. FactoryBlock(len) = AtLeast(len, 24, s)
    BY DEF FactoryBlock
  <2> HIDE DEF s
  <2>3. ASSUME len >= 24 PROVE Sound(s, len)
    BY <2>1, <2>3 DEF Sound, Inside, Apart
  <2> QED BY <2>2, <2>3, AtLeastSound
<1>3. Sound(Report0x05(len), len)
  <2> DEFINE s == [buttons |-> {5}, mag |-> Triple(25), battery |-> Bytes(31, 2),
                   charging |-> {33}, accel |-> Triple(48), gyro |-> Triple(54)]
  <2>1. ASSUME len >= 60 PROVE Sound(s, len)
    BY <2>1 DEF Sound, Inside, Apart, Triple, Bytes
  <2> HIDE DEF s
  <2> QED BY <2>1, AtLeastSound DEF Report0x05, s
<1> QED BY <1>1, <1>2, <1>3

LEMMA CompanionSound ==
  ASSUME NEW len \in Nat
  PROVE  /\ Sound(ThreeDsPacket(len), len) /\ Sound(VitaPacket(len), len)
         /\ Sound(WiiPacket(len), len) /\ Sound(HopxRecord(len), len)
<1>1. Sound(ThreeDsPacket(len), len)
  BY DEF Sound, Inside, Apart, ThreeDsPacket, Refused, Triple, Bytes
<1>2. Sound(VitaPacket(len), len)
  <2> DEFINE s == [accel |-> Floats(0), gyro |-> Floats(12)]
  <2>1. DOMAIN s = {"accel", "gyro"} /\ s.accel = 0..11 /\ s.gyro = 12..23
    BY DEF Floats, Bytes
  <2>2. VitaPacket(len) = IF len = 24 THEN s ELSE Refused
    BY DEF VitaPacket
  <2> HIDE DEF s
  <2>3. ASSUME len = 24 PROVE Sound(s, len)
    BY <2>1, <2>3 DEF Sound, Inside, Apart
  <2> QED BY <2>2, <2>3, RefusedSound
<1>3. Sound(WiiPacket(len), len)
  <2> DEFINE s == [id |-> {0}, accel |-> Triple(1), data |-> Triple(7), nunchuk |-> {13},
                   battery |-> {15}, button |-> {16}]
  <2>1. /\ DOMAIN s = {"id", "accel", "data", "nunchuk", "battery", "button"}
        /\ s.id = {0} /\ s.accel = 1..6 /\ s.data = 7..12
        /\ s.nunchuk = {13} /\ s.battery = {15} /\ s.button = {16}
    BY DEF Triple, Bytes
  <2>2. WiiPacket(len) = IF len = 17 THEN s ELSE Refused
    BY DEF WiiPacket
  <2> HIDE DEF s
  <2>3. ASSUME len = 17 PROVE Sound(s, len)
    BY <2>1, <2>3 DEF Sound, Inside, Apart
  <2> QED BY <2>2, <2>3, RefusedSound
<1>4. Sound(HopxRecord(len), len)
  BY SMTT(30) DEF Sound, Inside, Apart, HopxRecord, Refused, Triple, Bytes
<1> QED BY <1>1, <1>2, <1>3, <1>4

LEMMA HubSound ==
  ASSUME NEW len \in Nat
  PROVE  Sound(HubRemove(len), len) /\ Sound(RemoteBattery(len), len) /\ Sound(Button(len), len)
<1>1. Sound(HubRemove(len), len)
  BY DEF Sound, Inside, Apart, HubRemove, AtLeast, Refused, Payload, Header, Bytes
<1>2. Sound(RemoteBattery(len), len)
  BY DEF Sound, Inside, Apart, RemoteBattery, AtLeast, Refused, Payload, Header, Bytes
<1>3. Sound(Button(len), len)
  BY DEF Sound, Inside, Apart, Button, AtLeast, Refused, Payload, Header, Bytes
<1> QED BY <1>1, <1>2, <1>3

LEMMA PlainSound ==
  ASSUME NEW len \in Nat
  PROVE  /\ Sound(Ds3Report(len), len) /\ Sound(DeckReport(len), len)
         /\ Sound(SteamState(len), len) /\ Sound(FactoryBlock(len), len)
         /\ Sound(ThreeDsPacket(len), len) /\ Sound(VitaPacket(len), len)
         /\ Sound(WiiPacket(len), len) /\ Sound(HopxRecord(len), len)
         /\ Sound(HubRemove(len), len) /\ Sound(RemoteBattery(len), len) /\ Sound(Button(len), len)
         /\ Sound(Report0x05(len), len) /\ Sound(FactoryBlob(len), len) /\ Sound(Report0x30(len), len)
BY HidSound, JoyConSound, CompanionSound, HubSound, FactoryBlobSound

(* Of a report of Sony's factory calibration, either order of the axes. *)
LEMMA CalibrationSound ==
  ASSUME NEW interleaved \in BOOLEAN, NEW len \in Nat
  PROVE  Sound(FeatureCalibration(interleaved, len), len)
<1> DEFINE f == [bias |-> Triple(1), speed |-> Bytes(19, 4), accel |-> Bytes(23, 12)]
           g == IF interleaved
                  THEN [pitch |-> {7, 8, 13, 14}, yaw |-> {9, 10, 15, 16}, roll |-> {11, 12, 17, 18}]
                  ELSE [pitch |-> Bytes(7, 4), yaw |-> Bytes(11, 4), roll |-> Bytes(15, 4)]
<1>1. ASSUME len >= 35 PROVE Sound(f, len)
  BY <1>1 DEF Sound, Inside, Apart, Triple, Bytes
<1>2. ASSUME len >= 35 PROVE Sound(g, len)
  BY <1>2 DEF Sound, Inside, Apart, Bytes
<1>3. \A x \in DOMAIN f, y \in DOMAIN g : f[x] \cap g[y] = {}
  BY DEF Triple, Bytes
<1>4. FeatureCalibration(interleaved, len) = AtLeast(len, 35, Joined(f, g))
  BY DEF FeatureCalibration
<1> HIDE DEF f, g
<1> QED BY <1>1, <1>2, <1>3, <1>4, JoinedSound, AtLeastSound

(* A reply's data and an announcement's name, as long as they say. *)
LEMMA SpiSound == ASSUME NEW len \in Nat, NEW n \in Nat PROVE Sound(SpiReply(len, n), len)
<1> DEFINE s == [id |-> {0}, ack |-> {13}, subcmd |-> {14}, addr |-> Bytes(15, 4), size |-> {19},
                 data |-> Bytes(20, n)]
<1>1. SpiReply(len, n) = IF len < 20 \/ len < 20 + n THEN Refused ELSE s
  BY DEF SpiReply
<1>2. /\ DOMAIN s = {"id", "ack", "subcmd", "addr", "size", "data"}
      /\ s.id = {0} /\ s.ack = {13} /\ s.subcmd = {14} /\ s.addr = 15..18 /\ s.size = {19}
      /\ s.data = 20 .. 19 + n
  BY DEF Bytes
<1> HIDE DEF s
<1>3. ASSUME len >= 20 + n PROVE Inside(s, len)
  BY <1>2, <1>3 DEF Inside
<1>4. Apart(s)
  BY <1>2 DEF Apart
<1>5. CASE len < 20 + n
  BY <1>1, <1>5, RefusedSound
<1>6. CASE len >= 20 + n
  BY <1>1, <1>3, <1>4, <1>6 DEF Sound
<1> QED BY <1>5, <1>6

LEMMA AnnounceSound == ASSUME NEW len \in Nat, NEW n \in Nat PROVE Sound(HubAnnounce(len, n), len)
<1> DEFINE s == [handle |-> Payload(0, 2), kind |-> Payload(2, 1), mac |-> Payload(3, 6),
                 has |-> Payload(9, 3), rate |-> Payload(12, 2), size |-> Payload(14, 1),
                 name |-> Payload(15, n)]
<1>1. HubAnnounce(len, n) = IF len < 21 \/ len < 21 + n THEN Refused ELSE s
  BY DEF HubAnnounce, Header
<1>2. /\ DOMAIN s = {"handle", "kind", "mac", "has", "rate", "size", "name"}
      /\ s.handle = 6 .. 7 /\ s.kind = 8 .. 8 /\ s.mac = 9 .. 14
      /\ s.has = 15 .. 17 /\ s.rate = 18 .. 19 /\ s.size = 20 .. 20
      /\ s.name = 21 .. 20 + n
  BY DEF Payload, Bytes, Header
<1> HIDE DEF s
<1>3. ASSUME len >= 21 + n PROVE Inside(s, len)
  BY <1>2, <1>3, SMTT(30) DEF Inside
<1>4. Apart(s)
  <2>1. \A x \in DOMAIN s : x # "name" => s[x] \subseteq 0 .. 20
    BY <1>2, SMTT(30)
  <2>2. \A x \in DOMAIN s : x # "name" => s[x] \cap s.name = {}
    BY <1>2, <2>1, SMTT(30)
  <2>3. \A x, y \in DOMAIN s \ {"name"} : x # y => s[x] \cap s[y] = {}
    BY <1>2, SMTT(30)
  <2> QED BY <2>2, <2>3 DEF Apart
<1>5. CASE len < 21 + n
  BY <1>1, <1>5, RefusedSound
<1>6. CASE len >= 21 + n
  BY <1>1, <1>3, <1>4, <1>6 DEF Sound
<1> QED BY <1>5, <1>6

(* What FieldsInsideApart asks of a format. *)
LaidOut(format, len, fields) == Inside(fields, len) /\ (format \notin Scans => Apart(fields))

(* A decoder of one length stays inside it, and apart but in a scan. *)
LEMMA OneLengthFits ==
  ASSUME NEW format \in OneLength, NEW len \in Nat
  PROVE  LaidOut(format, len, ReadOneLength(format, len))
<1> USE DEF ReadOneLength, LaidOut, Sony, DualSenses, ServerTags
<1>1. CASE format \in Sony
  BY <1>1, SonySound DEF Sound
<1>2. CASE format \in {"zcm1", "zcm2"}
  BY <1>2, PsMoveSound DEF Sound
<1>3. CASE format \in {"blob", "ds3", "deck", "steam"}
  BY <1>3, PlainSound DEF Sound
<1>4. CASE format \in {"0x30", "spi_block", "0x05", "remove", "battery", "button"}
  BY <1>4, PlainSound DEF Sound
<1>5. CASE format \in {"3ds", "vita", "wii", "hopx"}
  BY <1>5, PlainSound DEF Sound
<1>6. CASE format \in Scans
  BY <1>6, ScansInside DEF Scans
<1>7. CASE format \in ServerTags
  BY <1>7, ClientboundSound DEF Sound
<1> QED BY <1>1, <1>2, <1>3, <1>4, <1>5, <1>6, <1>7 DEF OneLength, Scans

LEMMA OneClaimFits ==
  ASSUME NEW format \in OneClaim, NEW len \in Nat, NEW n \in Nat
  PROVE  Sound(ReadOneClaim(format, len, n), len)
<1> USE DEF ReadOneClaim
<1>1. CASE format = "spi_reply"
  BY <1>1, SpiSound
<1>2. CASE format \in {"hello", "announce"}
  BY <1>2, HelloSound, AnnounceSound
<1>3. CASE format = "imu"
  BY <1>3, ImuSound
<1>4. CASE format = "imu2"
  BY <1>4, ImuSound, RefusedSound
<1> QED BY <1>1, <1>2, <1>3, <1>4 DEF OneClaim

LEMMA PairsLie ==
  ASSUME NEW fields, NEW len, NEW format, LaidOut(format, len, fields)
  PROVE  /\ \A p \in Pairs(fields) : p[2] \subseteq 0..(len - 1)
         /\ format \notin Scans =>
              \A p, q \in Pairs(fields) : p # q => p[2] \cap q[2] = {}
BY DEF Pairs, LaidOut, Inside, Apart

LEMMA ArrivesLie ==
  ASSUME NEW format, NEW len, NEW fields, Arrives(format, len, fields), LaidOut(format, len, fields)
  PROVE  FieldsInsideApart' /\ wlSent' = {}
BY PairsLie DEF Arrives, FieldsInsideApart, Lie

LEMMA SendsLie ==
  ASSUME NEW format, NEW written, NEW fields, Sends(format, written, fields),
         SoundReport(written), Sound(fields, written.len)
  PROVE  FieldsInsideApart'
<1>1. LaidOut(format, written.len, written.fields) /\ LaidOut(format, written.len, fields)
  BY DEF SoundReport, Sound, LaidOut
<1> QED BY <1>1, PairsLie DEF Sends, FieldsInsideApart, Lie

LEMMA BytesSent ==
  /\ ThreeDsSent.len = 12 /\ VitaSent.len = 24 /\ WiiRecordSent.len = 17
  /\ ThreeDsPacket(12) = ThreeDsSent.fields /\ VitaPacket(24) = VitaSent.fields
  /\ SoundReport(WiiRecordSent)
  /\ Pairs(WiiPacket(17)) \subseteq Pairs(WiiRecordSent.fields)
<1>1. ThreeDsSent.len = 12 /\ VitaSent.len = 24 /\ WiiRecordSent.len = 17
  BY DEF ThreeDsSent, VitaSent, WiiRecordSent
<1>2. ThreeDsPacket(12) = ThreeDsSent.fields
  BY DEF ThreeDsPacket, ThreeDsSent, MotionPacket, Triple, Bytes
<1>3. VitaPacket(24) = VitaSent.fields
  BY DEF VitaPacket, VitaSent, MotionPacket, Floats, Bytes
<1>4. SoundReport(WiiRecordSent)
  BY DEF SoundReport, Sound, Inside, Apart, WiiRecordSent, Triple, Bytes
<1>5. Pairs(WiiPacket(17)) \subseteq Pairs(WiiRecordSent.fields)
  <2> DEFINE r == WiiPacket(17)
             s == WiiRecordSent.fields
  <2>1. DOMAIN r \subseteq DOMAIN s /\ \A f \in DOMAIN r : r[f] = s[f]
    BY DEF WiiPacket, WiiRecordSent
  <2> HIDE DEF r, s
  <2> QED BY <2>1 DEF Pairs, r, s
<1> QED BY <1>1, <1>2, <1>3, <1>4, <1>5

(* What is written is within what it is written into, and what is read of  *)
(* it, where it is read here, is some of what was written.                 *)
LEMMA ExchangeKeeps ==
  ASSUME Exchange
  PROVE  FieldsInsideApart' /\ ReadAsWritten'
<1> DEFINE Goal == FieldsInsideApart' /\ wlFields' \subseteq wlSent' /\ wlFields' # {}
<1>1. ASSUME NEW format, NEW written, NEW fields, Sends(format, written, fields),
             SoundReport(written), Sound(fields, written.len),
             Pairs(fields) \subseteq Pairs(written.fields), DOMAIN fields # {}
      PROVE  Goal
  BY <1>1, SendsLie DEF Sends, Pairs
<1> HIDE DEF Goal
<1>2. ASSUME Sends("3ds", ThreeDsSent, ThreeDsPacket(ThreeDsSent.len))
      PROVE  Goal
  <2>1. DOMAIN ThreeDsPacket(12) # {}
    BY DEF ThreeDsPacket
  <2>2. Sound(ThreeDsPacket(12), 12)
    BY PlainSound
  <2> QED BY <1>1, <1>2, <2>1, <2>2, BytesSent DEF SoundReport
<1>3. ASSUME Sends("vita", VitaSent, VitaPacket(VitaSent.len))
      PROVE  Goal
  <2>1. DOMAIN VitaPacket(24) # {}
    BY DEF VitaPacket
  <2>2. Sound(VitaPacket(24), 24)
    BY PlainSound
  <2> QED BY <1>1, <1>3, <2>1, <2>2, BytesSent DEF SoundReport
<1>4. ASSUME Sends("wii", WiiRecordSent, WiiPacket(WiiRecordSent.len))
      PROVE  Goal
  <2>1. DOMAIN WiiPacket(17) # {}
    BY DEF WiiPacket
  <2>2. Sound(WiiPacket(17), 17)
    BY PlainSound
  <2> QED BY <1>1, <1>4, <2>1, <2>2, BytesSent
<1>5. ASSUME NEW n \in WlClaims,
             LET written == Handshake(SlimeString(n))
             IN  Sends("handshake", [len |-> SizeOf(written), fields |-> written],
                       Handshake(SlimeString(n) % 256))
      PROVE  Goal
  <2>1. SlimeString(n) \in Nat /\ SlimeString(n) % 256 = SlimeString(n)
    BY WlAssumption DEF SlimeString
  <2> DEFINE w == Handshake(SlimeString(n))
  <2>2. DOMAIN w # {}
    BY DEF Handshake, Joined
  <2>3. SizeOf(w) = 35 + SlimeString(n) /\ Sound(w, 35 + SlimeString(n))
    BY <2>1, HandshakeSound
  <2>4. Sends("handshake", [len |-> SizeOf(w), fields |-> w], w)
    BY <1>5, <2>1
  <2> HIDE DEF w
  <2>5. SoundReport([len |-> SizeOf(w), fields |-> w])
    BY <2>3 DEF SoundReport
  <2>6. Sound(w, [len |-> SizeOf(w), fields |-> w].len) 
    BY <2>3
  <2>7. [len |-> SizeOf(w), fields |-> w].fields = w
    OBVIOUS
  <2> QED BY <1>1, <2>2, <2>4, <2>5, <2>6, <2>7
<1>6. ASSUME NEW packet \in SlimePackets,
             Sends(packet, [len |-> BodyLen(packet), fields |-> Body(packet)], Body(packet))
      PROVE  Goal
  <2>1. Sound(Body(packet), BodyLen(packet))
    BY BodySound
  <2>2. DOMAIN Body(packet) # {}
    BY DEF Body, SlimePackets
  <2> DEFINE r == [len |-> BodyLen(packet), fields |-> Body(packet)]
  <2>3. r.len = BodyLen(packet) /\ r.fields = Body(packet) /\ Sends(packet, r, Body(packet))
    BY <1>6
  <2> HIDE DEF r
  <2> QED BY <1>1, <2>1, <2>2, <2>3 DEF SoundReport
<1>7. ASSUME NEW n \in 1..2, NEW packets \in [1..n -> Motion],
             Sends("bundle", BundleSent(packets), Bundle(BundleSent(packets).len, Claims(packets)))
      PROVE  Goal
  <2> DEFINE s == BundleSent(packets)
  <2>1. Bundle(s.len, Claims(packets)) = s.fields /\ s.len \in Nat /\ Claims(packets) \in [1..n -> Nat]
    BY BundleRead
  <2>2. Sound(Bundle(s.len, Claims(packets)), s.len)
    <3> DEFINE c == Claims(packets)
    <3>1. s.len \in Nat /\ n \in 0..2 /\ c \in [1..n -> Nat]
      BY <2>1
    <3> HIDE DEF c, s
    <3>2. Sound(Bundle(s.len, c), s.len)
      BY <3>1, BundleSound
    <3> QED BY <3>2 DEF c
  <2>3. DOMAIN s.fields # {}
    <3>1. s.fields = Parts(Claims(packets), n)
      BY SentAt
    <3>2. <<1, "size">> \in DOMAIN Parts(Claims(packets), n)
      BY DEF Parts, InnerFields
    <3> QED BY <3>1, <3>2
  <2> HIDE DEF s
  <2> QED BY <1>1, <1>7, <2>1, <2>2, <2>3 DEF SoundReport, s
<1>8. CASE \E packets \in UNION {[1..n -> Motion] : n \in 1..2} :
             Sends("bundle", BundleSent(packets),
                   Bundle(BundleSent(packets).len, Claims(packets)))
  <2> PICK packets \in UNION {[1..n -> Motion] : n \in 1..2} :
        Sends("bundle", BundleSent(packets), Bundle(BundleSent(packets).len, Claims(packets)))
    BY <1>8
  <2>1. PICK n \in 1..2 : packets \in [1..n -> Motion]
    <3> DEFINE S(n) == [1..n -> Motion]
    <3>1. packets \in UNION {S(n) : n \in 1..2}
      OBVIOUS
    <3> HIDE DEF S
    <3>2. \E n \in 1..2 : packets \in S(n)
      BY <3>1
    <3> QED BY <3>2 DEF S
  <2>2. Goal
    BY <1>7, <2>1
  <2> QED BY <2>2 DEF Goal, ReadAsWritten
<1>9. CASE ~\E packets \in UNION {[1..n -> Motion] : n \in 1..2} :
             Sends("bundle", BundleSent(packets),
                   Bundle(BundleSent(packets).len, Claims(packets)))
  <2>1. Goal
    BY <1>2, <1>3, <1>4, <1>5, <1>6, <1>9, ZenonT(60) DEF Exchange
  <2> QED BY <2>1 DEF Goal, ReadAsWritten
<1> QED BY <1>8, <1>9

LEMMA ReceiveKeeps ==
  ASSUME Receive
  PROVE  FieldsInsideApart' /\ wlSent' = {}
<1> PICK len \in WlLens :
      \/ \E format \in OneLength : Arrives(format, len, ReadOneLength(format, len))
      \/ \E format \in OneClaim, n \in WlClaims :
           Arrives(format, len, ReadOneClaim(format, len, n))
      \/ \E claims \in UNION {[1..n -> WlClaims] : n \in 0..2} :
           Arrives("bundle", len, Bundle(len, claims))
  BY DEF Receive
<1>0. len \in Nat
  BY WlAssumption
<1>1. ASSUME NEW format \in OneLength, Arrives(format, len, ReadOneLength(format, len))
      PROVE  FieldsInsideApart' /\ wlSent' = {}
  BY <1>0, <1>1, OneLengthFits, ArrivesLie
<1>2. ASSUME NEW format \in OneClaim, NEW n \in WlClaims,
             Arrives(format, len, ReadOneClaim(format, len, n))
      PROVE  FieldsInsideApart' /\ wlSent' = {}
  <2>1. n \in Nat
    BY WlAssumption
  <2> QED BY <1>0, <1>2, <2>1, OneClaimFits, ArrivesLie DEF LaidOut, Sound
<1>3. ASSUME NEW n \in 0..2, NEW claims \in [1..n -> WlClaims],
             Arrives("bundle", len, Bundle(len, claims))
      PROVE  FieldsInsideApart' /\ wlSent' = {}
  <2>1. claims \in [1..n -> Nat]
    BY WlAssumption
  <2> QED BY <1>0, <1>3, <2>1, BundleSound, ArrivesLie DEF LaidOut, Sound
<1> QED BY <1>1, <1>2, <1>3

LEMMA GetFeatureKeeps ==
  ASSUME GetFeature
  PROVE  FieldsInsideApart' /\ wlSent' = {}
<1>1. ASSUME NEW interleaved \in BOOLEAN, NEW len \in Nat,
             Arrives("feature", len, FeatureCalibration(interleaved, len))
      PROVE  FieldsInsideApart' /\ wlSent' = {}
  <2>1. LaidOut("feature", len, FeatureCalibration(interleaved, len))
    BY CalibrationSound DEF LaidOut, Sound
  <2> QED BY <1>1, <2>1, ArrivesLie
<1>2. PICK kind \in Sony : \E r \in FeatureReports(kind) :
        Arrives("feature", r[2], FeatureCalibration(r[1], r[2]))
  BY DEF GetFeature
<1>3. \/ Arrives("feature", 41, FeatureCalibration(TRUE, 41))
      \/ Arrives("feature", 37, FeatureCalibration(FALSE, 37))
      \/ Arrives("feature", 41, FeatureCalibration(FALSE, 41))
  <2> DEFINE A(r) == Arrives("feature", r[2], FeatureCalibration(r[1], r[2]))
  <2>1. A(<<TRUE, 41>>) \/ A(<<FALSE, 37>>) \/ A(<<FALSE, 41>>)
    <3>1. \E r \in FeatureReports(kind) : A(r)
      BY <1>2
    <3> HIDE DEF A
    <3> QED BY <3>1, Zenon DEF FeatureReports
  <2>2. /\ <<TRUE, 41>>[2] = 41 /\ <<FALSE, 37>>[2] = 37 /\ <<FALSE, 41>>[2] = 41
        /\ <<TRUE, 41>>[1] = TRUE /\ <<FALSE, 37>>[1] = FALSE /\ <<FALSE, 41>>[1] = FALSE
    OBVIOUS
  <2> QED BY <2>1, <2>2, Zenon
<1> QED BY <1>1, <1>3

LEMMA WriteOutputKeeps ==
  ASSUME WriteOutput
  PROVE  FieldsInsideApart' /\ ReadAsWritten'
<1>1. ASSUME NEW kind \in Sony, NEW bt \in BOOLEAN, Sends(kind, OutputReport(kind, bt), Refused)
      PROVE  FieldsInsideApart' /\ ReadAsWritten'
  <2>1. SoundReport(OutputReport(kind, bt))
    BY OutputSound DEF SoundReport
  <2>2. wlFormat' = kind
    BY <1>1 DEF Sends
  <2> QED BY <1>1, <2>1, <2>2, RefusedSound, SendsLie DEF ReadAsWritten
<1>2. ASSUME NEW command \in DOMAIN Commands, Sends(command, Commands[command], Refused)
      PROVE  FieldsInsideApart' /\ ReadAsWritten'
  <2>1. wlFormat' = command
    BY <1>2 DEF Sends
  <2> QED BY <1>2, <2>1, CommandsSound, RefusedSound, SendsLie DEF ReadAsWritten
<1> QED BY <1>1, <1>2 DEF WriteOutput

WlInv == FieldsInsideApart /\ ReadAsWritten

LEMMA WlInvHolds == WlSpec => []WlInv
<1>1. WlInit => WlInv
  BY DEF WlInit, WlInv, FieldsInsideApart, ReadAsWritten, Lie
<1>2. WlInv /\ [WlNext]_wlVars => WlInv'
  <2>1. CASE WlNext
    BY <2>1, ReceiveKeeps, GetFeatureKeeps, WriteOutputKeeps, ExchangeKeeps
       DEF WlNext, WlInv, ReadAsWritten
  <2>2. ASSUME WlInv, UNCHANGED wlVars PROVE WlInv'
    BY <2>2 DEF wlVars, WlInv, FieldsInsideApart, ReadAsWritten, Lie
  <2> QED BY <2>1, <2>2
<1> QED BY <1>1, <1>2, PTL DEF WlSpec

(* No decoder reads past the end of a message, however short it is and     *)
(* whatever it says of itself (a name's length, protocol.rs:106-150; a     *)
(* count of samples, 159-172; an inner packet's size, lib.rs:249-284), and *)
(* none but a scan takes a byte into two fields; nor does a writer.        *)
(* Bundles hold at most two packets.                                       *)
THEOREM FieldsFit == WlSpec => []FieldsInsideApart
<1>1. WlInv => FieldsInsideApart
  BY DEF WlInv
<1> QED BY <1>1, WlInvHolds, PTL

(* Each field that is read is one that was written, byte for byte: the     *)
(* consoles' packets as the crates parse them, the client's packets and a  *)
(* bundle as decode_bundle takes encode_bundle's apart (lib.rs:219-284).   *)
THEOREM ReadBack == WlSpec => []ReadAsWritten
<1>1. WlInv => ReadAsWritten
  BY DEF WlInv
<1> QED BY <1>1, WlInvHolds, PTL
=============================================================================
