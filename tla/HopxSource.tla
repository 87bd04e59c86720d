----------------------------- MODULE HopxSource -----------------------------
(***************************************************************************)
(* The HOPX trackers, crates/device-hopx: a scanner that makes a device of *)
(* an address once, the device's bring-up and stop over BLE, and the       *)
(* parser that cuts records of fixed length out of notifications that are  *)
(* split anywhere.                                                         *)
(*                                                                         *)
(* A byte is taken for what the parser tells of it, one of two markers or  *)
(* neither, and for where it stands in which record.                       *)
(***************************************************************************)
EXTENDS Integers, Sequences

CONSTANTS
  HxLen,        \* RECORD_LEN (14)
  HxMaxRecords, \* bound: records the tracker sends
  HxMaxFaults   \* bound: steps of a bring-up that fail, links lost

ASSUME HxAssumption == HxLen \in Nat \ {0} /\ HxMaxRecords \in Nat /\ HxMaxFaults \in Nat

VARIABLES
  hxKnown,  \* the tracker's address is in known
  hxDev,    \* its device
  hxLink,   \* its link is up
  hxTask,   \* the device's reader runs
  hxAir,    \* bytes the tracker has sent
  hxBuf,    \* buf: what is left of the bytes fed
  hxLoop,   \* drain_chunks is at its loop
  hxOut,    \* records the parser has cut out, as the places of their bytes
  hxFaults

hxParser == <<hxAir, hxBuf, hxLoop, hxOut>>
hxVars == <<hxKnown, hxDev, hxLink, hxTask, hxParser, hxFaults>>

HxMarkers == {"frame", "alt", "none"}

HxBytes ==
  [record : 1 .. HxMaxRecords, place : 1 .. HxLen, marker : HxMarkers]

HxTypeOK ==
  /\ {hxKnown, hxLink, hxTask, hxLoop} \subseteq BOOLEAN
  /\ hxDev \in {"none", "offered", "connected", "subscribed", "running", "failed", "stopped"}
  /\ hxAir \in 0 .. HxLen * HxMaxRecords
  /\ hxBuf \in Seq(HxBytes) /\ Len(hxBuf) <= IF hxLoop THEN 2 * HxLen ELSE HxLen - 1
  /\ Len(hxOut) <= HxMaxRecords
  /\ hxFaults \in 0 .. HxMaxFaults

HxInit ==
  /\ hxKnown = FALSE /\ hxDev = "none" /\ hxLink = FALSE /\ hxTask = FALSE
  /\ hxAir = 0 /\ hxBuf = <<>> /\ hxLoop = FALSE /\ hxOut = <<>> /\ hxFaults = 0

-----------------------------------------------------------------------------
(* The scanner and the device *)

(* An address is known from the first time it is seen, and stays known. *)
HopxEnumerate ==
  /\ hxDev = "none" /\ ~hxKnown
  /\ hxKnown' = TRUE
  /\ hxDev' = IF hxLink THEN "none" ELSE "offered"
  /\ UNCHANGED <<hxLink, hxTask, hxParser, hxFaults>>

HxStep(from, to) == hxDev = from /\ hxDev' = to

HopxStart ==
  /\ \/ HxStep("offered", "connected") /\ hxLink' = TRUE
     \/ (HxStep("connected", "subscribed") \/ HxStep("subscribed", "running"))
          /\ hxLink /\ UNCHANGED hxLink
  /\ hxTask' = (hxDev' = "running")
  /\ UNCHANGED <<hxKnown, hxParser, hxFaults>>

(* Whatever step fails, the link is left as it is. *)
HopxStartFails ==
  /\ hxDev \in {"offered", "connected", "subscribed"} /\ hxDev' = "failed"
  /\ hxFaults < HxMaxFaults /\ hxFaults' = hxFaults + 1
  /\ UNCHANGED <<hxKnown, hxLink, hxTask, hxParser>>

(* The link drops, and the notifications end with it. *)
HopxLost ==
  /\ hxLink /\ hxFaults < HxMaxFaults /\ hxFaults' = hxFaults + 1
  /\ hxLink' = FALSE /\ hxTask' = FALSE
  /\ hxDev' = IF hxDev \in {"connected", "subscribed"} THEN "failed" ELSE hxDev
  /\ UNCHANGED <<hxKnown, hxParser>>

HopxStop ==
  /\ hxDev = "running" /\ hxDev' = "stopped"
  /\ hxTask' = FALSE /\ hxLink' = FALSE
  /\ UNCHANGED <<hxKnown, hxParser, hxFaults>>

-----------------------------------------------------------------------------
(* The parser *)

Where(chunk) == [i \in DOMAIN chunk |-> [record |-> chunk[i].record, place |-> chunk[i].place]]

(* drain_chunks' loop: what precedes the first marker goes, and without    *)
(* one everything.  A record begins at a marker, and where more bytes      *)
(* follow it, with a marker of either kind after its end.                  *)
DrainAll ==
  /\ \A i \in DOMAIN hxBuf : hxBuf[i].marker # "frame"
  /\ hxBuf' = <<>> /\ hxLoop' = FALSE /\ UNCHANGED hxOut

(* Mutant: of a record that was cut out only the marker is drained. *)
DrainFromNext(first) ==
  LET b == SubSeq(hxBuf, first, Len(hxBuf))
      payload == Len(b) > HxLen /\ b[HxLen + 1].marker = "none"
      whole == Len(b) >= HxLen /\ ~payload
  IN  /\ hxBuf[first].marker = "frame" /\ \A i \in 1 .. first - 1 : hxBuf[i].marker # "frame"
      /\ hxBuf' = IF payload \/ whole THEN Tail(b) ELSE b
      /\ hxOut' = IF whole THEN Append(hxOut, Where(SubSeq(b, 1, HxLen))) ELSE hxOut
      /\ hxLoop' = (payload \/ whole)

DrainFrom(first) ==
  LET b == SubSeq(hxBuf, first, Len(hxBuf))
      payload == Len(b) > HxLen /\ b[HxLen + 1].marker = "none"
      whole == Len(b) >= HxLen /\ ~payload
  IN  /\ hxBuf[first].marker = "frame" /\ \A i \in 1 .. first - 1 : hxBuf[i].marker # "frame"
      /\ hxBuf' = IF payload THEN Tail(b) ELSE IF whole THEN SubSeq(b, HxLen + 1, Len(b)) ELSE b
      /\ hxOut' = IF whole THEN Append(hxOut, Where(SubSeq(b, 1, HxLen))) ELSE hxOut
      /\ hxLoop' = (payload \/ whole)

DrainChunks ==
  /\ hxLoop
  /\ DrainAll \/ \E first \in DOMAIN hxBuf : DrainFrom(first)
  /\ UNCHANGED <<hxKnown, hxDev, hxLink, hxTask, hxAir, hxFaults>>

(* The next n bytes of the stream, in which payload may look like a marker. *)
HxAt(i) == [record |-> (i - 1) \div HxLen + 1, place |-> ((i - 1) % HxLen) + 1]
Sent(n) ==
  {[i \in 1 .. n |-> [record |-> HxAt(hxAir + i).record, place |-> HxAt(hxAir + i).place,
                      marker |-> IF HxAt(hxAir + i).place = 1 THEN "frame" ELSE m[i]]] :
     m \in [1 .. n -> HxMarkers]}

(* A notification with n bytes, of records the tracker sends one after the *)
(* other once it was told to start.                                        *)
Feed(n) ==
  /\ hxTask /\ ~hxLoop /\ hxAir + n <= HxLen * HxMaxRecords
  /\ \E bytes \in Sent(n) : hxBuf' = hxBuf \o bytes
  /\ hxAir' = hxAir + n /\ hxLoop' = TRUE
  /\ UNCHANGED <<hxKnown, hxDev, hxLink, hxTask, hxOut, hxFaults>>

HxNext ==
  \/ HopxEnumerate \/ HopxStart \/ HopxStartFails \/ HopxLost \/ HopxStop
  \/ DrainChunks \/ \E n \in 1 .. HxLen + 1 : Feed(n)

HxSpec == HxInit /\ [][HxNext]_hxVars

-----------------------------------------------------------------------------
(* Properties *)

(* However the stream is split into notifications, and whatever payload    *)
(* looks like a marker, the parser yields each record once, whole and in   *)
(* order, and holds back no more than the bytes of the record under way    *)
(* (protocol.rs:109-151).                                                  *)
HxReassembled ==
  ~hxLoop =>
  /\ hxOut = [r \in 1 .. hxAir \div HxLen |-> [place \in 1 .. HxLen |-> [record |-> r, place |-> place]]]
  /\ Len(hxBuf) = hxAir % HxLen

(* The parser is a stream of records: at every pass of its loop, between   *)
(* notifications and in the middle of one, what it has cut out are the     *)
(* first records sent, the next to come out is the one after them, sent to *)
(* its last byte, and none is left to the next notification                *)
(* (protocol.rs:109-151).                                                  *)
Stream == INSTANCE RecordStream WITH
  Length <- HxLen, sent <- hxAir \div HxLen, out <- hxOut
IsRecordStream == Stream!Spec
=============================================================================
