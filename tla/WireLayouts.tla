----------------------------- MODULE WireLayouts -----------------------------
(***************************************************************************)
(* The reports, packets and blocks of memory the crates decode, and those  *)
(* they or the companions write: which lengths are accepted, and which     *)
(* bytes each field is read from.  What a message says of its own contents *)
(* (how long a name is, how many samples follow) is claims, and need not   *)
(* be so.  The values decoded are left out, and so is what a decoder       *)
(* refuses for its contents: a marker, an id, a name that is not UTF-8.    *)
(* Each decoder gives the fields as functions from names to sets of bytes, *)
(* and Refused where it stops at the length.                               *)
(***************************************************************************)
EXTENDS Integers, Sequences, FiniteSets

CONSTANTS
  WlLens,      \* lengths of the messages received
  WlClaims     \* numbers claimed inside

ASSUME WlAssumption == WlLens \subseteq Nat /\ WlClaims \subseteq Nat

VARIABLES wlFormat, wlLen, wlSent, wlFields

wlVars == <<wlFormat, wlLen, wlSent, wlFields>>

Refused == << >>

Bytes(off, n) == off .. (off + n - 1)

Triple(off) == Bytes(off, 6)

Floats(off) == Bytes(off, 12)

(* The fields of both. *)
Joined(f, g) == [x \in DOMAIN f \cup DOMAIN g |-> IF x \in DOMAIN f THEN f[x] ELSE g[x]]

AtLeast(len, min, fields) == IF len >= min THEN fields ELSE Refused

-----------------------------------------------------------------------------
(* Sony's controllers. *)
DualSenses == {"dualsense", "dualsense_edge"}

Offsets(gyro, accel, battery, buttons2) ==
  {[gyro |-> gyro, accel |-> accel, battery |-> battery, buttons_2 |-> buttons2]}

ImuOffsets(kind, len) ==
  CASE kind \in DualSenses /\ len = 64  -> Offsets(16, 22, 53, 10)
    [] kind \in DualSenses /\ len >= 78 -> Offsets(17, 23, 54, 11)
    [] kind = "dualshock4" /\ len = 64  -> Offsets(13, 19, 30, 7)
    [] kind = "dualshock4" /\ len >= 78 -> Offsets(15, 21, 32, 9)
    [] OTHER -> {}

SensorTimestamp(kind, o) ==
  IF kind \in DualSenses THEN [timestamp |-> Bytes(o.accel + 6, 4)] ELSE << >>

PsButton(o) == [ps_button |-> {o.buttons_2}]

SonyReport(kind, len) ==
  IF ImuOffsets(kind, len) = {} THEN Refused
  ELSE LET o == CHOOSE x \in ImuOffsets(kind, len) : TRUE
       IN  Joined([gyro |-> Triple(o.gyro), accel |-> Triple(o.accel), battery |-> {o.battery}],
                  Joined(SensorTimestamp(kind, o), PsButton(o)))

(* Pitch, yaw and roll at either end, each axis after the other or, in the *)
(* DualShock 4's report 0x05, the plus ends before the minus ends.         *)
FeatureCalibration(interleaved, len) ==
  AtLeast(len, 35,
    Joined([bias |-> Triple(1), speed |-> Bytes(19, 4), accel |-> Bytes(23, 12)],
           IF interleaved
             THEN [pitch |-> {7, 8, 13, 14}, yaw |-> {9, 10, 15, 16}, roll |-> {11, 12, 17, 18}]
             ELSE [pitch |-> Bytes(7, 4), yaw |-> Bytes(11, 4), roll |-> Bytes(15, 4)]))

(* The buffers are as long as the report asked for, whatever was read.     *)
FeatureReports(kind) ==
  IF kind = "dualshock4" THEN {<<TRUE, 41>>, <<FALSE, 37>>} ELSE {<<FALSE, 41>>}

Ds5Payload(at) ==
  [flags |-> Bytes(at, 2), motors |-> Bytes(at + 2, 2), mute |-> {at + 38},
   player |-> {at + 43}, rgb |-> Bytes(at + 44, 3)]

Crc == [crc |-> 74..77]

OutputReport(kind, bt) ==
  CASE kind \in DualSenses /\ ~bt -> [len |-> 48, fields |-> Ds5Payload(1)]
    [] kind \in DualSenses /\ bt  -> [len |-> 78, fields |-> Joined(Ds5Payload(2), Crc)]
    [] kind = "dualshock4" /\ ~bt ->
         [len |-> 32, fields |-> [flags |-> {1}, motors |-> Bytes(4, 2), rgb |-> Bytes(6, 3)]]
    [] kind = "dualshock4" /\ bt ->
         [len |-> 78, fields |-> Joined([flags |-> {3}, motors |-> Bytes(6, 2),
                                         rgb |-> Bytes(8, 3), mode |-> Bytes(1, 2)], Crc)]

(* A PS Move's report holds two samples; only the ZCM1 has a magnetometer. *)
PsMoveReport(kind, len) ==
  AtLeast(len, 49,
    Joined([accel_a |-> Triple(13), accel_b |-> Triple(19), gyro_a |-> Triple(25),
            gyro_b |-> Triple(31), battery |-> {12}],
           IF kind = "zcm1" THEN [mag |-> Bytes(38, 5)] ELSE << >>))

(* Six resting poses, the gyro's bias and one turn about each axis.        *)
FactoryBlob(len) ==
  AtLeast(len, 66,
    [accel |-> Bytes(2, 6 * 6), gyro_bias |-> Triple(38),
     turn_x |-> Bytes(48, 2), turn_y |-> Bytes(48 + 6 + 2, 2), turn_z |-> Bytes(48 + 12 + 4, 2)])

Ds3Report(len) ==
  AtLeast(len, 49, [id |-> {0}, accel |-> Triple(41), gyro_z |-> Bytes(47, 2)])

-----------------------------------------------------------------------------
(* Valve's. *)
DeckReport(len) ==
  AtLeast(len, 60, [id |-> {0}, seq |-> Bytes(4, 4), accel |-> Triple(28), gyro |-> Triple(34)])

SteamState(len) ==
  AtLeast(len, 64, [accel |-> Triple(20), gyro |-> Triple(26), quat |-> Bytes(32, 8)])

-----------------------------------------------------------------------------
(* Nintendo's: a Joy-Con's reports and flash, then a Joy-Con 2's. *)
Report0x30(len) ==
  AtLeast(len, 49,
    [id |-> {0}, timer |-> {1}, battery |-> {2}, buttons |-> Bytes(3, 3),
     accel_1 |-> Triple(13), gyro_1 |-> Triple(19), accel_2 |-> Triple(25),
     gyro_2 |-> Triple(31), accel_3 |-> Triple(37), gyro_3 |-> Triple(43)])

SpiReply(len, claimed) ==
  IF len < 20 \/ len < 20 + claimed THEN Refused
  ELSE [id |-> {0}, ack |-> {13}, subcmd |-> {14}, addr |-> Bytes(15, 4), size |-> {19},
        data |-> Bytes(20, claimed)]

FactoryBlock(len) ==
  AtLeast(len, 24, [accel_offset |-> Triple(0), accel_sens |-> Triple(6),
                    gyro_offset |-> Triple(12), gyro_sens |-> Triple(18)])

Report0x05(len) ==
  AtLeast(len, 60,
    [buttons |-> {5}, mag |-> Triple(25), battery |-> Bytes(31, 2), charging |-> {33},
     accel |-> Triple(48), gyro |-> Triple(54)])

(* Every place a product id may stand is looked at, or only a hint.        *)
Advert(len) ==
  AtLeast(len, 5,
    [prefix |-> Bytes(0, 4),
     id |-> {4} \cup IF len >= 6 THEN UNION {Bytes(off, 2) : off \in 4..(len - 2)} ELSE {}])

(* The places from first on where size bytes stand, up to the 24th.        *)
Windows(len, first, size) ==
  UNION {Bytes(off, size) : off \in first .. (IF len - size < 24 THEN len - size ELSE 24)}

ContainsAddr(len) == AtLeast(len, 8, [addr |-> Windows(len, 4, 4)])

FlashMagBias(len) == AtLeast(len, 20, [bias |-> Windows(len, 8, 12)])

FlashPid(len) == AtLeast(len, 14, [pid |-> Windows(len, 8, 2)])

(* A blob is two blocks as they were read, each led by its report id and   *)
(* its number.                                                             *)
BlockLen == 49

BlobLen == 2 * BlockLen

BlockHeaders == UNION {Bytes(BlockLen * b, 2) : b \in 0..1}

-----------------------------------------------------------------------------
(* What the consoles' companions write, and what the crates read. *)
MotionPacket(word) == [accel |-> Bytes(0, 3 * word), gyro |-> Bytes(3 * word, 3 * word)]

ThreeDsSent == [len |-> 12, fields |-> MotionPacket(2)]

VitaSent == [len |-> 24, fields |-> MotionPacket(4)]

ThreeDsPacket(len) ==
  IF len = 12 THEN [accel |-> Triple(0), gyro |-> Triple(6)] ELSE Refused

VitaPacket(len) ==
  IF len = 24 THEN [accel |-> Floats(0), gyro |-> Floats(12)] ELSE Refused

WiiRecordSent ==
  [len |-> 17,
   fields |-> [id |-> {0}, accel |-> Triple(1), data |-> Triple(7), nunchuk |-> {13},
               motionplus |-> {14}, battery |-> {15}, button |-> {16}]]

WiiPacket(len) ==
  IF len = 17
    THEN [id |-> {0}, accel |-> Triple(1), data |-> Triple(7), nunchuk |-> {13},
          battery |-> {15}, button |-> {16}]
    ELSE Refused

(* A record of a HOPX tracker, cut out of the stream by its markers. *)
HopxRecord(len) ==
  IF len = 14 THEN [marker |-> {0}, seq |-> {1}, gyro |-> Triple(2), accel |-> Triple(8)]
              ELSE Refused

-----------------------------------------------------------------------------
(* The phone's and the watch's datagrams: six bytes, then the payload. *)
Header == 6

Payload(off, n) == Bytes(Header + off, n)

(* The length of the name taken at its word. *)
HelloTrusting(len, name) ==
  AtLeast(len, Header + 17,
    [uuid |-> Payload(0, 16), size |-> Payload(16, 1), name |-> Payload(17, name)])

Hello(len, name) ==
  IF len < Header + 17 \/ len < Header + 17 + name THEN Refused
  ELSE Joined([uuid |-> Payload(0, 16), size |-> Payload(16, 1), name |-> Payload(17, name)],
              IF len - (Header + 17 + name) >= 8 THEN [ts |-> Payload(17 + name, 8)] ELSE << >>)

HubAnnounce(len, name) ==
  IF len < Header + 15 \/ len < Header + 15 + name THEN Refused
  ELSE [handle |-> Payload(0, 2), kind |-> Payload(2, 1), mac |-> Payload(3, 6),
        has |-> Payload(9, 3), rate |-> Payload(12, 2), size |-> Payload(14, 1),
        name |-> Payload(15, name)]

(* The bursts of MSG_IMU and, with a sequence number before the count, of  *)
(* MSG_IMU2.                                                               *)
Sample(off) ==
  [ts |-> Payload(off, 8), gyro |-> Payload(off + 8, 12), accel |-> Payload(off + 20, 12),
   has_mag |-> Payload(off + 32, 1), mag |-> Payload(off + 33, 12)]

ImuSamples(len, extra, count) ==
  LET head == [handle |-> Payload(0, 2), seq |-> Payload(2, extra),
               count |-> Payload(2 + extra, 1)]
      names == {0} \X DOMAIN head \cup (1..count) \X DOMAIN Sample(0)
  IN  IF len < Header + 3 + extra \/ len < Header + 3 + extra + 45 * count THEN Refused
      ELSE [f \in names |-> IF f[1] = 0 THEN head[f[2]]
                                        ELSE Sample(3 + extra + 45 * (f[1] - 1))[f[2]]]

HubRemove(len) == AtLeast(len, Header + 2, [handle |-> Payload(0, 2)])

RemoteBattery(len) ==
  AtLeast(len, Header + 7,
    [handle |-> Payload(0, 2), fraction |-> Payload(2, 4), charging |-> Payload(6, 1)])

Button(len) == AtLeast(len, Header + 3, [handle |-> Payload(0, 2), reset |-> Payload(2, 1)])

-----------------------------------------------------------------------------
(* The commands to the controllers, and the replies to a phone or a watch, *)
(* which nothing in this repository reads.  A Joy-Con's command is a report *)
(* 0x01 with so many bytes of data.                                        *)
Report0x01(data) ==
  [len |-> 11 + data,
   fields |-> [id |-> {0}, counter |-> {1}, left |-> Bytes(2, 4), right |-> Bytes(6, 4),
               subcmd |-> {10}, data |-> Bytes(11, data)]]

Report0x80 == [len |-> 2, fields |-> [id |-> {0}, opcode |-> {1}]]

Report0x10 ==
  [len |-> 10,
   fields |-> [id |-> {0}, counter |-> {1}, left |-> Bytes(2, 4), right |-> Bytes(6, 4)]]

(* enable_imu, enable_rumble, set_player_leds, set_input_report_mode; the  *)
(* address and length of a block of flash; and nothing.                    *)
SwitchSubcmd == Report0x01(1)

SpiRead == Report0x01(5)

DeviceInfo == Report0x01(0)

(* A Joy-Con 2's commands: eight bytes, then as many as the sixth says, or *)
(* more.                                                                   *)
Jc2Command(len, fields) ==
  [len |-> len, fields |-> Joined([cmd |-> Bytes(0, 4), size |-> {5}], fields)]

FeatureSelectCmd == Jc2Command(12, [mask |-> {8}])

RumblePresetCmd == Jc2Command(12, [preset |-> {8}])

PlayerLedCmd == Jc2Command(12, [mask |-> {8}])

FlashReadCmd == Jc2Command(16, [address |-> Bytes(8, 4), size_read |-> Bytes(12, 2)])

(* Valve's feature reports are an id and 64 bytes, whatever they hold.     *)
SteamSimple == [len |-> 65, fields |-> [id |-> {0}, cmd |-> {1}, size |-> {2}]]

SteamSetting ==
  [len |-> 65,
   fields |-> [id |-> {0}, cmd |-> {1}, size |-> {2}, key |-> {3}, value |-> Bytes(4, 2)]]

LizardReport == [len |-> 65, fields |-> [id |-> {0}]]

PsMoveOutput == [len |-> 9, fields |-> [id |-> {0}, rgb |-> Bytes(2, 3), rumble |-> {6}]]

HubReply(fields) == Joined([magic |-> Bytes(0, 4), version |-> {4}, msg |-> {5}], fields)

HelloAck == [len |-> 7, fields |-> HubReply([server |-> Payload(0, 1)])]

HelloAckEcho ==
  [len |-> 15, fields |-> HubReply([server |-> Payload(0, 1), ts |-> Payload(1, 8)])]

HubRumble ==
  [len |-> 12, fields |-> HubReply([handle |-> Payload(0, 2), intensity |-> Payload(2, 4)])]

Commands ==
  [switch_subcmd |-> SwitchSubcmd, spi_read |-> SpiRead, device_info |-> DeviceInfo,
   usb |-> Report0x80, rumble |-> Report0x10, features |-> FeatureSelectCmd,
   preset |-> RumblePresetCmd, leds |-> PlayerLedCmd, flash_read |-> FlashReadCmd,
   simple |-> SteamSimple, setting |-> SteamSetting, lizard |-> LizardReport,
   psmove |-> PsMoveOutput, hello_ack |-> HelloAck, hello_ack_echo |-> HelloAckEcho,
   hub_rumble |-> HubRumble]

-----------------------------------------------------------------------------
(* SlimeVR's packets: a tag and a sequence number, then the body; in a     *)
(* bundle each body follows its length and its tag.                        *)
SlimeHeader == 12

Body(packet) ==
  CASE packet = "heartbeat" -> [sensor |-> {0}]
    [] packet = "handshake" ->
         [board |-> Bytes(0, 4), imu |-> Bytes(4, 4), mcu |-> Bytes(8, 4), info |-> Floats(12),
          version |-> Bytes(24, 4), count |-> {28}]
    [] packet = "acceleration"  -> [vector |-> Floats(0), sensor |-> {12}]
    [] packet = "magnetometer"  ->
         [sensor |-> {0}, type |-> {1}, vector |-> Floats(2), cal |-> {14}]
    [] packet = "ping"          -> [challenge |-> Bytes(0, 4)]
    [] packet = "battery_level" -> [volts |-> Bytes(0, 4), level |-> Bytes(4, 4)]
    [] packet = "sensor_info"   ->
         [sensor |-> {0}, status |-> {1}, type |-> {2}, config |-> Bytes(3, 2), rest |-> {5},
          position |-> {6}, data |-> {7}]
    [] packet = "rotation"      ->
         [sensor |-> {0}, type |-> {1}, quat |-> Bytes(2, 16), cal |-> {18}]
    [] packet = "user_action"   -> [action |-> {0}]
    [] packet = "ack_config"    -> [sensor |-> {0}, config |-> Bytes(1, 2)]

SlimePackets ==
  {"heartbeat", "acceleration", "magnetometer", "ping", "battery_level", "sensor_info",
   "rotation", "user_action", "ack_config"}

Motion == {"acceleration", "rotation"}

(* What a name is cut to before its length is written in one byte.         *)
SlimeString(n) == IF n > 255 THEN 255 ELSE n

(* The name of n bytes follows its count, and the MAC the name.            *)
Handshake(n) == Joined(Body("handshake"), [name |-> Bytes(29, n), mac |-> Bytes(29 + n, 6)])

SizeOf(fields) == Cardinality(UNION {fields[f] : f \in DOMAIN fields})

BodyLen(packet) == SizeOf(Body(packet))

(* The server's packets: a byte too many is refused, as is one too few,    *)
(* where a body does not extend to the end.                                *)
Clientbound(packet, len) ==
  LET body == [ping |-> 4, heartbeat |-> 0, discovery |-> 0, config |-> 4]
  IN  CASE packet \in {"flags", "hey"} ->
             AtLeast(len, SlimeHeader, [rest |-> SlimeHeader..(len - 1)])
        [] packet \in DOMAIN body ->
             IF len = SlimeHeader + body[packet]
               THEN [tag |-> Bytes(0, 4), seq |-> Bytes(4, 8),
                     body |-> Bytes(SlimeHeader, body[packet])]
               ELSE Refused

(* Where the k-th inner packet starts when the ones before claim lengths.  *)
PartAt(claims, k) ==
  LET After[i \in 0..(k - 1)] ==
        IF i = 0 THEN SlimeHeader ELSE After[i - 1] + 2 + claims[i]
  IN  After[k - 1]

Inner(claims, k) ==
  [size |-> Bytes(PartAt(claims, k), 2), type |-> Bytes(PartAt(claims, k) + 2, 4),
   payload |-> Bytes(PartAt(claims, k) + 6, claims[k] - 4)]

InnerFields == {"payload", "size", "type"}

(* The lengths without the tags they cover. *)
ClaimsPayload(packets) == [k \in DOMAIN packets |-> BodyLen(packets[k])]

(* encode_bundle of these packets, in order: what it writes as lengths,    *)
(* and where.                                                              *)
Claims(packets) == [k \in DOMAIN packets |-> 4 + BodyLen(packets[k])]

BundleSent(packets) ==
  LET At[k \in 1..(Len(packets) + 1)] ==
        IF k = 1 THEN SlimeHeader ELSE At[k - 1] + 6 + BodyLen(packets[k - 1])
      inner(k) == [size |-> Bytes(At[k], 2), type |-> Bytes(At[k] + 2, 4),
                   payload |-> Bytes(At[k] + 6, BodyLen(packets[k]))]
  IN  [len |-> At[Len(packets) + 1],
       fields |-> [f \in {<<k, name>> : k \in DOMAIN packets, name \in InnerFields} |->
                     inner(f[1])[f[2]]]]

(* The loop stops at the end of the datagram or where one does not fit.    *)
Bundle(len, claims) ==
  LET Fits(k) == /\ len >= PartAt(claims, k) + 6
                 /\ claims[k] >= 4
                 /\ len >= PartAt(claims, k) + 2 + claims[k]
      ends == {n \in 0..Len(claims) : /\ \A k \in 1..n : Fits(k)
                                      /\ PartAt(Append(claims, 0), n + 1) = len}
  IN  IF len < SlimeHeader \/ ends = {} THEN Refused
      ELSE [f \in {<<k, name>> : k \in 1..(CHOOSE n \in ends : TRUE),
                                 name \in InnerFields} |->
              Inner(claims, f[1])[f[2]]]

-----------------------------------------------------------------------------
(* A decoder keeps nothing of the message before, so one is enough: from a *)
(* device or a peer that may send anything, or from a writer that is in    *)
(* this repository too.                                                    *)
ServerTags == {"discovery", "heartbeat", "ping", "flags", "config", "hey"}

Sony == DualSenses \cup {"dualshock4"}

OneLength == Sony \cup
  {"zcm1", "zcm2", "blob", "ds3", "deck", "steam", "0x30", "spi_block", "0x05", "advert",
   "flash_addr", "flash_bias", "flash_pid", "remove", "battery", "button", "3ds", "vita",
   "wii", "hopx"} \cup ServerTags

OneClaim == {"spi_reply", "hello", "announce", "imu", "imu2"}

ReadOneLength(format, len) ==
  CASE format \in Sony -> SonyReport(format, len)
    [] format \in {"zcm1", "zcm2"} -> PsMoveReport(format, len)
    [] format = "blob"       -> FactoryBlob(len)
    [] format = "ds3"        -> Ds3Report(len)
    [] format = "deck"       -> DeckReport(len)
    [] format = "steam"      -> SteamState(len)
    [] format = "0x30"       -> Report0x30(len)
    [] format = "spi_block"  -> FactoryBlock(len)
    [] format = "0x05"       -> Report0x05(len)
    [] format = "advert"     -> Advert(len)
    [] format = "flash_addr" -> ContainsAddr(len)
    [] format = "flash_bias" -> FlashMagBias(len)
    [] format = "flash_pid"  -> FlashPid(len)
    [] format = "remove"     -> HubRemove(len)
    [] format = "battery"    -> RemoteBattery(len)
    [] format = "button"     -> Button(len)
    [] format = "3ds"        -> ThreeDsPacket(len)
    [] format = "vita"       -> VitaPacket(len)
    [] format = "wii"        -> WiiPacket(len)
    [] format = "hopx"       -> HopxRecord(len)
    [] format \in ServerTags  -> Clientbound(format, len)

ReadOneClaim(format, len, n) ==
  CASE format = "spi_reply" -> SpiReply(len, n)
    [] format = "hello"     -> Hello(len, n)
    [] format = "announce"  -> HubAnnounce(len, n)
    [] format = "imu"       -> ImuSamples(len, 0, n)
    [] format = "imu2"      -> IF len < Header + 5 THEN Refused ELSE ImuSamples(len, 2, n)

Pairs(fields) == {<<f, fields[f]>> : f \in DOMAIN fields}

WlInit == wlFormat = "none" /\ wlLen = 0 /\ wlSent = {} /\ wlFields = {}

Arrives(format, len, fields) ==
  /\ wlFormat' = format /\ wlLen' = len /\ wlFields' = Pairs(fields)
  /\ wlSent' = {}

Receive ==
  \E len \in WlLens :
    \/ \E format \in OneLength : Arrives(format, len, ReadOneLength(format, len))
    \/ \E format \in OneClaim, n \in WlClaims :
         Arrives(format, len, ReadOneClaim(format, len, n))
    \/ \E claims \in UNION {[1..n -> WlClaims] : n \in 0..2} :
         Arrives("bundle", len, Bundle(len, claims))

(* The report id a controller is asked for decides the buffer.             *)
GetFeature ==
  \E kind \in Sony : \E r \in FeatureReports(kind) :
    Arrives("feature", r[2], FeatureCalibration(r[1], r[2]))

Sends(format, written, fields) ==
  /\ wlFormat' = format /\ wlLen' = written.len /\ wlSent' = Pairs(written.fields)
  /\ wlFields' = Pairs(fields)

WriteOutput ==
  \/ \E kind \in Sony, bt \in BOOLEAN : Sends(kind, OutputReport(kind, bt), Refused)
  \/ \E command \in DOMAIN Commands : Sends(command, Commands[command], Refused)

(* What is written here is read here as well.                              *)
Exchange ==
  \/ Sends("3ds", ThreeDsSent, ThreeDsPacket(ThreeDsSent.len))
  \/ Sends("vita", VitaSent, VitaPacket(VitaSent.len))
  \/ Sends("wii", WiiRecordSent, WiiPacket(WiiRecordSent.len))
  \/ \E n \in WlClaims :
       LET written == Handshake(SlimeString(n))
       IN  Sends("handshake", [len |-> SizeOf(written), fields |-> written],
                 Handshake(SlimeString(n) % 256))
  \/ \E packet \in SlimePackets :
       Sends(packet, [len |-> BodyLen(packet), fields |-> Body(packet)], Body(packet))
  \/ \E packets \in UNION {[1..n -> Motion] : n \in 1..2} :
       Sends("bundle", BundleSent(packets), Bundle(BundleSent(packets).len, Claims(packets)))

WlNext == wlFormat = "none" /\ (Receive \/ GetFeature \/ WriteOutput \/ Exchange)

WlSpec == WlInit /\ [][WlNext]_wlVars

-----------------------------------------------------------------------------
(* A scan looks at the same bytes more than once, by intent.               *)
Scans == {"advert", "flash_addr", "flash_bias", "flash_pid"}

Lie(fields) ==
  /\ \A p \in fields : p[2] \subseteq 0..(wlLen - 1)
  /\ wlFormat \notin Scans => \A p, q \in fields : p # q => p[2] \cap q[2] = {}

(* Whatever a message's length, and whatever it claims of its contents,    *)
(* every byte read or written lies inside it, and no byte is taken for two *)
(* fields: a slice beyond the end would end the task that reads.           *)
FieldsInsideApart == Lie(wlFields) /\ Lie(wlSent)

(* What a companion or the bundle encoder writes is accepted, and every    *)
(* field is read from where it was written.                                *)
ReadAsWritten ==
  wlSent # {} /\ wlFormat \notin Sony \cup DOMAIN Commands => wlFields # {} /\ wlFields \subseteq wlSent

(* calibration.rs:6-9 and pairing.rs:42-44 tell the header of a block from *)
(* the data of the blob: no number of the calibration is read from one.    *)
BlobIsData ==
  wlFormat = "blob" /\ wlLen = BlobLen => \A p \in wlFields : p[2] \cap BlockHeaders = {}
=============================================================================
