------------------------------ MODULE MCSafety ------------------------------
(***************************************************************************)
(* TLC instance of the modules of which nothing is checked that needs      *)
(* fairness: a tracker's session with the server, the order of its         *)
(* datagrams, the layout of every message, a device's settings, the        *)
(* channel of discoveries, the Wii's forwarder, a hub's loss count, and a  *)
(* Joy-Con's calibration and buttons.                                      *)
(* They share no state, and each behaviour is one of theirs: source says   *)
(* whose, and the others stay as they began.  The session, the Wii's       *)
(* forwarder and the buttons must never come to a stop.                    *)
(***************************************************************************)
EXTENDS SlimeSession, WireOrder, WireLayouts, LiveConfig, DiscoveryChannel,
        WiiForwarder, RemoteLoss, SpiCalibration, ResetButtons

VARIABLE source

(* Beyond the longest fixed layout. *)
MessageLengths == 0..130

SafetyInit ==
  /\ source \in {"session", "order", "layout", "settings", "channel", "wii", "loss",
                 "calibration", "buttons"}
  /\ SessionInit /\ WoInit /\ WlInit /\ LcInit /\ DcInit /\ WiiInit /\ LoInit /\ SpInit /\ RbInit
  /\ source # "calibration" => spFlash = [place \in Places |-> TRUE]
  /\ source # "buttons" => ~rbCaptureOnly

wireVars == <<sessionVars, woVars, wlVars, lcVars>>
padVars  == <<dcVars, wiiVars, loVars, spVars, rbVars>>
safetyVars == <<wireVars, padVars, source>>

Only(s, step, others) == source = s /\ step /\ UNCHANGED <<others, source>>

SafetyNext ==
  \/ Only("session", SessionNext, <<woVars, wlVars, lcVars, padVars>>)
  \/ Only("order", WoNext, <<sessionVars, wlVars, lcVars, padVars>>)
  \/ Only("layout", WlNext, <<sessionVars, woVars, lcVars, padVars>>)
  \/ Only("settings", LcNext, <<sessionVars, woVars, wlVars, padVars>>)
  \/ Only("channel", DcNext, <<wiiVars, loVars, spVars, rbVars, wireVars>>)
  \/ Only("wii", WiiNext, <<dcVars, loVars, spVars, rbVars, wireVars>>)
  \/ Only("loss", LoNext, <<dcVars, wiiVars, spVars, rbVars, wireVars>>)
  \/ Only("calibration", SpNext, <<dcVars, wiiVars, loVars, rbVars, wireVars>>)
  \/ Only("buttons", RbNext, <<dcVars, wiiVars, loVars, spVars, wireVars>>)
  \/ source \in {"order", "layout", "settings", "channel", "loss", "calibration"}
     /\ UNCHANGED safetyVars

SafetySpec == SafetyInit /\ [][SafetyNext]_safetyVars

(* One disturbance at a time: a lapse of the server's PINGs, a stall of    *)
(* the watchdog, something lost, or the user changing a setting.           *)
OneDisturbance ==
  lapses + stalls + faults + (IF magOn THEN 1 ELSE 0) + (IF paused THEN 1 ELSE 0) <= 1

(* At most two kinds of datagrams are under way, so that one overtakes the *)
(* other, and at most one of them to the client.                           *)
FewUnderWay ==
  Cardinality(toClient) <= 1 /\ Cardinality(toServer) + Cardinality(toClient) <= 2

(* One reset separates two handshakes.  MCCore, where the client is alone, *)
(* goes on to the second and third of a silence.                           *)
OneReset == falls <= 1
=============================================================================
