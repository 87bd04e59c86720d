------------------------------- MODULE MCCore -------------------------------
(***************************************************************************)
(* TLC instance of the modules that make do with few states: the           *)
(* connection state of a client, the haptic bridge, a magnetometer         *)
(* calibration, a pipeline's clock and its filter, without and with a      *)
(* magnetometer, the window's events; and the sources on a bus, on BLE or  *)
(* in a cloud: HID controllers, Joy-Con 2, HOPX and Tesla.  They share no  *)
(* state, and each behaviour is one of theirs: source says whose, and the  *)
(* others stay as they began.                                              *)
(***************************************************************************)
EXTENDS SlimeClient, HapticBridge, MagCalibration, SampleClock, Fusion, VqfField,
        UiEvents, HidScan, HidReader, HidOutput, JoyCon2, TeslaSource, HopxSource

VARIABLE source

(* One device with a proximity rule, one with a pulse rule. *)
SeparateRules == << [address |-> "touch", mac |-> "left", mode |-> "proximity"],
                    [address |-> "hit", mac |-> "right", mode |-> "pulse"],
                    [address |-> "touch", mac |-> "right", mode |-> "pulse"] >>

PadAndVendor == [p \in HidPaths |-> IF p = "pad" THEN "gamepad" ELSE "vendor"]

CoreInit ==
  /\ source \in {"client", "haptics", "magcal", "clock", "filter", "field", "window",
                 "scan", "reader", "output", "joycon2", "tesla", "hopx"}
  /\ Init /\ BridgeInit /\ MagInit /\ CkInit /\ FuInit /\ VqInit /\ UiInit
  /\ HidInit /\ RdInit /\ HoInit /\ JcInit /\ TsInit /\ HxInit
  /\ source # "haptics" => ~enabled
  /\ source # "magcal" => stored = MagNone
  /\ source # "clock" => ckHw /\ ckRate = 10 /\ ckTs = CkPeriod(10)
  /\ source # "field" => vqField = 1
  /\ source # "window" => uiRegistry = {}
  /\ source # "scan" => hidDriver = "joycon"
  /\ source # "reader" => rdDriver = "joycon"
  /\ source # "output" => hoDriver = "psmove"

innerVars == <<clientVars, bridgeVars, magVars, ckVars, fuVars, vqVars, uiStateVars>>
deviceVars == <<hidVars, rdVars, hoVars, jcVars, tsVars, hxVars>>
coreVars == <<innerVars, deviceVars, source>>

Only(s, step, others) == source = s /\ step /\ UNCHANGED <<others, source>>

CoreNext ==
  \/ Only("client", Next, <<bridgeVars, magVars, ckVars, fuVars, vqVars, uiStateVars, deviceVars>>)
  \/ Only("haptics", BridgeNext, <<clientVars, magVars, ckVars, fuVars, vqVars, uiStateVars, deviceVars>>)
  \/ Only("magcal", MagNext, <<clientVars, bridgeVars, ckVars, fuVars, vqVars, uiStateVars, deviceVars>>)
  \/ Only("clock", CkNext, <<clientVars, bridgeVars, magVars, fuVars, vqVars, uiStateVars, deviceVars>>)
  \/ Only("filter", FuNext, <<clientVars, bridgeVars, magVars, ckVars, vqVars, uiStateVars, deviceVars>>)
  \/ Only("field", VqNext, <<clientVars, bridgeVars, magVars, ckVars, fuVars, uiStateVars, deviceVars>>)
  \/ Only("window", UiNext, <<clientVars, bridgeVars, magVars, ckVars, fuVars, vqVars, deviceVars>>)
  \/ Only("scan", HidNext, <<rdVars, hoVars, jcVars, tsVars, hxVars, innerVars>>)
  \/ Only("reader", RdNext, <<hidVars, hoVars, jcVars, tsVars, hxVars, innerVars>>)
  \/ Only("output", HoNext, <<hidVars, rdVars, jcVars, tsVars, hxVars, innerVars>>)
  \/ Only("joycon2", JcNext, <<hidVars, rdVars, hoVars, tsVars, hxVars, innerVars>>)
  \/ Only("tesla", TsStep, <<hidVars, rdVars, hoVars, jcVars, hxVars, innerVars>>)
  \/ Only("hopx", HxNext, <<hidVars, rdVars, hoVars, jcVars, tsVars, innerVars>>)

(* The fairness that the modules state, each in the behaviours it is about. *)
CoreSpec ==
  /\ CoreInit
  /\ [][CoreNext]_coreVars
  /\ WF_bridgeVars(source = "haptics" /\ Bridge)
  /\ WF_bridgeVars(source = "haptics" /\ Time)
  /\ WF_magVars(source = "magcal" /\ HandleMagCalCmd)
  /\ WF_magVars(source = "magcal" /\ Command)
  /\ WF_ckVars(source = "clock" /\ CkBatch)
  /\ WF_vqVars(source = "field" /\ UpdateMag)
  /\ SF_uiStateVars(source = "window" /\ Forward)
  /\ SF_uiStateVars(source = "window" /\ TrackerTask)
  /\ SF_uiStateVars(source = "window" /\ RatesTask)
  /\ WF_uiStateVars(source = "window" /\ Calls)
  /\ WF_uiStateVars(source = "window" /\ PageReceives)
  /\ WF_hidVars(source = "scan" /\ HidStep)
  /\ WF_jcVars(source = "joycon2" /\ JcScanner)
  /\ WF_jcVars(source = "joycon2" /\ JcTick)
  /\ WF_jcVars(source = "joycon2" /\ JcSupervisor)
  /\ \A d \in JcDevs : WF_jcVars(source = "joycon2" /\ JcDevice(d))
  /\ WF_tsVars(source = "tesla" /\ TsRunner)
  /\ WF_tsVars(source = "tesla" /\ TsAbort)

(* No connection, bridge, session, clock, filter, event, loop, reader,     *)
(* bring-up or parser is where its type does not let it be; the channels   *)
(* stay within their capacity.                                             *)
CoreTypeOK ==
  /\ TypeOK /\ BridgeTypeOK /\ MagTypeOK /\ CkTypeOK /\ FuTypeOK /\ VqTypeOK /\ UiTypeOK
  /\ HidTypeOK /\ RdTypeOK /\ HoTypeOK /\ JcTypeOK /\ TsTypeOK /\ HxTypeOK
=============================================================================
