-------------------------- MODULE MCDeviceRegistry --------------------------
(***************************************************************************)
(* TLC instance of DeviceRegistry: one physical device, found again and    *)
(* again.  A controller comes back with another serial and a shutdown      *)
(* comes in between; a synthetic device is found by the supervisor that    *)
(* started with the program and by those of two calls of                   *)
(* restart_synthetic.  Devices with different MACs share nothing in the    *)
(* registry but the supervisor's time.                                     *)
(***************************************************************************)
EXTENDS DeviceRegistry

OneDevice == \A i, j \in Incarnations : Mac(i) = Mac(j)
Synthetic == \A i \in Incarnations : Mac(i) \in SyntheticMacs

(* Which of the serials a controller has first makes no difference.        *)
MCInit == Init /\ OneDevice /\ ident[1].serial = SyntheticSerial

(* A controller meets one shutdown, after which nothing is started: what a *)
(* supervisor for synthetic devices finds is not this device.              *)
OneShutdown == ~Synthetic => \A c \in Calls : sup[c] # "unborn" => c = 1 /\ sup[c] = "drain"

MCSpec == MCInit /\ [][Next /\ OneShutdown']_vars /\ Fairness
=============================================================================
