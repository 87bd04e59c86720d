----------------------------- MODULE ResetButtons -----------------------------
(***************************************************************************)
(* ResetButtonDetector, crates/device-traits/src/reset.rs: a reader gives  *)
(* it the buttons of each report, and it tells a short press of Home or a  *)
(* press of Capture, which ask for a yaw reset, from a long press of Home, *)
(* which asks for a full one.  Between two reports any time may pass.      *)
(***************************************************************************)
EXTENDS Naturals

CONSTANTS
  RbLong,      \* long_threshold, in ticks
  RbDebounce,  \* debounce, in ticks
  RbMaxPresses \* bound: presses

ASSUME RbAssumption ==
  RbLong \in Nat \ {0} /\ RbDebounce \in Nat \ {0} /\ RbMaxPresses \in Nat

NotPressed == RbLong + 1

VARIABLES
  rbCaptureOnly, \* the pad has no Home: a left Joy-Con
  rbDown,        \* the buttons down in the last report
  rbHeld,        \* ticks since pressed_since, up to RbLong; or NotPressed
  rbCaptureWas,  \* capture_was_pressed
  rbSince,       \* ticks since last_emit, up to RbDebounce
  rbPresses,     \* history: presses that the reports show
  rbResets,      \* history: resets asked for
  rbCloser       \* history: two of them were closer than RbDebounce

rbVars ==
  <<rbCaptureOnly, rbDown, rbHeld, rbCaptureWas, rbSince, rbPresses, rbResets, rbCloser>>

RbTypeOK ==
  /\ rbCaptureOnly \in BOOLEAN
  /\ rbDown \subseteq {"home", "capture"}
  /\ rbHeld \in 0..RbLong \cup {NotPressed}
  /\ rbCaptureWas \in BOOLEAN
  /\ rbSince \in 0..RbDebounce
  /\ rbPresses \in 0..(RbMaxPresses + 1) /\ rbResets \in Nat /\ rbCloser \in BOOLEAN

RbInit ==
  /\ rbCaptureOnly \in BOOLEAN
  /\ rbDown = {} /\ rbHeld = NotPressed /\ rbCaptureWas = FALSE
  /\ rbSince = RbDebounce /\ rbPresses = 0 /\ rbResets = 0 /\ rbCloser = FALSE

-----------------------------------------------------------------------------
InDebounce == rbSince < RbDebounce

RbQuiet == UNCHANGED <<rbSince, rbResets, rbCloser>>

(* A yaw and a full reset are asked for alike.                             *)
Emit ==
  /\ rbSince' = 0
  /\ rbResets' = rbResets + 1
  /\ rbCloser' = (rbCloser \/ InDebounce)

EmitUnlessDebounced == IF InDebounce THEN RbQuiet ELSE Emit

(* Capture that is held fires again after each debounce. *)
CaptureHeld(down) ==
  /\ rbCaptureWas' = FALSE
  /\ UNCHANGED rbHeld
  /\ EmitUnlessDebounced

(* The press of Capture; what the report says of Home is not looked at.    *)
CaptureEdge(down) ==
  /\ rbCaptureWas' = TRUE
  /\ UNCHANGED rbHeld
  /\ EmitUnlessDebounced

(* Home fires as it is released. *)
Home(down) ==
  /\ rbCaptureWas' = ("capture" \in down)
  /\ \/ /\ "home" \in down
        /\ rbHeld' = IF rbHeld = NotPressed THEN 0 ELSE rbHeld
        /\ RbQuiet
     \/ /\ "home" \notin down
        /\ rbHeld' = NotPressed
        /\ IF rbHeld = NotPressed THEN RbQuiet ELSE EmitUnlessDebounced

CaptureOnly(down) ==
  /\ UNCHANGED rbCaptureWas
  /\ IF "capture" \in down
       THEN IF rbHeld = NotPressed THEN rbHeld' = 0 /\ EmitUnlessDebounced
                                   ELSE RbQuiet /\ UNCHANGED rbHeld
       ELSE rbHeld' = NotPressed /\ RbQuiet

PressesOf(down) ==
  IF down \ rbDown = {"home", "capture"} THEN 2 ELSE IF down \subseteq rbDown THEN 0 ELSE 1

RbObserve(down) ==
  /\ rbPresses < RbMaxPresses \/ down \subseteq rbDown
  /\ rbPresses' = rbPresses + PressesOf(down)
  /\ rbDown' = down
  /\ IF rbCaptureOnly THEN CaptureOnly(down)
     ELSE IF "capture" \in down /\ ~rbCaptureWas THEN CaptureEdge(down)
     ELSE Home(down)
  /\ UNCHANGED rbCaptureOnly

RbTick ==
  /\ rbHeld' = IF rbHeld < RbLong THEN rbHeld + 1 ELSE rbHeld
  /\ rbSince' = IF InDebounce THEN rbSince + 1 ELSE rbSince
  /\ UNCHANGED <<rbCaptureOnly, rbDown, rbCaptureWas, rbPresses, rbResets, rbCloser>>

Pads == {{}, {"home"}, {"capture"}, {"home", "capture"}}

RbNext ==
  \/ RbTick
  \/ \E down \in Pads : (rbCaptureOnly => "home" \notin down) /\ RbObserve(down)

RbSpec == RbInit /\ [][RbNext]_rbVars

-----------------------------------------------------------------------------
(* However the two buttons overlap and whatever time passes, every reset   *)
(* has a press of its own: one that is held, or whose reset the debounce   *)
(* swallowed, asks for no other later.  And no two resets are asked for    *)
(* within the debounce, by the same button or by both.                     *)
ResetsAnswerPresses == rbResets <= rbPresses /\ ~rbCloser
=============================================================================
