------------------------------ MODULE CoreProofs ------------------------------
(***************************************************************************)
(* What MCCore composes, for every value of its constants: the haptic      *)
(* bridge knows every motor that it runs; a PS Move that was stopped is    *)
(* dark; a pipeline's clock keeps a period; the window's queues keep what  *)
(* they may hold; and, with what SlimeClientProofs, PipelineProofs and     *)
(* ReaderProofs establish, all of them together.  The reset buttons of a   *)
(* controller are here too: every reset has a press of its own, and no two *)
(* are within the debounce.                                                *)
(***************************************************************************)
EXTENDS MCCore, ResetButtons, SlimeClientProofs, PipelineProofs, ReaderProofs

(***************************************************************************)
(* Reset buttons.  A press of Home is answered when it is released, which  *)
(* may be reports later and, as a press of Capture hides Home for a        *)
(* report, may not be the release of the press that was noticed.  So the   *)
(* resets asked for and the one that Home still owes are counted together. *)
(***************************************************************************)

(* A press of Home that no reset answered yet. *)
RbOwed == rbHeld # NotPressed \/ "home" \in rbDown

(* What is true of a pad with both buttons, ... *)
BothButtons ==
  /\ rbCaptureWas <=> "capture" \in rbDown
  /\ rbResets + (IF RbOwed THEN 1 ELSE 0) <= rbPresses

(* ... and of a left Joy-Con. *)
OneButton ==
  /\ "home" \notin rbDown
  /\ rbHeld # NotPressed <=> "capture" \in rbDown
  /\ rbResets <= rbPresses

RbIInv ==
  /\ RbTypeOK
  /\ ~rbCloser
  /\ IF rbCaptureOnly THEN OneButton ELSE BothButtons

LEMMA RbInitIInv == RbInit => RbIInv
<1> SUFFICES ASSUME RbInit PROVE RbIInv
  OBVIOUS
<1> USE DEF RbInit
<1>1. RbTypeOK /\ ~rbCloser
  <2>1. rbPresses \in 0..(RbMaxPresses + 1) /\ rbSince \in 0..RbDebounce /\ rbResets \in Nat
    BY RbAssumption
  <2>2. rbCloser \in BOOLEAN /\ rbCaptureWas \in BOOLEAN /\ ~rbCloser
    OBVIOUS
  <2>3. rbDown \subseteq {"home", "capture"} /\ rbHeld \in 0..RbLong \cup {NotPressed}
    OBVIOUS
  <2> QED BY <2>1, <2>2, <2>3 DEF RbTypeOK
<1>2. OneButton /\ BothButtons
  BY DEF OneButton, BothButtons, RbOwed
<1> QED BY <1>1, <1>2 DEF RbIInv

(* How many presses a report shows. *)
LEMMA Counted ==
  ASSUME NEW down \in Pads, rbDown \subseteq {"home", "capture"}
  PROVE  /\ PressesOf(down) \in 0..2
         /\ \A b \in down : b \notin rbDown => PressesOf(down) >= 1
         /\ {"home", "capture"} \subseteq down \ rbDown => PressesOf(down) = 2
         /\ ~(down \subseteq rbDown) \/ PressesOf(down) = 0
BY DEF PressesOf, Pads

(* Within the debounce nothing is asked for. *)
LEMMA Spaced ==
  ASSUME RbTypeOK, ~rbCloser, RbQuiet \/ EmitUnlessDebounced
  PROVE  /\ rbCloser' = FALSE /\ rbSince' \in 0..RbDebounce
         /\ rbResets' \in {rbResets, rbResets + 1}
BY RbAssumption DEF RbQuiet, EmitUnlessDebounced, Emit, InDebounce, RbTypeOK

LEMMA RbTickIInv == ASSUME RbIInv, RbTick PROVE RbIInv'
<1> USE DEF RbIInv, RbTick
<1>1. RbTypeOK'
  BY RbAssumption DEF RbTypeOK, NotPressed, InDebounce
<1>2. rbHeld' # NotPressed <=> rbHeld # NotPressed
  BY RbAssumption DEF RbTypeOK, NotPressed
<1> QED BY <1>1, <1>2 DEF OneButton, BothButtons, RbOwed

(* What every report leaves in its type. *)
LEMMA ObserveTypes ==
  ASSUME RbIInv, NEW down \in Pads, RbObserve(down)
  PROVE  RbTypeOK' /\ ~rbCloser'
<1> USE DEF RbIInv, RbObserve
<1>1. rbDown' \subseteq {"home", "capture"} /\ rbCaptureOnly' \in BOOLEAN
  BY DEF Pads, RbTypeOK
<1>2. rbPresses' \in 0..(RbMaxPresses + 1)
  BY Counted, RbAssumption DEF RbTypeOK
<1>3. rbHeld' \in {rbHeld, 0, NotPressed}
  BY DEF CaptureOnly, CaptureEdge, Home
<1>4. rbCaptureWas' \in BOOLEAN
  <2>1. ("capture" \in down) \in BOOLEAN
    OBVIOUS
  <2> QED BY <2>1, Zenon DEF RbTypeOK, CaptureOnly, CaptureEdge, Home
<1>5. RbQuiet \/ EmitUnlessDebounced
  BY DEF CaptureOnly, CaptureEdge, Home
<1>6. /\ rbCloser' = FALSE /\ rbSince' \in 0..RbDebounce
      /\ rbResets' \in {rbResets, rbResets + 1}
  <2> HIDE DEF RbObserve
  <2> QED BY <1>5, Spaced
<1>7. rbResets' \in Nat /\ rbHeld' \in 0..RbLong \cup {NotPressed}
  <2> HIDE DEF RbObserve
  <2> QED BY <1>3, <1>6, RbAssumption DEF RbTypeOK
<1>8. rbCloser' \in BOOLEAN /\ ~rbCloser'
  BY <1>6
<1> QED BY <1>1, <1>2, <1>4, <1>6, <1>7, <1>8 DEF RbTypeOK

LEMMA ObserveIInv ==
  ASSUME RbIInv, NEW down \in Pads, rbCaptureOnly => "home" \notin down, RbObserve(down)
  PROVE  RbIInv'
<1> USE DEF RbIInv, RbObserve
<1>1. RbTypeOK' /\ ~rbCloser'
  BY ObserveTypes
<1>2. /\ PressesOf(down) \in 0..2
      /\ \A b \in down : b \notin rbDown => PressesOf(down) >= 1
      /\ {"home", "capture"} \subseteq down \ rbDown => PressesOf(down) = 2
  BY Counted DEF RbTypeOK
<1>3. rbPresses \in Nat /\ rbResets \in Nat
  BY DEF RbTypeOK
<1>4. CASE rbCaptureOnly
  <2>1. CASE "capture" \in down /\ rbHeld = NotPressed
    <3>1. rbHeld' # NotPressed /\ rbResets' \in {rbResets, rbResets + 1}
      BY <1>4, <2>1, RbAssumption, Spaced DEF CaptureOnly, NotPressed
    <3> QED BY <1>1, <1>2, <1>3, <1>4, <2>1, <3>1 DEF OneButton
  <2>2. CASE "capture" \notin down \/ rbHeld # NotPressed
    <3>1. /\ rbResets' = rbResets
          /\ rbHeld' # NotPressed <=> "capture" \in down
      BY <1>4, <2>2 DEF CaptureOnly, RbQuiet
    <3> QED BY <1>1, <1>2, <1>3, <1>4, <3>1 DEF OneButton
  <2> QED BY <2>1, <2>2
<1>5. CASE ~rbCaptureOnly /\ "capture" \in down /\ ~rbCaptureWas
  <2>1. /\ rbResets' \in {rbResets, rbResets + 1}
        /\ rbHeld' = rbHeld /\ rbCaptureWas' = TRUE
    BY <1>5, Spaced DEF CaptureEdge
  <2>2. "capture" \notin rbDown
    BY <1>5 DEF BothButtons
  <2>3. "home" \in down \ rbDown => PressesOf(down) = 2
    BY <1>2, <1>5, <2>2
  <2>4. rbResets' + (IF RbOwed' THEN 1 ELSE 0) <= rbPresses'
    BY <1>2, <1>3, <1>5, <2>1, <2>2, <2>3 DEF BothButtons, RbOwed
  <2> QED BY <1>1, <1>5, <2>1, <2>4 DEF BothButtons
<1>6. CASE ~rbCaptureOnly /\ ~("capture" \in down /\ ~rbCaptureWas)
  <2>1. Home(down)
    BY <1>6
  <2>2. CASE "home" \in down
    <3>1. rbResets' = rbResets
      BY <2>1, <2>2 DEF Home, RbQuiet
    <3>2. "home" \notin rbDown => PressesOf(down) >= 1
      BY <1>2, <2>2
    <3>3. rbCaptureWas' <=> "capture" \in down
      BY <2>1 DEF Home
    <3>4. "home" \in rbDown => RbOwed
      BY DEF RbOwed
    <3>5. rbResets' + 1 <= rbPresses'
      BY <1>2, <1>3, <1>6, <2>2, <3>1, <3>2, <3>4 DEF BothButtons
    <3> QED BY <1>1, <1>3, <1>6, <3>1, <3>3, <3>5 DEF BothButtons, RbTypeOK
  <2>3. CASE "home" \notin down
    <3>1. rbCaptureWas' <=> "capture" \in down
      BY <2>1 DEF Home
    <3>2. ~RbOwed'
      BY <2>1, <2>3 DEF RbOwed, Home, NotPressed
    <3>3. rbResets' <= rbPresses'
      <4>1. CASE rbHeld = NotPressed
        <5>1. rbResets' = rbResets
          BY <2>1, <2>3, <4>1 DEF Home, RbQuiet
        <5>2. rbResets <= rbPresses
          BY <1>3, <1>6 DEF BothButtons
        <5> QED BY <1>2, <1>3, <5>1, <5>2
      <4>2. CASE rbHeld # NotPressed
        <5>1. rbResets' \in {rbResets, rbResets + 1}
          BY <2>1, <2>3, <4>2, Spaced DEF Home
        <5>2. rbResets + 1 <= rbPresses
          BY <1>6, <4>2 DEF BothButtons, RbOwed
        <5> QED BY <1>2, <1>3, <5>1, <5>2
      <4> QED BY <4>1, <4>2
    <3>4. rbResets' \in Nat
      BY <1>1 DEF RbTypeOK
    <3>5. BothButtons'
      BY <3>1, <3>2, <3>3, <3>4 DEF BothButtons
    <3> QED BY <1>1, <1>6, <3>5
  <2> QED BY <2>2, <2>3
<1> QED BY <1>4, <1>5, <1>6

LEMMA RbNextIInv == RbIInv /\ [RbNext]_rbVars => RbIInv'
<1> SUFFICES ASSUME RbIInv, [RbNext]_rbVars PROVE RbIInv'
  OBVIOUS
<1>1. CASE RbTick
  BY <1>1, RbTickIInv
<1>2. CASE \E down \in Pads : (rbCaptureOnly => "home" \notin down) /\ RbObserve(down)
  BY <1>2, ObserveIInv
<1>3. CASE UNCHANGED rbVars
  BY <1>3 DEF rbVars, RbIInv, RbTypeOK, OneButton, BothButtons, RbOwed
<1> QED BY <1>1, <1>2, <1>3 DEF RbNext

LEMMA RbIInvImplies == RbIInv => ResetsAnswerPresses
BY DEF RbIInv, RbTypeOK, OneButton, BothButtons, ResetsAnswerPresses

(* ResetButtonDetector asks for no more resets than there were presses,    *)
(* and for no two within the debounce (reset.rs:55-118).                   *)
THEOREM PressesAnsweredOnce == RbSpec => []ResetsAnswerPresses
BY RbInitIInv, RbNextIInv, RbIInvImplies, PTL DEF RbSpec

(* Type correctness, with the clocks bounded by what they are compared to. *)
THEOREM RbTypeCorrect == RbSpec => []RbTypeOK
<1>1. RbIInv => RbTypeOK
  BY DEF RbIInv
<1> QED BY <1>1, RbInitIInv, RbNextIInv, PTL DEF RbSpec

(***************************************************************************)
(* The output of a PS Move.  By the time the pad is told to be dark its    *)
(* output thread has been joined, and it stays so: the level the thread    *)
(* copied before can no longer be written.                                 *)
(***************************************************************************)
JoinedThenDark ==
  hoDriver = "psmove" /\ hoPc = "closed" => hoThread = "done" /\ (hoPad = 0 \/ hoLost)

HoIInv == HoTypeOK /\ JoinedThenDark

LEMMA HoInitIInv == HoInit => HoIInv
<1> SUFFICES ASSUME HoInit PROVE HoIInv
  OBVIOUS
<1> USE DEF HoInit
<1>1. {hoFlag, hoSeen, hoLost} \subseteq BOOLEAN
  OBVIOUS
<1>2. {hoWant, hoBeat, hoPad} \subseteq HoLevels /\ hoFaults \in 0 .. HoMaxFaults
  BY HoAssumption
<1> QED BY <1>1, <1>2 DEF HoIInv, HoTypeOK, JoinedThenDark

LEMMA HoNextIInv == HoIInv /\ [HoNext]_hoVars => HoIInv'
<1> SUFFICES ASSUME HoIInv, [HoNext]_hoVars PROVE HoIInv'
  OBVIOUS
<1> USE HoAssumption DEF HoIInv, HoTypeOK, JoinedThenDark
<1>1. CASE PsMoveStart \/ DualSenseStart \/ DualSenseReport
  BY <1>1 DEF PsMoveStart, DualSenseStart, DualSenseReport
<1>2. ASSUME NEW level \in HoLevels, HoSet(level) PROVE HoIInv'
  BY <1>2 DEF HoSet
<1>3. CASE PsMoveWrite
  BY <1>3 DEF PsMoveWrite
<1>4. CASE DualSenseWrite
  <2>1. {hoFlag, hoSeen, hoLost}' \subseteq BOOLEAN
    BY <1>4 DEF DualSenseWrite
  <2>2. hoFaults' \in 0 .. HoMaxFaults /\ {hoWant, hoBeat, hoPad}' \subseteq HoLevels
    BY <1>4 DEF DualSenseWrite
  <2> QED BY <1>4, <2>1, <2>2 DEF DualSenseWrite
<1>5. CASE PsMoveExtinguish
  <2>1. {hoFlag, hoSeen, hoLost}' \subseteq BOOLEAN
    BY <1>5 DEF PsMoveExtinguish
  <2>2. hoFaults' \in 0 .. HoMaxFaults /\ {hoWant, hoBeat, hoPad}' \subseteq HoLevels
    BY <1>5 DEF PsMoveExtinguish
  <2>3. hoPad' = 0 \/ hoLost'
    BY <1>5 DEF PsMoveExtinguish
  <2> QED BY <1>5, <2>1, <2>2, <2>3 DEF PsMoveExtinguish
<1>6. CASE OutputThread
  BY <1>6 DEF OutputThread, BeatCopy, BeatWrite, BeatWake
<1>7. CASE PsMoveStop \/ DualSenseStop \/ AutoOff
  BY <1>7 DEF PsMoveStop, DualSenseStop, AutoOff
<1>8. CASE UNCHANGED hoVars
  BY <1>8 DEF hoVars
<1> QED BY <1>1, <1>2, <1>3, <1>4, <1>5, <1>6, <1>7, <1>8 DEF HoNext, HoCommand

(* A PS Move that was stopped is dark, whatever its output thread had      *)
(* copied before, unless the one write failed (psmove device.rs:157-175).  *)
THEOREM StoppedIsDark == HoSpec => []PsMoveStopDark
<1>1. HoIInv => PsMoveStopDark  BY DEF HoIInv, JoinedThenDark, PsMoveStopDark
<1> QED BY <1>1, HoInitIInv, HoNextIInv, PTL DEF HoSpec

(***************************************************************************)
(* The haptic bridge.  Of every motor that runs the loop has recorded what *)
(* it wrote, or another loop, now gone, wrote it; and a loop that serves   *)
(* was configured to, or has yet to see that it no longer is.              *)
(***************************************************************************)
GoneAreStray ==
  bridge # "serving" => Handled /\ \A m \in Macs : motor[m] > 0 => by[m] = "stray"
ServesEnabled == bridge = "serving" /\ ~enabled => unseen

BridgeIInv == BridgeTypeOK /\ KnowsRunning /\ GoneAreStray /\ ServesEnabled

LEMMA BridgeInitIInv == BridgeInit => BridgeIInv
<1> SUFFICES ASSUME BridgeInit PROVE BridgeIInv
  OBVIOUS
<1> USE TicksAssumption, BridgeBounds DEF BridgeInit
<1>1. BridgeTypeOK
  <2>1. /\ enabled \in BOOLEAN /\ unseen \in BOOLEAN /\ closed \in BOOLEAN
        /\ silenced \in BOOLEAN
    OBVIOUS
  <2>2. DOMAIN todo \subseteq DOMAIN Rules /\ \A i \in DOMAIN todo : todo[i] \in HapticActions
    BY DEF NoActions
  <2>3. /\ sent \in [Macs -> Levels \cup {None}] /\ fresh \in [Macs -> BOOLEAN]
        /\ pulse \in [Macs -> {None} \cup 0 .. PulseTicks] /\ motor \in [Macs -> Levels]
        /\ by \in [Macs -> {"off", "live", "pulse", "stray"}]
    BY DEF Levels
  <2>4. idle \in 0 .. IdleTicks /\ packets \in 0 .. MaxPackets /\ changes \in 0 .. MaxChanges
    OBVIOUS
  <2> QED BY <2>1, <2>2, <2>3, <2>4 DEF BridgeTypeOK
<1>2. KnowsRunning /\ GoneAreStray /\ ServesEnabled
  BY DEF KnowsRunning, GoneAreStray, ServesEnabled, Handled
<1> QED BY <1>1, <1>2 DEF BridgeIInv

(* A write records what it told the motor, whatever it wrote before. *)
LEMMA WriteKnown ==
  ASSUME BridgeIInv, NEW m \in Macs, NEW v \in Levels, NEW how \in {"live", "pulse"},
         Write(m, v, how)
  PROVE  /\ sent' \in [Macs -> Levels \cup {None}] /\ fresh' \in [Macs -> BOOLEAN]
         /\ motor' \in [Macs -> Levels] /\ by' \in [Macs -> {"off", "live", "pulse", "stray"}]
         /\ sent'[m] = motor'[m]
         /\ \A n \in Macs \ {m} : sent'[n] = sent[n] /\ motor'[n] = motor[n] /\ by'[n] = by[n]
BY DEF BridgeIInv, BridgeTypeOK, Write

LEMMA ApplyKnown ==
  ASSUME BridgeIInv, bridge = "serving", NEW act \in HapticActions, Apply(act)
  PROVE  /\ sent' \in [Macs -> Levels \cup {None}] /\ fresh' \in [Macs -> BOOLEAN]
         /\ pulse' \in [Macs -> {None} \cup 0 .. PulseTicks]
         /\ motor' \in [Macs -> Levels] /\ by' \in [Macs -> {"off", "live", "pulse", "stray"}]
         /\ \A m \in Macs : motor'[m] > 0 /\ by'[m] # "stray" => sent'[m] = motor'[m]
<1> DEFINE mac == act.mac
<1>1. mac \in Macs /\ act.intensity \in Levels
  BY DEF HapticActions
<1>2. pulse' \in [Macs -> {None} \cup 0 .. PulseTicks]
  BY <1>1, TicksAssumption DEF Apply, BridgeIInv, BridgeTypeOK
<1>3. CASE UNCHANGED <<sent, fresh, motor, by>>
  BY <1>2, <1>3 DEF BridgeIInv, BridgeTypeOK, KnowsRunning
<1>4. CASE \E how \in {"live", "pulse"} : Write(mac, act.intensity, how)
  BY <1>1, <1>2, <1>4, WriteKnown DEF BridgeIInv, KnowsRunning
<1> QED BY <1>3, <1>4 DEF Apply

LEMMA HandlePacketIInv == ASSUME BridgeIInv, HandlePacket PROVE BridgeIInv'
<1> PICK i \in DOMAIN todo :
      /\ Apply(todo[i])
      /\ todo' = Restrict(todo, DOMAIN todo \ {i})
      /\ UNCHANGED <<enabled, unseen, closed, bridge, idle, silenced, packets, changes>>
  BY DEF HandlePacket
<1>1. bridge = "serving"
  BY DEF BridgeIInv, GoneAreStray, Handled, NoActions
<1>2. todo[i] \in HapticActions
  BY DEF BridgeIInv, BridgeTypeOK
<1>3. DOMAIN todo' \subseteq DOMAIN Rules /\ \A j \in DOMAIN todo' : todo'[j] \in HapticActions
  BY DEF Restrict, BridgeIInv, BridgeTypeOK
<1>4. BridgeTypeOK'
  BY <1>1, <1>2, <1>3, ApplyKnown DEF BridgeIInv, BridgeTypeOK
<1>5. KnowsRunning' /\ GoneAreStray' /\ ServesEnabled'
  BY <1>1, <1>2, ApplyKnown DEF BridgeIInv, KnowsRunning, GoneAreStray, ServesEnabled
<1> QED BY <1>4, <1>5 DEF BridgeIInv

(* A motor that is silenced is known to be. *)
LEMMA SilenceKnown ==
  ASSUME BridgeIInv, NEW S \in SUBSET Macs, Silence(S)
  PROVE  /\ sent' \in [Macs -> Levels \cup {None}] /\ fresh' \in [Macs -> BOOLEAN]
         /\ pulse' \in [Macs -> {None} \cup 0 .. PulseTicks]
         /\ motor' \in [Macs -> Levels] /\ by' \in [Macs -> {"off", "live", "pulse", "stray"}]
         /\ \A m \in S : motor'[m] = 0
         /\ \A m \in Macs \ S : sent'[m] = sent[m] /\ motor'[m] = motor[m] /\ by'[m] = by[m]
<1> USE DEF BridgeIInv, BridgeTypeOK, Silence, Levels
<1>1. sent' \in [Macs -> Levels \cup {None}] /\ motor' \in [Macs -> Levels]
  OBVIOUS
<1>2. fresh' \in [Macs -> BOOLEAN]
  <2>1. \A m \in Macs : (m \in S \/ fresh[m]) \in BOOLEAN
    OBVIOUS
  <2> QED BY <2>1
<1>3. /\ pulse' \in [Macs -> {None} \cup 0 .. PulseTicks]
      /\ by' \in [Macs -> {"off", "live", "pulse", "stray"}]
  OBVIOUS
<1> QED BY <1>1, <1>2, <1>3

(* The shutdown reaches every motor that its loop runs: each is active.    *)
LEMMA ShutDownIInv == ASSUME BridgeIInv, ShutDown PROVE BridgeIInv'
<1> USE DEF BridgeIInv, ShutDown
<1>1. Active \in SUBSET Macs
  BY DEF Active
<1>2. BridgeTypeOK'
  BY <1>1, SilenceKnown DEF BridgeTypeOK
<1>3. \A m \in Macs : motor'[m] > 0 => by'[m] = "stray"
  <2> SUFFICES ASSUME NEW m \in Macs, motor'[m] > 0 PROVE by'[m] = "stray"
    OBVIOUS
  <2>1. m \notin Active
    BY <1>1, SilenceKnown
  <2>2. motor[m] > 0 /\ by'[m] = by[m] /\ ~(sent[m] > 0)
    BY <1>1, <2>1, SilenceKnown DEF Active
  <2> QED BY <2>2 DEF KnowsRunning
<1>4. KnowsRunning' /\ GoneAreStray' /\ ServesEnabled'
  BY <1>3 DEF KnowsRunning, GoneAreStray, ServesEnabled, Handled
<1> QED BY <1>2, <1>4

LEMMA OnTickIInv == ASSUME BridgeIInv, OnTick PROVE BridgeIInv'
<1> USE DEF BridgeIInv, OnTick, Serving
<1> DEFINE S == Due \cup (IF ~silenced /\ idle = IdleTicks THEN Active ELSE {})
<1>1. S \in SUBSET Macs /\ Silence(S)
  BY DEF Due, Active
<1>2. silenced' \in BOOLEAN
  OBVIOUS
<1>3. BridgeTypeOK'
  BY <1>1, <1>2, SilenceKnown DEF BridgeTypeOK
<1>4. KnowsRunning'
  <2> SUFFICES ASSUME NEW m \in Macs, motor'[m] > 0, by'[m] # "stray" PROVE sent'[m] = motor'[m]
    BY DEF KnowsRunning
  <2>1. m \notin S
    BY <1>1, SilenceKnown
  <2>2. motor'[m] = motor[m] /\ by'[m] = by[m] /\ sent'[m] = sent[m]
    BY <1>1, <2>1, SilenceKnown
  <2> QED BY <2>2 DEF KnowsRunning
<1>5. GoneAreStray' /\ ServesEnabled'
  BY DEF GoneAreStray, ServesEnabled
<1> QED BY <1>3, <1>4, <1>5

LEMMA PacketIInv ==
  ASSUME BridgeIInv, NEW a \in Addresses, NEW v \in Levels, Packet(a, v)
  PROVE  BridgeIInv'
<1> USE DEF BridgeIInv, Packet, Serving
<1>1. /\ DOMAIN todo' \subseteq DOMAIN Rules
      /\ \A i \in DOMAIN todo' : todo'[i] \in HapticActions
  <2> SUFFICES ASSUME NEW i \in DOMAIN Rules PROVE Action(Rules[i], v) \in HapticActions
    BY DEF Actions
  <2> DEFINE R == [address : Addresses, mac : Macs, mode : Modes]
  <2>1. Rules[i] \in R
    <3>1. Rules \in Seq(R)
      BY RulesAssumption
    <3> HIDE DEF R
    <3> QED BY <3>1
  <2> QED BY <2>1 DEF Action, HapticActions, Levels, Full
<1>2. packets' \in 0 .. MaxPackets /\ idle' \in 0 .. IdleTicks /\ silenced' = FALSE
  BY BridgeBounds, TicksAssumption DEF BridgeTypeOK
<1>3. BridgeTypeOK'
  BY <1>1, <1>2 DEF BridgeTypeOK
<1> QED BY <1>3 DEF KnowsRunning, GoneAreStray, ServesEnabled

LEMMA TimeIInv == ASSUME BridgeIInv, Time PROVE BridgeIInv'
<1> USE DEF BridgeIInv, Time
<1>1. idle' \in 0 .. IdleTicks
  BY TicksAssumption DEF BridgeTypeOK
<1>2. pulse' \in [Macs -> {None} \cup 0 .. PulseTicks] /\ fresh' \in [Macs -> BOOLEAN]
  BY TicksAssumption DEF BridgeTypeOK, None
<1>3. BridgeTypeOK'
  BY <1>1, <1>2 DEF BridgeTypeOK
<1> QED BY <1>3 DEF KnowsRunning, GoneAreStray, ServesEnabled, Handled

(* The motors of a loop that is dropped are strays from then on. *)
LEMMA RebindIInv == ASSUME BridgeIInv, Rebind PROVE BridgeIInv'
<1> USE DEF BridgeIInv, Rebind
<1>1. BridgeTypeOK'
  BY DEF BridgeTypeOK, loopVars
<1>2. \A m \in Macs : motor'[m] > 0 => by'[m] = "stray"
  OBVIOUS
<1> QED BY <1>1, <1>2 DEF KnowsRunning, GoneAreStray, ServesEnabled, Handled

LEMMA EnterIInv == ASSUME BridgeIInv, Enter PROVE BridgeIInv'
<1> USE DEF BridgeIInv, Enter, loopVars
<1>1. CASE enabled /\ bridge' = "serving" /\ NewLoop
  <2>1. /\ sent' \in [Macs -> Levels \cup {None}] /\ fresh' \in [Macs -> BOOLEAN]
        /\ pulse' \in [Macs -> {None} \cup 0 .. PulseTicks]
        /\ idle' \in 0 .. IdleTicks /\ silenced' \in BOOLEAN
    <3>1. /\ sent' = [m \in Macs |-> None] /\ fresh' = [m \in Macs |-> FALSE]
          /\ pulse' = [m \in Macs |-> None] /\ idle' = 0 /\ silenced' = FALSE
      BY <1>1 DEF NewLoop
    <3>2. /\ [m \in Macs |-> None] \in [Macs -> Levels \cup {None}]
          /\ [m \in Macs |-> FALSE] \in [Macs -> BOOLEAN]
          /\ [m \in Macs |-> None] \in [Macs -> {None} \cup 0 .. PulseTicks]
      OBVIOUS
    <3>3. idle' \in 0 .. IdleTicks
      BY <3>1, TicksAssumption
    <3>4. silenced' \in BOOLEAN
      BY <3>1, Zenon
    <3> QED BY <3>1, <3>2, <3>3, <3>4, Zenon
  <2>2. BridgeTypeOK'
    BY <1>1, <2>1 DEF BridgeTypeOK
  <2> QED BY <1>1, <2>2 DEF KnowsRunning, GoneAreStray, ServesEnabled
<1>2. CASE bridge' = "waiting" /\ UNCHANGED <<sent, fresh, pulse, idle, silenced>>
  BY <1>2 DEF BridgeTypeOK, KnowsRunning, GoneAreStray, ServesEnabled, Handled
<1> QED BY <1>1, <1>2

LEMMA AppIInv ==
  ASSUME BridgeIInv, (\E b \in BOOLEAN : SendConfig(b)) \/ Close \/ WaitingChanged
  PROVE  BridgeIInv'
<1> USE BridgeBounds DEF BridgeIInv, SendConfig, Close, WaitingChanged, loopVars
<1>1. /\ enabled' \in BOOLEAN /\ unseen' \in BOOLEAN /\ closed' \in BOOLEAN
      /\ changes' \in 0 .. MaxChanges
  <2>1. CASE Close
    BY <2>1 DEF BridgeTypeOK
  <2>2. CASE WaitingChanged
    BY <2>2 DEF BridgeTypeOK
  <2>3. ASSUME NEW b \in BOOLEAN, SendConfig(b)
        PROVE  /\ enabled' \in BOOLEAN /\ unseen' \in BOOLEAN /\ closed' \in BOOLEAN
               /\ changes' \in 0 .. MaxChanges
    BY <2>3 DEF BridgeTypeOK
  <2> QED BY <2>1, <2>2, <2>3
<1>2. UNCHANGED <<sent, fresh, pulse, idle, silenced, todo, motor, by, packets>>
  OBVIOUS
<1>3. bridge' = bridge \/ (bridge = "waiting" /\ bridge' \in {"top", "ended"})
  BY SMTT(30)
<1>4. BridgeTypeOK'
  BY <1>1, <1>2, <1>3 DEF BridgeTypeOK
<1>5. (enabled' <=> enabled) \/ unseen'
  OBVIOUS
<1>6. unseen => unseen'
  OBVIOUS
<1> QED BY <1>2, <1>3, <1>4, <1>5, <1>6 DEF KnowsRunning, GoneAreStray, ServesEnabled, Handled

LEMMA BridgeNextIInv == BridgeIInv /\ [BridgeNext]_bridgeVars => BridgeIInv'
<1> SUFFICES ASSUME BridgeIInv, [BridgeNext]_bridgeVars PROVE BridgeIInv'
  OBVIOUS
<1>1. CASE UNCHANGED bridgeVars
  BY <1>1 DEF bridgeVars, loopVars, BridgeIInv, BridgeTypeOK, KnowsRunning, GoneAreStray,
              ServesEnabled, Handled
<1> QED BY <1>1, HandlePacketIInv, ShutDownIInv, OnTickIInv, PacketIInv, TimeIInv, RebindIInv,
           EnterIInv, AppIInv DEF BridgeNext, Bridge

THEOREM BridgeInvariance == BridgeSpec => []BridgeIInv
BY BridgeInitIInv, BridgeNextIInv, PTL DEF BridgeSpec

(* The loop knows of every motor it turned on, whatever the rules, and a   *)
(* change of the configuration in the midst of a datagram or not           *)
(* (listener.rs:244-245, 267-280).                                         *)
THEOREM RunningIsKnown == BridgeSpec => []KnowsRunning
<1>1. BridgeIInv => KnowsRunning  BY DEF BridgeIInv
<1> QED BY <1>1, BridgeInvariance, PTL

(* The bridge keeps its types: pulses and the idle time are within what    *)
(* they were set to (listener.rs:191-222).                                 *)
THEOREM BridgeTypeCorrect == BridgeSpec => []BridgeTypeOK
<1>1. BridgeIInv => BridgeTypeOK  BY DEF BridgeIInv
<1> QED BY <1>1, BridgeInvariance, PTL

LEMMA DisabledStepIsStill ==
  ASSUME BridgeIInv, [BridgeNext]_bridgeVars, ~enabled, ~unseen
  PROVE  \A m \in Macs : motor'[m] <= motor[m]
<1>1. bridge # "serving" /\ Handled
  BY SMTT(30) DEF BridgeIInv, ServesEnabled, GoneAreStray
<1>2. motor' = motor
  BY <1>1 DEF BridgeNext, Bridge, Enter, WaitingChanged, Rebind, ShutDown, HandlePacket,
              OnTick, Packet, Serving, Time, SendConfig, Close, bridgeVars, Handled, NoActions
<1> QED BY <1>2 DEF BridgeIInv, BridgeTypeOK, Levels

(* Once the bridge has seen that it is disabled, no step of it, of time or *)
(* of the application turns a motor up (listener.rs:74-82, 152-158).       *)
THEOREM DisabledIsStill == BridgeSpec => DisabledDrivesNothing
BY DisabledStepIsStill, BridgeInvariance, PTL DEF BridgeSpec, DisabledDrivesNothing

(***************************************************************************)
(* The pipeline's clock.  What a device claims of its rate is the host's   *)
(* measure kept within 5 % of the step before and within the clamp, for every *)
(* rate, window and silence; so a period is positive, and stays so.        *)
(***************************************************************************)

(* A step taken from the host's time opens its window when the warm-up     *)
(* ends; one taken from the device's is at least a tick's thousandth.      *)
CkIInv ==
  /\ CkTypeOK
  /\ ckWarm = CkWarmup => ckWin \in 0 .. (CkWindow - 1)
  /\ ckHw => ckEma = 0 \/ ckEma >= 16

LEMMA Quotient ==
  ASSUME NEW a \in Nat, NEW b \in Nat \ {0}
  PROVE  a \div b \in Nat /\ (a >= b => a \div b >= 1)
OBVIOUS

LEMMA PeriodPositive == \A rate \in CkRates : CkPeriod(rate) \in Nat \ {0}
<1> SUFFICES ASSUME NEW rate \in CkRates PROVE CkPeriod(rate) \in Nat \ {0}
  OBVIOUS
<1>1. rate \in Nat \ {0} /\ rate <= 1000
  BY CkAssumption
<1> QED BY <1>1, Quotient DEF CkPeriod

LEMMA CkInitIInv == CkInit => CkIInv
<1> SUFFICES ASSUME CkInit PROVE CkIInv
  OBVIOUS
<1>1. {ckOn, ckHw} \subseteq BOOLEAN /\ ckSeen \in BOOLEAN
  BY DEF CkInit
<1>2. PICK rate \in CkRates : ckTs = CkPeriod(rate)
  BY DEF CkInit
<1>3. ckTs \in Nat \ {0}
  BY <1>2, PeriodPositive
<1>4. ckHw \/ ckTs \in CkMinTs .. CkMaxTs \cup {CkPeriod(r) : r \in CkRates}
  BY <1>2
<1>5. CkTypeOK
  BY <1>1, <1>3, <1>4, CkAssumption DEF CkInit, CkTypeOK, CkSpan
<1> QED BY <1>5, CkAssumption DEF CkInit, CkIInv

LEMMA StepCorrected ==
  ASSUME NEW measured \in Nat \ {0}, NEW current \in Nat \ {0}
  PROVE  /\ CorrectedTimestep(measured, current) \in {measured, current}
         /\ CorrectedTimestep(measured, current) \in Nat \ {0}
BY DEF CorrectedTimestep

(* What the count of the samples makes of the window and the step. *)
LEMMA CalibrateKeeps ==
  ASSUME CkIInv, NEW n \in Nat \ {0}, NEW gap \in Nat, CalibrateRate(n, gap), ~ckHw,
         gap <= 2 \/ gap <= CkMaxSilence
  PROVE  /\ ckWarm' \in -1 .. CkWarmup /\ ckWin' \in -1 .. CkSpan /\ ckCount' \in Nat /\ ckEma' \in Nat
         /\ ckTs' \in Nat \ {0}
         /\ ckTs' \in CkMinTs .. CkMaxTs \cup {CkPeriod(rate) : rate \in CkRates}
         /\ ckWarm' = CkWarmup => ckWin' \in 0 .. (CkWindow - 1)
<1> DEFINE Claimed == {CkPeriod(rate) : rate \in CkRates}
<1>1. /\ ckWarm \in -1 .. CkWarmup /\ ckWin \in -1 .. CkSpan /\ ckCount \in Nat /\ ckEma \in Nat
      /\ ckTs \in Nat \ {0} /\ ckTs \in CkMinTs .. CkMaxTs \cup Claimed
      /\ ckWarm = CkWarmup => ckWin \in 0 .. (CkWindow - 1)
  BY DEF CkIInv, CkTypeOK
<1>2. /\ CkWarmup \in Nat /\ CkWindow \in Nat \ {0} /\ CkMaxSilence \in Nat
      /\ CkMinTs \in Nat \ {0} /\ CkMaxTs \in Nat \ {0} /\ CkMinTs < CkMaxTs
      /\ CkWindow + CkMaxSilence < 16
  BY CkAssumption
<1> HIDE DEF Claimed
<1>3. CkWarms(gap) => ckWarm' \in 0 .. CkWarmup
  BY <1>1, <1>2 DEF CkWarms
<1>4. CASE CkWarms(gap) /\ ckWarm' # CkWarmup /\ UNCHANGED <<ckWin, ckCount, ckEma, ckTs>>
  BY <1>1, <1>3, <1>4 DEF Claimed
<1>5. CASE /\ CkWarms(gap) /\ ckWarm' = CkWarmup
           /\ ckWin' = 0 /\ ckCount' = n /\ UNCHANGED <<ckEma, ckTs>>
  BY <1>1, <1>2, <1>3, <1>5 DEF Claimed, CkSpan
<1>6. CASE /\ ckWarm = CkWarmup /\ UNCHANGED ckWarm /\ ckWin + gap < CkWindow
           /\ ckWin' = ckWin + gap /\ ckCount' = ckCount + n /\ UNCHANGED <<ckEma, ckTs>>
  BY <1>1, <1>2, <1>6 DEF Claimed, CkSpan
<1>7. CASE /\ ckWarm = CkWarmup /\ UNCHANGED ckWarm /\ ~(ckWin + gap < CkWindow)
           /\ LET ema == SmoothRate((16 * (ckCount + n)) \div (ckWin + gap))
              IN  /\ NextWindow(n) /\ ckEma' = ema
                  /\ ckTs' = CorrectedTimestep(CkClamp(16000 \div ema), ckTs)
  <2> DEFINE rate == (16 * (ckCount + n)) \div (ckWin + gap)
             ema == SmoothRate(rate)
             clamped == CkClamp(16000 \div ema)
  <2>1. rate \in Nat /\ rate >= 1
    <3>1. 16 * (ckCount + n) \in Nat /\ 16 * (ckCount + n) >= 16
      BY <1>1
    <3>2. ckWin + gap \in Nat \ {0} /\ ckWin + gap <= 16
      BY <1>1, <1>2, <1>7
    <3> QED BY <3>1, <3>2, Quotient
  <2>2. ckEma' = ema /\ ckTs' = CorrectedTimestep(clamped, ckTs) /\ NextWindow(n)
    BY <1>7
  <2> HIDE DEF rate
  <2>3. ema \in Nat \ {0}
    BY <1>1, <2>1 DEF SmoothRate
  <2> HIDE DEF ema
  <2>4. clamped \in CkMinTs .. CkMaxTs
    <3>1. 16000 \div ema \in Nat
      BY <2>3, Quotient
    <3> QED BY <1>2, <3>1 DEF CkClamp
  <2> HIDE DEF clamped
  <2>5. ckTs' \in {clamped, ckTs} /\ ckTs' \in Nat \ {0}
    <3>1. clamped \in Nat \ {0}
      BY <1>2, <2>4
    <3> QED BY <1>1, <2>2, <3>1, StepCorrected
  <2>6. ckTs' \in CkMinTs .. CkMaxTs \cup Claimed
    BY <1>1, <2>4, <2>5
  <2>7. ckWarm' \in -1 .. CkWarmup /\ ckWin' = 0 /\ ckCount' \in Nat /\ ckEma' \in Nat
    BY <1>1, <1>7, <2>2, <2>3 DEF NextWindow
  <2> QED BY <1>2, <2>5, <2>6, <2>7 DEF Claimed, CkSpan
<1> QED BY <1>4, <1>5, <1>6, <1>7 DEF CalibrateRate

LEMMA HardwareKeeps ==
  ASSUME CkIInv, NEW dt \in Nat \ {0}, NEW plausible \in BOOLEAN, HardwareStep(dt, plausible), ckHw
  PROVE  ckEma' \in Nat /\ (ckEma' = 0 \/ ckEma' >= 16) /\ ckTs' \in Nat \ {0}
<1>1. ckEma \in Nat /\ ckTs \in Nat \ {0} /\ (ckEma = 0 \/ ckEma >= 16)
  BY DEF CkIInv, CkTypeOK
<1>2. ckEma' \in Nat /\ (ckEma' = 0 \/ ckEma' >= 16)
  BY <1>1 DEF HardwareStep
<1>3. CASE ckEma' = 0
  BY <1>1, <1>2, <1>3 DEF HardwareStep
<1>4. CASE ckEma' # 0
  <2>1. ckEma' \div 16 \in Nat \ {0}
    <3>1. ckEma' \in Nat /\ ckEma' >= 16
      BY <1>2, <1>4
    <3>2. 16 \in Nat \ {0}
      OBVIOUS
    <3>3. ckEma' \div 16 \in Nat /\ ckEma' \div 16 >= 1
      BY <3>1, <3>2, Quotient
    <3> QED BY <3>3
  <2>2. ckTs' = CorrectedTimestep(ckEma' \div 16, ckTs)
    BY <1>4 DEF HardwareStep
  <2> QED BY <1>1, <1>2, <2>1, <2>2, StepCorrected
<1> QED BY <1>3, <1>4

LEMMA CkNextIInv == CkIInv /\ [CkNext]_ckVars => CkIInv'
<1> SUFFICES ASSUME CkIInv, [CkNext]_ckVars PROVE CkIInv'
  OBVIOUS
<1> DEFINE Claimed == {CkPeriod(rate) : rate \in CkRates}
<1>1. ASSUME NEW n \in Nat \ {0}, NEW gap \in Nat, gap <= 2 \/ gap <= CkMaxSilence,
             CalibrateRate(n, gap), ~ckHw, UNCHANGED <<ckOn, ckHw, ckRate, ckSeen>>,
             ckFaults' \in 0 .. CkMaxFaults
      PROVE  CkIInv'
  <2>1. /\ ckWarm' \in -1 .. CkWarmup /\ ckWin' \in -1 .. CkSpan /\ ckCount' \in Nat /\ ckEma' \in Nat
        /\ ckTs' \in Nat \ {0}
        /\ ckTs' \in CkMinTs .. CkMaxTs \cup Claimed
        /\ ckWarm' = CkWarmup => ckWin' \in 0 .. (CkWindow - 1)
    BY <1>1, CalibrateKeeps
  <2>2. {ckOn', ckHw'} \subseteq BOOLEAN /\ ckRate' \in CkRates /\ ckSeen' \in BOOLEAN
    BY <1>1 DEF CkIInv, CkTypeOK
  <2>3. CkTypeOK'
    BY <1>1, <2>1, <2>2 DEF CkTypeOK
  <2> QED BY <1>1, <2>1, <2>3 DEF CkIInv
<1>2. ASSUME NEW dt \in Nat \ {0}, NEW plausible \in BOOLEAN, HardwareStep(dt, plausible), ckHw,
             UNCHANGED <<ckOn, ckHw, ckRate>>, ckFaults' \in 0 .. CkMaxFaults
      PROVE  CkIInv'
  <2>1. ckEma' \in Nat /\ (ckEma' = 0 \/ ckEma' >= 16) /\ ckTs' \in Nat \ {0}
    BY <1>2, HardwareKeeps
  <2>2. ckSeen' = TRUE /\ UNCHANGED <<ckWarm, ckWin, ckCount>>
    BY <1>2 DEF HardwareStep
  <2>3. {ckOn', ckHw'} \subseteq BOOLEAN /\ ckRate' \in CkRates /\ ckSeen' \in BOOLEAN
    BY <1>2, <2>2 DEF CkIInv, CkTypeOK
  <2>4. CkTypeOK'
    BY <1>2, <2>1, <2>2, <2>3 DEF CkTypeOK, CkIInv
  <2> QED BY <1>2, <2>1, <2>2, <2>4 DEF CkIInv
<1>3. /\ ckFaults \in 0 .. CkMaxFaults /\ ckRate \in CkRates
      /\ CkFault => ckFaults' \in 0 .. CkMaxFaults
      /\ ckRate \in Nat \ {0} /\ CkPeriod(ckRate) \in Nat \ {0}
  BY CkAssumption, PeriodPositive DEF CkIInv, CkTypeOK, CkFault
<1>4. CASE CkBatch
  <2>1. PICK gap \in {1, 2} :
          /\ IF ckHw THEN gap = 1 /\ HardwareStep(CkPeriod(ckRate), TRUE)
                     ELSE CalibrateRate(gap * ckRate, gap) /\ UNCHANGED ckSeen
          /\ UNCHANGED <<ckOn, ckHw, ckRate, ckFaults>>
    BY <1>4 DEF CkBatch
  <2>2. CASE ckHw
    BY <1>2, <1>3, <2>1, <2>2
  <2>3. CASE ~ckHw
    <3>1. gap * ckRate \in Nat \ {0} /\ gap \in Nat /\ gap <= 2
      BY <1>3, <2>1
    <3> QED BY <1>1, <1>3, <2>1, <2>3, <3>1
  <2> QED BY <2>2, <2>3
<1>5. CASE CkSilence
  <2>1. PICK gap \in 2 .. CkMaxSilence :
          /\ CkFault
          /\ IF ckHw THEN HardwareStep(gap, FALSE)
                     ELSE CalibrateRate(ckRate, gap) /\ UNCHANGED ckSeen
          /\ UNCHANGED <<ckOn, ckHw, ckRate>>
    BY <1>5 DEF CkSilence
  <2>2. gap \in Nat \ {0} /\ gap <= CkMaxSilence
    BY <2>1, CkAssumption
  <2>3. CASE ckHw
    BY <1>2, <1>3, <2>1, <2>2, <2>3
  <2>4. CASE ~ckHw
    BY <1>1, <1>3, <2>1, <2>2, <2>4
  <2> QED BY <2>3, <2>4
<1>6. CASE CkLosesReport
  <2>1. 2 * CkPeriod(ckRate) \in Nat \ {0}
    BY <1>3
  <2> QED BY <1>2, <1>3, <1>6, <2>1 DEF CkLosesReport
<1>7. CASE CkConnect \/ CkShift \/ UNCHANGED ckVars
  <2>1. UNCHANGED <<ckHw, ckWarm, ckWin, ckCount, ckEma, ckTs, ckSeen>>
    BY <1>7 DEF CkConnect, CkShift, ckVars
  <2>2. {ckOn', ckHw'} \subseteq BOOLEAN /\ ckSeen' \in BOOLEAN
    BY <1>7, <2>1 DEF CkConnect, CkShift, ckVars, CkIInv, CkTypeOK
  <2>3. ckRate' \in CkRates /\ ckFaults' \in 0 .. CkMaxFaults
    BY <1>3, <1>7 DEF CkConnect, CkShift, ckVars
  <2> QED BY <2>1, <2>2, <2>3 DEF CkIInv, CkTypeOK
<1> QED BY <1>4, <1>5, <1>6, <1>7 DEF CkNext

(***************************************************************************)
(* The field a filter compares the magnetometer with.                      *)
(***************************************************************************)

LEMMA VqInitTyped == VqInit => VqTypeOK
<1> SUFFICES ASSUME VqInit PROVE VqTypeOK
  OBVIOUS
<1>1. {vqFed, vqTurning, vqDist} \subseteq BOOLEAN
  BY DEF VqInit
<1> QED BY <1>1, VqAssumption DEF VqInit, VqTypeOK

LEMMA VqKeeps == VqTypeOK /\ [VqNext]_vqVars => VqTypeOK'
<1> SUFFICES ASSUME VqTypeOK, [VqNext]_vqVars PROVE VqTypeOK'
  OBVIOUS
<1> DEFINE Flags == {vqFed, vqTurning, vqDist} \subseteq BOOLEAN
<1>1. CASE UNCHANGED vqVars
  BY <1>1 DEF vqVars, vqEnv, vqMag, VqTypeOK
<1>2. CASE VqSetFed \/ VqMove
  <2>1. Flags'
    BY <1>2 DEF VqSetFed, VqMove, vqMag, VqTypeOK
  <2> QED BY <1>2, <2>1 DEF VqSetFed, VqMove, vqMag, VqTypeOK
<1>3. CASE UpdateMag
  <2>1. {vqRef', vqCand', vqHeading'} \subseteq VqFields \cup {0}
    BY <1>3 DEF UpdateMag, UpdateReference, CorrectHeading, VqTypeOK, vqEnv
  <2>2. vqClean' \in 0 .. VqCleanMin /\ vqCandT' \in 0 .. VqNewTime
    BY <1>3, VqAssumption
    DEF UpdateMag, UpdateReference, VqTypeOK, CleanTime, CandidateTime, VqCap
  <2>3. vqReject' \in -1 .. VqMaxReject + 1
    BY <1>3, VqAssumption DEF UpdateMag, CorrectHeading, WonBack, VqTypeOK
  <2>4. vqInit' \in 0 .. VqInitial
    BY <1>3, VqAssumption DEF UpdateMag, CorrectHeading, VqTypeOK
  <2>5. vqBad' \in 0 .. VqMaxReject + 2
    BY <1>3, VqAssumption DEF UpdateMag, VqCap, VqTypeOK
  <2>6. Flags' /\ vqField' \in VqFields
    <3>1. vqDist' \in BOOLEAN
      BY <1>3 DEF UpdateMag, UpdateReference
    <3>2. UNCHANGED <<vqFed, vqField, vqTurning>>
      BY <1>3 DEF UpdateMag, vqEnv
    <3> QED BY <3>1, <3>2 DEF VqTypeOK
  <2> QED BY <2>1, <2>2, <2>3, <2>4, <2>5, <2>6 DEF VqTypeOK
<1> QED BY <1>1, <1>2, <1>3 DEF VqNext

(***************************************************************************)
(* The token of a Tesla account and the poll it stands for.                *)
(***************************************************************************)

LEMMA TsInitTyped == TsInit => TsTypeOK
<1> SUFFICES ASSUME TsInit PROVE TsTypeOK
  OBVIOUS
<1>1. {tsLost, tsBase, tsUp, tsOpen, tsStop, tsSeen} \subseteq BOOLEAN
  BY DEF TsInit
<1> QED BY <1>1, TsAssumption DEF TsInit, TsTypeOK, TsTokens

LEMMA TsKeeps == TsTypeOK /\ [TsStep]_tsVars => TsTypeOK'
<1> SUFFICES ASSUME TsTypeOK, [TsStep]_tsVars PROVE TsTypeOK'
  OBVIOUS
<1> DEFINE Flags == {tsLost, tsBase, tsUp, tsOpen, tsStop, tsSeen} \subseteq BOOLEAN
           Pcs == {"new", "top", "token", "connect", "stream", "wait", "ended"}
           Rest == /\ tsPc \in Pcs /\ tsAge \in 0 .. TsLife /\ {tsMine, tsTheirs} \subseteq TsTokens
                   /\ tsBackoff \in 0 .. TsMaxBackoff /\ tsFaults \in 0 .. TsMaxFaults
<1>1. Flags /\ Rest
  BY DEF TsTypeOK
<1> USE DEF tsAuth, tsEnv, TsFault, TsWaits, TsBacksOff
<1>2. CASE UNCHANGED tsVars
  BY <1>2 DEF tsVars, TsTypeOK
<1>3. CASE TsStart \/ TsTop \/ EnsureToken \/ TsAbort
  BY <1>3 DEF TsStart, TsTop, EnsureToken, TsAbort, TsTypeOK
<1>4. CASE TsRefresh
  <2>1. Rest'
    BY <1>1, <1>4, TsAssumption DEF TsRefresh, TsTokens, TsNext
  <2>2. Flags'
    BY <1>1, <1>4 DEF TsRefresh
  <2> QED BY <2>1, <2>2 DEF TsTypeOK
<1>5. CASE RefreshFails \/ StreamErrs
  <2>1. Rest'
    BY <1>1, <1>5, TsAssumption DEF RefreshFails, StreamErrs
  <2>2. Flags'
    BY <1>1, <1>5 DEF RefreshFails, StreamErrs
  <2> QED BY <2>1, <2>2 DEF TsTypeOK
<1>6. CASE Subscribe \/ HandleTextFrame
  <2>1. Rest'
    BY <1>1, <1>6, TsAssumption DEF Subscribe, HandleTextFrame
  <2>2. Flags'
    BY <1>1, <1>6 DEF Subscribe, HandleTextFrame
  <2> QED BY <2>1, <2>2 DEF TsTypeOK
<1>7. CASE StreamEnds \/ StreamStops \/ WaitOrStop
  <2>1. Rest'
    BY <1>1, <1>7, TsAssumption DEF StreamEnds, StreamStops, WaitOrStop
  <2>2. Flags'
    BY <1>1, <1>7 DEF StreamEnds, StreamStops, WaitOrStop
  <2> QED BY <2>1, <2>2 DEF TsTypeOK
<1>8. CASE TsHangUp \/ TsStop \/ TsTick \/ TsVehicle
  <2>1. Rest'
    BY <1>1, <1>8, TsAssumption DEF TsHangUp, TsStop, TsTick, TsVehicle
  <2>2. Flags'
    BY <1>1, <1>8 DEF TsHangUp, TsStop, TsTick, TsVehicle
  <2> QED BY <2>1, <2>2 DEF TsTypeOK
<1> QED BY <1>2, <1>3, <1>4, <1>5, <1>6, <1>7, <1>8 DEF TsStep, TsRunner

(***************************************************************************)
(* The window's events: each queue holds events of its own kind, and no more *)
(* than its capacity, whatever the capacities and whoever lags.            *)
(***************************************************************************)

LEMMA QueueTail ==
  ASSUME NEW S, NEW q \in Seq(S), q # << >>
  PROVE  Head(q) \in S /\ Tail(q) \in Seq(S) /\ Len(Tail(q)) = Len(q) - 1
OBVIOUS

LEMMA QueueAppend ==
  ASSUME NEW S, NEW q \in Seq(S), NEW x \in S
  PROVE  Append(q, x) \in Seq(S) /\ Len(Append(q, x)) = Len(q) + 1
OBVIOUS

UiSent == [kind : Kinds, devs : SUBSET UiDevs]

UiQueues ==
  /\ uiBus \in Seq(UiDevs) /\ Len(uiBus) <= UiBusCap
  /\ uiEvents \in Seq(UiSent) /\ Len(uiEvents) <= UiQueueCap

UiShown ==
  /\ uiRegistry \subseteq UiDevs
  /\ uiMetas \in [Emitters -> SUBSET SUBSET UiDevs]
  /\ uiListens \subseteq Kinds
  /\ uiList \in {"asked", "answered", "done"} /\ uiAnswer \subseteq UiDevs
  /\ uiDevices \subseteq UiDevs /\ uiTrackers \subseteq UiDevs /\ uiRates \subseteq UiDevs
  /\ uiChanges \in 0..UiMaxChanges

LEMMA UiInitTyped == UiInit => UiTypeOK
<1> SUFFICES ASSUME UiInit PROVE UiTypeOK
  OBVIOUS
<1>1. uiBus \in Seq(UiDevs) /\ Len(uiBus) = 0
  BY DEF UiInit
<1>2. uiEvents \in Seq([kind : Kinds, devs : SUBSET UiDevs]) /\ Len(uiEvents) = 0
  BY DEF UiInit
<1> QED BY <1>1, <1>2, UiAssumption DEF UiInit, UiTypeOK

LEMMA EmittedKeeps ==
  ASSUME UiTypeOK, NEW kind \in Kinds, NEW devs \in SUBSET UiDevs, Emitted(kind, devs)
  PROVE  uiEvents' \in Seq(UiSent) /\ Len(uiEvents') <= UiQueueCap
<1>1. uiEvents \in Seq(UiSent) /\ Len(uiEvents) < UiQueueCap /\ UiQueueCap \in Nat
  BY UiAssumption DEF UiTypeOK, Emitted, UiSent
<1>2. [kind |-> kind, devs |-> devs] \in UiSent
  BY DEF UiSent
<1>3. /\ Append(uiEvents, [kind |-> kind, devs |-> devs]) \in Seq(UiSent)
      /\ Len(Append(uiEvents, [kind |-> kind, devs |-> devs])) = Len(uiEvents) + 1
  BY <1>1, <1>2, QueueAppend
<1>4. CASE kind \in uiListens
  BY <1>1, <1>3, <1>4 DEF Emitted
<1>5. CASE kind \notin uiListens
  BY <1>1, <1>5 DEF Emitted
<1> QED BY <1>4, <1>5

LEMMA UiKeeps == UiTypeOK /\ [UiNext]_uiStateVars => UiTypeOK'
<1> SUFFICES ASSUME UiTypeOK, [UiNext]_uiStateVars PROVE UiTypeOK'
  OBVIOUS
<1>1. UiQueues /\ UiShown
  BY DEF UiTypeOK, UiQueues, UiShown, UiSent
<1>2. ASSUME UiQueues', UiShown' PROVE UiTypeOK'
  BY <1>2 DEF UiTypeOK, UiQueues, UiShown, UiSent
<1>3. UiBusCap \in Nat \ {0} /\ UiQueueCap \in Nat /\ UiMaxChanges \in Nat
  BY UiAssumption
<1>4. CASE UNCHANGED uiStateVars
  <2>1. UNCHANGED <<uiBus, uiEvents>> /\ UNCHANGED <<uiRegistry, uiMetas, uiListens, uiList, uiAnswer, uiDevices, uiTrackers, uiRates, uiChanges>>
    BY <1>4 DEF uiStateVars, page
  <2> QED BY <1>1, <1>2, <2>1 DEF UiQueues, UiShown
<1>5. ASSUME NEW d \in UiDevs, UiRegister(d) PROVE UiTypeOK'
  <2> DEFINE kept == IF Len(uiBus) = UiBusCap THEN Tail(uiBus) ELSE uiBus
  <2>1. kept \in Seq(UiDevs) /\ Len(kept) < UiBusCap
    <3>1. CASE Len(uiBus) = UiBusCap
      <4>1. uiBus # << >>
        BY <1>1, <1>3, <3>1 DEF UiQueues
      <4> QED BY <1>1, <1>3, <3>1, <4>1, QueueTail DEF UiQueues
    <3>2. CASE Len(uiBus) # UiBusCap
      BY <1>1, <1>3, <3>2 DEF UiQueues
    <3> QED BY <3>1, <3>2
  <2>2. uiBus' = Append(kept, d) /\ UNCHANGED uiEvents
    BY <1>5 DEF UiRegister
  <2> HIDE DEF kept
  <2>3. UiQueues'
    BY <1>1, <1>3, <2>1, <2>2, QueueAppend DEF UiQueues
  <2>4. UiShown'
    BY <1>1, <1>3, <1>5 DEF UiRegister, Change, UiShown, page
  <2> QED BY <1>2, <2>3, <2>4
<1>6. ASSUME NEW d \in UiDevs, UiLeave(d) PROVE UiTypeOK'
  <2>1. UiQueues'
    BY <1>1, <1>6 DEF UiLeave, UiQueues
  <2>2. UiShown'
    BY <1>1, <1>3, <1>6 DEF UiLeave, Change, UiShown, page
  <2> QED BY <1>2, <2>1, <2>2
<1>7. CASE Forward
  <2>1. Head(uiBus) \in UiDevs /\ uiBus' \in Seq(UiDevs) /\ Len(uiBus') <= UiBusCap
    BY <1>1, <1>3, <1>7, QueueTail DEF Forward, UiQueues
  <2>2. "discovered" \in Kinds /\ {Head(uiBus)} \in SUBSET UiDevs
    BY <2>1 DEF Kinds
  <2>3. uiEvents' \in Seq(UiSent) /\ Len(uiEvents') <= UiQueueCap
    BY <1>7, <2>2, EmittedKeeps DEF Forward
  <2>4. UiShown'
    BY <1>1, <1>7 DEF Forward, UiShown, page
  <2> QED BY <1>2, <2>1, <2>3, <2>4 DEF UiQueues
<1>8. ASSUME NEW e \in Emitters, TakeMetas(e) PROVE UiTypeOK'
  <2>1. UiQueues'
    BY <1>1, <1>8 DEF TakeMetas, UiQueues
  <2>2. UiShown'
    BY <1>1, <1>8 DEF TakeMetas, UiShown, page
  <2> QED BY <1>2, <2>1, <2>2
<1>9. CASE EmitTrackers
  <2>1. PICK metas \in uiMetas["trackers"] : Emitted("trackers", metas)
    BY <1>9 DEF EmitTrackers
  <2>2. "trackers" \in Kinds /\ metas \in SUBSET UiDevs
    BY <1>1, <2>1 DEF Kinds, Emitters, UiShown
  <2>3. uiEvents' \in Seq(UiSent) /\ Len(uiEvents') <= UiQueueCap
    BY <2>1, <2>2, EmittedKeeps
  <2>4. UiShown'
    BY <1>1, <1>9 DEF EmitTrackers, UiShown, page
  <2>5. UNCHANGED uiBus
    BY <1>9 DEF EmitTrackers
  <2> QED BY <1>1, <1>2, <2>3, <2>4, <2>5 DEF UiQueues
<1>10. CASE EmitRates
  <2>1. PICK metas \in uiMetas["rates"] :
          IF metas \cap uiRegistry = {} THEN UNCHANGED uiEvents
                                        ELSE Emitted("rates", metas \cap uiRegistry)
    BY <1>10 DEF EmitRates
  <2>2. "rates" \in Kinds /\ metas \cap uiRegistry \in SUBSET UiDevs
    BY <1>1 DEF Kinds, UiShown
  <2>3. uiEvents' \in Seq(UiSent) /\ Len(uiEvents') <= UiQueueCap
    BY <1>1, <2>1, <2>2, EmittedKeeps DEF UiQueues
  <2>4. UiShown'
    BY <1>1, <1>10 DEF EmitRates, UiShown, page
  <2>5. UNCHANGED uiBus
    BY <1>10 DEF EmitRates
  <2> QED BY <1>1, <1>2, <2>3, <2>4, <2>5 DEF UiQueues
<1>11. CASE Calls
  <2>1. UiQueues'
    BY <1>1, <1>11 DEF Calls, ListDevices, SetAll, Listen, UiQueues
  <2>2. UiShown'
    BY <1>1, <1>11 DEF Calls, ListDevices, SetAll, Listen, UiShown
  <2> QED BY <1>2, <2>1, <2>2
<1>12. CASE PageReceives
  <2>1. Head(uiEvents) \in UiSent /\ uiEvents' \in Seq(UiSent) /\ Len(uiEvents') <= UiQueueCap
    BY <1>1, <1>3, <1>12, QueueTail DEF PageReceives, UiQueues
  <2>2. Head(uiEvents).devs \subseteq UiDevs
    BY <2>1 DEF UiSent
  <2>3. UiShown'
    BY <1>1, <1>12, <2>2 DEF PageReceives, Shown, Added, UiShown
  <2>4. UNCHANGED uiBus
    BY <1>12 DEF PageReceives
  <2> QED BY <1>1, <1>2, <2>1, <2>3, <2>4 DEF UiQueues
<1> QED BY <1>4, <1>5, <1>6, <1>7, <1>8, <1>9, <1>10, <1>11, <1>12
        DEF UiNext, TrackerTask, RatesTask, Emitters, Kinds

(***************************************************************************)
(* Side by side.  The behaviours of MCCore are each one module's, with the *)
(* others as they began: what holds of every module holds of the whole.    *)
(***************************************************************************)

CoreInv ==
  /\ IInv /\ BridgeIInv /\ MInv /\ CkIInv /\ FuIInv /\ VqTypeOK /\ UiTypeOK
  /\ HidIInv /\ RdIInv /\ HoIInv /\ JcIInv /\ TsTypeOK /\ HxIInv

LEMMA CoreInitInv == CoreInit => CoreInv
BY InitIInv, BridgeInitIInv, InitCorrect, CkInitIInv, FuInitIInv, VqInitTyped, UiInitTyped,
   HidInitIInv, RdInitIInv, HoInitIInv, JcInitIInv, TsInitTyped, HxInitIInv
DEF CoreInit, CoreInv

(* A step is one of a module's, and a stutter of every other. *)
LEMMA CoreIsEach ==
  ASSUME [CoreNext]_coreVars
  PROVE  /\ [Next]_clientVars /\ [BridgeNext]_bridgeVars /\ [MagNext]_magVars
         /\ [CkNext]_ckVars /\ [FuNext]_fuVars /\ [VqNext]_vqVars /\ [UiNext]_uiStateVars
         /\ [HidNext]_hidVars /\ [RdNext]_rdVars /\ [HoNext]_hoVars /\ [JcNext]_jcVars
         /\ [TsStep]_tsVars /\ [HxNext]_hxVars
BY DEF CoreNext, Only, coreVars, innerVars, deviceVars

LEMMA CoreNextInv == CoreInv /\ [CoreNext]_coreVars => CoreInv'
<1> SUFFICES ASSUME CoreInv, [CoreNext]_coreVars PROVE CoreInv'
  OBVIOUS
<1>1. IInv' /\ BridgeIInv' /\ MInv' /\ CkIInv'
  BY CoreIsEach, NextIInv, BridgeNextIInv, NextKeeps, CkNextIInv DEF CoreInv
<1>2. FuIInv' /\ VqTypeOK' /\ UiTypeOK'
  BY CoreIsEach, FuNextIInv, VqKeeps, UiKeeps DEF CoreInv
<1>3. HidIInv' /\ RdIInv' /\ HoIInv' /\ JcIInv'
  BY CoreIsEach, HidNextIInv, RdNextIInv, HoNextIInv, JcNextIInv DEF CoreInv
<1>4. TsTypeOK' /\ HxIInv'
  BY CoreIsEach, TsKeeps, HxNextIInv DEF CoreInv
<1> QED BY <1>1, <1>2, <1>3, <1>4 DEF CoreInv

(* client.rs, haptic_bridge.rs, pipeline.rs, the fusion, the window's       *)
(* events and the sources: nothing that they keep leaves its type, no       *)
(* queue its capacity and no counter its bound, for every value of them.    *)
THEOREM CoreTypeCorrect == CoreSpec => []CoreTypeOK
<1>1. CoreInv => CoreTypeOK
  BY DEF CoreInv, CoreTypeOK, IInv, BridgeIInv, MInv, CkIInv, FuIInv, HidIInv, RdIInv, HoIInv,
         JcIInv, HxIInv
<1> QED BY <1>1, CoreInitInv, CoreNextInv, PTL DEF CoreSpec

(* What the modules promise one by one they promise together, in the very   *)
(* specification that is model-checked: the events of a connection, the     *)
(* motors of the bridge, the session that a calibration fits, the path that *)
(* is read, the device that is gone, the LED that is dark, the axes and the *)
(* records are all as their modules say.                                    *)
THEOREM CoreKeepsPromises == CoreSpec =>
  [](/\ OneEventPerFlip /\ ResetsHaveCauses /\ KnowsRunning /\ OneSessionOnly
     /\ HidReadIsKnown /\ RdGoneIsTold /\ PsMoveStopDark /\ JcAxesAgree /\ HxReassembled)
<1> DEFINE Promises ==
      /\ OneEventPerFlip /\ ResetsHaveCauses /\ KnowsRunning /\ OneSessionOnly
      /\ HidReadIsKnown /\ RdGoneIsTold /\ PsMoveStopDark /\ JcAxesAgree /\ HxReassembled
<1>1. ASSUME CoreInv PROVE Promises
  <2>1. OneEventPerFlip /\ ResetsHaveCauses
    BY <1>1 DEF CoreInv, IInv, ResetsHaveCauses, Credit, One, TypeOK
  <2>2. KnowsRunning /\ OneSessionOnly /\ HidReadIsKnown /\ RdGoneIsTold /\ JcAxesAgree
    BY <1>1 DEF CoreInv, BridgeIInv, MInv, HidIInv, RdIInv, JcIInv
  <2>3. PsMoveStopDark
    BY <1>1 DEF CoreInv, HoIInv, JoinedThenDark, PsMoveStopDark
  <2> QED BY <1>1, <2>1, <2>2, <2>3, HxSettled DEF CoreInv
<1> QED BY <1>1, CoreInitInv, CoreNextInv, PTL DEF CoreSpec

(* So it is with what a step may do: in the specification that is          *)
(* model-checked, a disabled bridge drives nothing (listener.rs:74-82), a  *)
(* learned bias stays learned (pipeline.rs:418-451, 955-976), and the      *)
(* records of a HOPX tracker come out as RecordStream says                 *)
(* (protocol.rs:114-151).                                                  *)
THEOREM CoreStepsKeepPromises == CoreSpec =>
  DisabledDrivesNothing /\ BiasNotForgotten /\ IsRecordStream
<1>1. ASSUME CoreInv, [CoreNext]_coreVars
      PROVE  /\ [~enabled /\ ~unseen => \A m \in Macs : motor'[m] <= motor[m]]_bridgeVars
             /\ [fuStored = "learned" => fuStored' = "learned" \/ fuAlgo # "vqf"]_fuVars
             /\ [Stream!Next]_(Stream!vars)
  BY <1>1, CoreIsEach, DisabledStepIsStill, BiasStepKeeps, HxNextStreams DEF CoreInv
<1>2. CoreInit => Stream!Init
  BY HxInitStreams DEF CoreInit
<1> QED BY <1>1, <1>2, CoreInitInv, CoreNextInv, PTL
        DEF CoreSpec, DisabledDrivesNothing, BiasNotForgotten, IsRecordStream, Stream!Spec
===============================================================================
