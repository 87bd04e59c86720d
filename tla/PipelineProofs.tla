--------------------------- MODULE PipelineProofs ---------------------------
(***************************************************************************)
(* What the pipeline of a device keeps, for every buffer size, number of   *)
(* sessions, commands and failures: no magnetometer calibration mixes the  *)
(* samples of two sessions, a gyroscope bias that was learned is not lost, *)
(* and the configuration a pipeline runs with is the one that is stored.   *)
(***************************************************************************)
EXTENDS MagCalibration, Fusion, LiveConfig, TLAPS

(***************************************************************************)
(* Magnetometer calibration.  OneSessionOnly is inductive with the type    *)
(* invariant: the buffer holds samples of the session the pipeline was     *)
(* last told to start and of no other, because start, cancel and finish    *)
(* all leave it empty; a fit needs samples, so it is of that session, and  *)
(* the rest is copying.                                                    *)
(***************************************************************************)

MInv == MagTypeOK /\ OneSessionOnly

LEMMA InitCorrect == MagInit => MInv
<1>1. MaxSessions \in Nat /\ MaxFaults \in Nat /\ Cap \in Nat /\ 0 \in Sessions
  BY CalBounds, CalAssumption DEF Sessions
<1>2. ASSUME MagInit PROVE MagTypeOK
  <2>1. 0 \in 0 .. Cap /\ 0 \in 0 .. MaxFaults
    BY <1>1
  <2>2. cmd \in Commands
    BY <1>1, <1>2 DEF MagInit, Commands
  <2>3. buffer \in [n : 0 .. Cap, from : SUBSET Sessions]
    BY <1>2, <2>1 DEF MagInit, Empty
  <2>4. stored \in SUBSET Sessions /\ live \in SUBSET Sessions
    BY <1>1, <1>2 DEF MagInit, MagNone
  <2> QED BY <1>1, <1>2, <2>1, <2>2, <2>3, <2>4 DEF MagInit, MagTypeOK, MagNone
<1>3. ASSUME MagInit PROVE OneSessionOnly
  BY <1>1, <1>3 DEF MagInit, OneSessionOnly, OfOneSession, Empty, MagNone
<1> QED BY <1>2, <1>3 DEF MInv

(* What the pipeline fits is of one session, if its samples are. *)
LEMMA FitOfOneSession ==
  ASSUME MInv, NEW c \in Calibrate(buffer)
  PROVE  c \in OfOneSession /\ c \in SUBSET Sessions
<1>1. CASE c = MagNone
  BY <1>1 DEF OfOneSession, MagNone
<1>2. CASE c # MagNone
  <2>1. buffer.n >= Enough /\ c = buffer.from
    BY <1>2 DEF Calibrate
  <2>2. buffer.n # 0
    BY <2>1, CalAssumption DEF MInv, MagTypeOK
  <2> QED BY <2>1, <2>2 DEF MInv, MagTypeOK, OneSessionOnly, OfOneSession
<1> QED BY <1>1, <1>2

LEMMA CollectKeeps == MInv /\ Collect => MInv'
<1> SUFFICES ASSUME MInv, Collect PROVE MInv'
  OBVIOUS
<1>1. CASE active /\ buffer.n < Cap
  <2>1. buffer' = [n |-> buffer.n + 1, from |-> buffer.from \cup {session}]
    BY <1>1 DEF Collect, PublishProgress
  <2>2. buffer'.n \in 1 .. Cap /\ buffer'.from = {session}
    BY <2>1, <1>1, CalAssumption DEF MInv, MagTypeOK, OneSessionOnly
  <2>3. buffer' \in [n : 0 .. Cap, from : SUBSET Sessions] /\ progress' \in 0 .. Cap
    BY <2>1, <2>2, <1>1 DEF MInv, MagTypeOK, Collect, PublishProgress
  <2>4. MagTypeOK'
    BY <2>3 DEF MInv, MagTypeOK, Collect, cmdVars, uiVars
  <2>5. buffer'.n # 0 /\ buffer'.from = {session'}
    BY <2>2, CalAssumption DEF Collect
  <2>6. OneSessionOnly'
    BY <2>5 DEF MInv, OneSessionOnly, OfOneSession, Collect, uiVars
  <2> QED BY <2>4, <2>6 DEF MInv
<1>2. CASE ~(active /\ buffer.n < Cap)
  <2>1. buffer' = buffer /\ progress' \in 0 .. Cap
    BY <1>2 DEF MInv, MagTypeOK, Collect, PublishProgress
  <2> QED BY <2>1 DEF MInv, MagTypeOK, OneSessionOnly, OfOneSession, Collect,
                      cmdVars, uiVars
<1> QED BY <1>1, <1>2

LEMMA HandleKeeps == MInv /\ HandleMagCalCmd => MInv'
<1> SUFFICES ASSUME MInv, HandleMagCalCmd PROVE MInv'
  OBVIOUS
<1>1. buffer' = Empty /\ active' \in BOOLEAN /\ progress' = 0
  BY DEF HandleMagCalCmd, HandleStart, HandleCancel, HandleFinish
<1>2. session' \in Sessions
  BY DEF HandleMagCalCmd, HandleStart, HandleCancel, HandleFinish, MInv, MagTypeOK, Commands
<1>3. /\ result' \in SUBSET Sessions /\ result' \in OfOneSession
      /\ version' \in Nat
  <2>1. CASE HandleFinish
    BY <2>1, FitOfOneSession DEF HandleFinish, MInv, MagTypeOK
  <2>2. CASE HandleStart \/ HandleCancel
    BY <2>2 DEF HandleStart, HandleCancel, MInv, MagTypeOK, OneSessionOnly
  <2> QED BY <2>1, <2>2 DEF HandleMagCalCmd
<1>4. Empty \in [n : 0 .. Cap, from : SUBSET Sessions] /\ 0 \in 0 .. Cap
  BY CalAssumption DEF Empty
<1>5. MagTypeOK'
  BY <1>1, <1>2, <1>3, <1>4 DEF HandleMagCalCmd, MInv, MagTypeOK, uiVars
<1>6. OneSessionOnly'
  BY <1>1, <1>3 DEF HandleMagCalCmd, MInv, OneSessionOnly, OfOneSession, Empty, uiVars
<1> QED BY <1>5, <1>6 DEF MInv

(* The user sends commands; nothing that is known of samples changes. *)
LEMMA UserKeeps == MInv /\ User => MInv'
<1> SUFFICES ASSUME MInv, User PROVE MInv'
  OBVIOUS
<1> USE DEF MInv, MagTypeOK, OneSessionOnly, OfOneSession, pipeVars, cmdVars
<1>1. CASE Start
  <2>1. started' \in Sessions
    BY <1>1, CalBounds DEF Start, Sessions
  <2>2. cmd' \in Commands /\ cmdUnseen' \in BOOLEAN
    BY <1>1, <2>1 DEF Start, SendCmd, Commands
  <2> QED BY <1>1, <2>1, <2>2, CalAssumption DEF Start
<1>2. CASE Poll
  BY <1>2, CalAssumption DEF Poll, MagCalProgress
<1>3. CASE Cancel
  <2>1. cmd' \in Commands /\ cmdUnseen' \in BOOLEAN
    <3>1. CASE alive
      BY <1>3, <3>1 DEF Cancel, SendCmd, Commands
    <3>2. CASE ~alive
      BY <1>3, <3>2 DEF Cancel
    <3> QED BY <3>1, <3>2
  <2> QED BY <1>3, <2>1 DEF Cancel
<1>4. CASE Finish
  <2>1. cmd' \in Commands /\ cmdUnseen' \in BOOLEAN /\ phase' \in {"waiting", "idle"}
    <3>1. CASE alive
      BY <1>4, <3>1 DEF Finish, SendCmd, Commands
    <3>2. CASE ~alive
      BY <1>4, <3>2 DEF Finish
    <3> QED BY <3>1, <3>2
  <2> QED BY <1>4, <2>1 DEF Finish
<1>5. CASE Reopen
  BY <1>5 DEF Reopen
<1>6. CASE Clear
  <2>1. faults' \in 0 .. MaxFaults
    BY <1>6, CalBounds DEF Clear, Fault
  <2>2. stored' \in SUBSET Sessions /\ stored' \in OfOneSession
    BY <1>6 DEF Clear, MagNone
  <2>3. phase' \in {"idle", "clearing"}
    BY <1>6 DEF Clear
  <2> QED BY <1>6, <2>1, <2>2, <2>3 DEF Clear
<1> QED BY <1>1, <1>2, <1>3, <1>4, <1>5, <1>6 DEF User

(* The commands copy a calibration from one place to the next. *)
LEMMA CommandKeeps == MInv /\ Command => MInv'
<1> SUFFICES ASSUME MInv, Command PROVE MInv'
  OBVIOUS
<1> USE DEF MInv, MagTypeOK, OneSessionOnly, pipeVars, cmdVars
<1>1. CASE TakeResult
  <2>1. phase' \in {"idle", "storing"}
    BY <1>1 DEF TakeResult
  <2> QED BY <1>1, <2>1 DEF TakeResult, OfOneSession
<1>2. CASE GiveUp
  BY <1>2 DEF GiveUp, OfOneSession
<1>3. CASE Store
  <2>1. faults' \in 0 .. MaxFaults /\ phase' \in {"idle", "enabling"}
    BY <1>3, CalBounds DEF Store, Fault
  <2> QED BY <1>3, <2>1 DEF Store, OfOneSession
<1>4. CASE StoreEnabled
  <2>1. faults' \in 0 .. MaxFaults /\ phase' \in {"idle", "applying"}
    BY <1>4, CalBounds DEF StoreEnabled, Fault
  <2> QED BY <1>4, <2>1 DEF StoreEnabled, OfOneSession
<1>5. CASE ApplyLive
  BY <1>5 DEF ApplyLive, OfOneSession, MagNone
<1>6. CASE ApplyClear
  BY <1>6 DEF ApplyClear, OfOneSession, MagNone
<1> QED BY <1>1, <1>2, <1>3, <1>4, <1>5, <1>6 DEF Command

LEMMA NextKeeps == MInv /\ [MagNext]_magVars => MInv'
<1> SUFFICES ASSUME MInv, [MagNext]_magVars PROVE MInv'
  OBVIOUS
<1>1. CASE PipelineEnds
  BY <1>1 DEF PipelineEnds, MInv, MagTypeOK, OneSessionOnly, OfOneSession,
              pipeVars, cmdVars, uiVars
<1>2. CASE UNCHANGED magVars
  BY <1>2 DEF magVars, MInv, MagTypeOK, OneSessionOnly, OfOneSession, pipeVars, cmdVars, uiVars
<1> QED BY <1>1, <1>2, CollectKeeps, HandleKeeps, UserKeeps, CommandKeeps
        DEF MagNext, Pipeline

(* No calibration, fitted, answered, stored or applied, mixes the samples  *)
(* of two sessions (pipeline.rs:978-1020).                                 *)
THEOREM SessionsApart == MagSpec => []OneSessionOnly
<1>1. MagSpec => []MInv
  BY InitCorrect, NextKeeps, PTL DEF MagSpec
<1> QED BY <1>1, PTL DEF MInv

(* Type correctness, the bound of the buffer included (pipeline.rs:176,    *)
(* 671-677).                                                               *)
THEOREM MagTypeCorrect == MagSpec => []MagTypeOK
<1>1. MagSpec => []MInv
  BY InitCorrect, NextKeeps, PTL DEF MagSpec
<1> QED BY <1>1, PTL DEF MInv

(***************************************************************************)
(* The bias of the gyroscope.  While a session with VQF runs and a learned *)
(* bias is stored, the filter has a bias that is not zero: it was seeded   *)
(* with what is stored, and no sample takes an estimate back to zero.      *)
(***************************************************************************)
BiasHeld == fuOn /\ fuAlgo = "vqf" /\ fuStored = "learned" => vqBias # "zero"
FuIInv == FuTypeOK /\ BiasHeld

LEMMA FuInitIInv == FuInit => FuIInv
<1> SUFFICES ASSUME FuInit PROVE FuIInv
  OBVIOUS
<1>1. {fuOn, fuHasMag, vqRest} \subseteq BOOLEAN
  BY DEF FuInit
<1>2. vqRestT \in 0 .. VqRestMin
  BY FuAssumption DEF FuInit
<1> QED BY <1>1, <1>2 DEF FuInit, FuIInv, FuTypeOK, FuAlgos, BiasHeld

LEMMA FuSampleIInv == ASSUME FuIInv, FuSample PROVE FuIInv'
<1> USE DEF FuIInv, FuSample
<1>1. CASE fuAlgo = "vqf"
  <2>1. VqfUpdate
    BY <1>1 DEF FilterUpdate
  <2>2. vqRestT' \in 0 .. VqRestMin /\ vqRest' \in BOOLEAN
    <3>1. UpdateGyr.t \in 0 .. VqRestMin /\ UpdateGyr.rest \in BOOLEAN
      BY FuAssumption DEF FuTypeOK, UpdateGyr
    <3>2. CASE \E still \in BOOLEAN : UpdateAcc(still)
      <4> PICK still \in BOOLEAN : UpdateAcc(still)
        BY <3>2
      <4>1. vqRestT' \in 0 .. VqRestMin
        BY <3>1, FuAssumption DEF UpdateAcc, FuCapped
      <4>2. vqRest' \in BOOLEAN
        BY Zenon DEF UpdateAcc
      <4> QED BY <4>1, <4>2
    <3>3. CASE vqRestT' = UpdateGyr.t /\ vqRest' = UpdateGyr.rest
      BY <3>1, <3>3
    <3> QED BY <2>1, <3>2, <3>3 DEF VqfUpdate
  <2>3. vqBias' \in {vqBias, "learned", "clipped"}
    BY <2>1 DEF VqfUpdate, UpdateBiasKalman
  <2> QED BY <2>2, <2>3 DEF FuTypeOK, BiasHeld
<1>2. CASE fuAlgo # "vqf"
  BY <1>2 DEF FilterUpdate, FuTypeOK, BiasHeld
<1> QED BY <1>1, <1>2

LEMMA FuOthersIInv ==
  ASSUME FuIInv,
         (\E algo \in FuAlgos, mag \in BOOLEAN : FuStart(algo, mag)) \/ FuPersist \/ FuMove
  PROVE  FuIInv'
<1> USE DEF FuIInv
<1>1. ASSUME NEW algo \in FuAlgos, NEW mag \in BOOLEAN, FuStart(algo, mag) PROVE FuIInv'
  <2>1. {fuOn, fuHasMag, vqRest}' \subseteq BOOLEAN
    BY <1>1 DEF FuStart
  <2>2. vqRestT' \in 0 .. VqRestMin
    BY <1>1, FuAssumption DEF FuStart
  <2> QED BY <1>1, <2>1, <2>2 DEF FuStart, SeededBias, FuTypeOK, BiasHeld
<1>2. CASE FuPersist
  BY <1>2 DEF FuPersist, PersistedBias, FuTypeOK, BiasHeld, vqRestVars
<1>3. CASE FuMove
  BY <1>3 DEF FuMove, FuTypeOK, BiasHeld, vqRestVars
<1> QED BY <1>1, <1>2, <1>3

LEMMA FuNextIInv == FuIInv /\ [FuNext]_fuVars => FuIInv'
<1> SUFFICES ASSUME FuIInv, [FuNext]_fuVars PROVE FuIInv'
  OBVIOUS
<1>1. CASE UNCHANGED fuVars
  BY <1>1 DEF fuVars, vqRestVars, FuIInv, FuTypeOK, BiasHeld
<1> QED BY <1>1, FuSampleIInv, FuOthersIInv DEF FuNext

LEMMA BiasStepKeeps ==
  ASSUME FuIInv, [FuNext]_fuVars, fuStored = "learned"
  PROVE  fuStored' = "learned" \/ fuAlgo # "vqf"
BY DEF FuIInv, FuTypeOK, BiasHeld, FuNext, FuStart, FuPersist, PersistedBias, FuSample,
       FuMove, fuVars

(* A bias that was learned is not lost, however often the session ends and *)
(* begins again and whatever its filters; only a session with a filter     *)
(* that has no bias stores zero over it (pipeline.rs:418-451, 955-976).    *)
THEOREM BiasKept == FuSpec => BiasNotForgotten
BY BiasStepKeeps, FuInitIInv, FuNextIInv, PTL DEF FuSpec, BiasNotForgotten

(***************************************************************************)
(* The configuration of a running pipeline.  Where it differs from what is *)
(* stored, a command is under way that has stored the setting and has yet  *)
(* to apply it, as long as nothing came between.  Of the steps a command   *)
(* has left the stores come first, each is followed by its application,    *)
(* and both have one value; commands under way are about different fields. *)
(***************************************************************************)

(* What a command has left to do is the end of a command. *)
EndOfCommand(s) ==
  /\ s \in Seq(LcSteps)
  /\ \A i, j \in DOMAIN s : i < j /\ s[j].op = "store" => s[i].op = "store" /\ s[i].field # s[j].field
  /\ \A i \in DOMAIN s : s[i].op = "store" => \E j \in DOMAIN s : s[j].op = "live" /\ s[j].field = s[i].field
  /\ \A i, j \in DOMAIN s : s[i].field = s[j].field => s[i].value = s[j].value

(* It has stored f, and has yet to apply it. *)
Owes(s, f) ==
  /\ \E i \in DOMAIN s : s[i].op = "live" /\ s[i].field = f
  /\ \A i \in DOMAIN s : s[i].op = "store" => s[i].field # f

Owed(f) == \E c \in LcCallers : Owes(lcTodo[c], f)

FieldsApart ==
  \A b, c \in LcCallers : b # c => FieldsOf(lcTodo[b]) \cap FieldsOf(lcTodo[c]) = {}
OwedIsStored ==
  \A c \in LcCallers, f \in LcFields : Owes(lcTodo[c], f) =>
    \A i \in DOMAIN lcTodo[c] : lcTodo[c][i].field = f => lcTodo[c][i].value = lcStored[f]
(* A config has of f what is stored, or will have. *)
Reflects(config, f) == lcStored[f] # LcUnset => config[f] = lcStored[f] \/ Owed(f)
LiveReflects == lcReg = "in" => \A f \in LcFields : Reflects(lcLive, f)
ReadReflects ==
  lcReg = "reading" => \A f \in LcFields \ ToSet(lcToRead) : Reflects(lcRead, f)

LcShape ==
  /\ LcTypeOK
  /\ lcCopy \in [LcCallers -> [LcFields -> LcValues] \cup {LcNone}]
  /\ \A c \in LcCallers : EndOfCommand(lcTodo[c])
LcUnharmed == lcHarm = {} => FieldsApart /\ OwedIsStored /\ LiveReflects /\ ReadReflects
LcIInv == LcShape /\ LcUnharmed

LEMMA StepsTyped ==
  ASSUME NEW st \in LcSteps
  PROVE  st.op \in {"store", "live"} /\ st.field \in LcFields /\ st.value \in LcValues
BY DEF LcSteps

(* A command as it is invoked: what it applies it stores before. *)
WholeCommand(s) ==
  /\ EndOfCommand(s)
  /\ \A f : ~Owes(s, f)

LEMMA SettersWhole ==
  ASSUME NEW f \in LcFields, NEW v \in LcValues
  PROVE  WholeCommand(<<StoreSetting(f, v), SetLive(f, v)>>)
<1> DEFINE s == <<StoreSetting(f, v), SetLive(f, v)>>
<1>1. s \in Seq(LcSteps)
  BY DEF LcSteps, StoreSetting, SetLive
<1>2. /\ DOMAIN s = {1, 2}
      /\ s[1].op = "store" /\ s[1].field = f /\ s[1].value = v
      /\ s[2].op = "live" /\ s[2].field = f /\ s[2].value = v
  BY DEF StoreSetting, SetLive
<1> HIDE DEF s
<1>3. EndOfCommand(s)
  BY <1>1, <1>2 DEF EndOfCommand
<1>4. \A g : ~Owes(s, g)
  BY <1>2 DEF Owes
<1> QED BY <1>3, <1>4 DEF WholeCommand, s

LEMMA FinishWhole == WholeCommand(FinishMagCalibration)
<1> DEFINE s == FinishMagCalibration
<1>1. s \in Seq(LcSteps)
  BY DEF FinishMagCalibration, LcSteps, LcFields, LcValues, StoreSetting, SetLive
<1>2. /\ DOMAIN s = {1, 2, 3, 4}
      /\ s[1].op = "store" /\ s[1].field = "cal" /\ s[1].value = "other"
      /\ s[2].op = "store" /\ s[2].field = "magOn" /\ s[2].value = "other"
      /\ s[3].op = "live" /\ s[3].field = "cal" /\ s[3].value = "other"
      /\ s[4].op = "live" /\ s[4].field = "magOn" /\ s[4].value = "other"
  BY DEF FinishMagCalibration, StoreSetting, SetLive
<1> HIDE DEF s
<1>3. EndOfCommand(s)
  BY <1>1, <1>2 DEF EndOfCommand
<1>4. \A f : ~Owes(s, f)
  BY <1>2 DEF Owes
<1> QED BY <1>3, <1>4 DEF WholeCommand, s

LEMMA WizardWhole == ASSUME NEW v \in LcValues PROVE WholeCommand(ApplyWizard(v, v, v))
<1> DEFINE s == ApplyWizard(v, v, v)
<1>1. s \in Seq(LcSteps)
  BY DEF ApplyWizard, LcSteps, LcFields, StoreSetting, SetLive
<1>2. /\ DOMAIN s = {1, 2, 3, 4, 5, 6}
      /\ s[1].op = "store" /\ s[1].field = "mounting" /\ s[1].value = v
      /\ s[2].op = "store" /\ s[2].field = "rotation" /\ s[2].value = v
      /\ s[3].op = "store" /\ s[3].field = "magOn" /\ s[3].value = v
      /\ s[4].op = "live" /\ s[4].field = "mounting" /\ s[4].value = v
      /\ s[5].op = "live" /\ s[5].field = "rotation" /\ s[5].value = v
      /\ s[6].op = "live" /\ s[6].field = "magOn" /\ s[6].value = v
  BY DEF ApplyWizard, StoreSetting, SetLive
<1> HIDE DEF s
<1>3. EndOfCommand(s)
  BY <1>1, <1>2 DEF EndOfCommand
<1>4. \A f : ~Owes(s, f)
  BY <1>2 DEF Owes
<1> QED BY <1>3, <1>4 DEF WholeCommand, s

LEMMA CommandsWhole == ASSUME NEW s \in LcCommands PROVE WholeCommand(s)
<1> DEFINE Setters(v) == {SetMountingOrientation(v), SetRotationOffset(v), SetGyroScale(v),
                          SetMagnetometerEnabled(v)}
<1>1. CASE \E v \in LcValues, f \in LcFields : s = <<StoreSetting(f, v), SetLive(f, v)>>
  BY <1>1, SettersWhole
<1>2. CASE s = FinishMagCalibration
  BY <1>2, FinishWhole
<1>3. CASE \E v \in LcValues : s = ApplyWizard(v, v, v)
  BY <1>3, WizardWhole
<1>4. \/ \E v \in LcValues : s \in Setters(v)
      \/ \E v \in LcValues : s = ApplyWizard(v, v, v)
      \/ s = FinishMagCalibration \/ s = ClearMagCalibration
  BY Zenon DEF LcCommands
<1>5. CASE s = ClearMagCalibration
  BY <1>1, <1>5 DEF ClearMagCalibration, LcFields, LcValues
<1>6. CASE \E v \in LcValues : s \in Setters(v)
  BY <1>1, <1>6 DEF SetMountingOrientation, SetRotationOffset, SetGyroScale,
                    SetMagnetometerEnabled, LcFields
<1> HIDE DEF Setters
<1> QED BY <1>2, <1>3, <1>4, <1>5, <1>6

(* What is left when the first step is done. *)
LEMMA TailOf ==
  ASSUME NEW s, EndOfCommand(s), s # <<>>
  PROVE  /\ EndOfCommand(Tail(s))
         /\ FieldsOf(Tail(s)) \subseteq FieldsOf(s)
         /\ Head(s) \in LcSteps /\ Head(s).field \in FieldsOf(s)
         /\ \A i \in DOMAIN Tail(s) : i + 1 \in DOMAIN s /\ Tail(s)[i] = s[i + 1]
         /\ \A i \in DOMAIN s : i = 1 \/ (i - 1 \in DOMAIN Tail(s) /\ s[i] = Tail(s)[i - 1])
         /\ 1 \in DOMAIN s /\ Head(s) = s[1] /\ DOMAIN s \subseteq Nat \ {0}
<1> USE DEF EndOfCommand
<1>1. s \in Seq(LcSteps) /\ Len(s) \in Nat /\ Len(s) > 0
  <2> HIDE DEF EndOfCommand
  <2>1. s \in Seq(LcSteps)
    BY DEF EndOfCommand
  <2> QED BY <2>1
<1>2. Tail(s) \in Seq(LcSteps) /\ Len(Tail(s)) = Len(s) - 1 /\ Head(s) = s[1] /\ s[1] \in LcSteps
  <2> HIDE DEF EndOfCommand
  <2> QED BY <1>1
<1>3. DOMAIN s = 1 .. Len(s) /\ DOMAIN Tail(s) = 1 .. (Len(s) - 1)
  <2> HIDE DEF EndOfCommand
  <2> QED BY <1>1, <1>2
<1>4. \A i \in DOMAIN Tail(s) : i + 1 \in DOMAIN s /\ Tail(s)[i] = s[i + 1]
  <2> HIDE DEF EndOfCommand
  <2> QED BY <1>1, <1>2, <1>3
<1>5. \A i \in DOMAIN s : i = 1 \/ (i - 1 \in DOMAIN Tail(s) /\ s[i] = Tail(s)[i - 1])
  <2> HIDE DEF EndOfCommand
  <2> QED BY <1>1, <1>2, <1>3, <1>4
<1>6. EndOfCommand(Tail(s))
  <2> DEFINE t == Tail(s)
  <2>1. \A i, j \in DOMAIN t : i < j /\ t[j].op = "store" => t[i].op = "store" /\ t[i].field # t[j].field
    BY <1>1, <1>3, <1>4
  <2>2. ASSUME NEW i \in DOMAIN t, t[i].op = "store"
        PROVE  \E j \in DOMAIN t : t[j].op = "live" /\ t[j].field = t[i].field
    <3>1. s[i + 1].op = "store" /\ i + 1 \in DOMAIN s
      BY <1>4, <2>2
    <3>2. PICK j \in DOMAIN s : s[j].op = "live" /\ s[j].field = s[i + 1].field
      BY <3>1
    <3>3. j # 1
      <4>1. 1 \in DOMAIN s /\ 1 < i + 1
        BY <1>1, <1>3, <2>2
      <4>2. s[1].op = "store"
        BY <3>1, <4>1
      <4> QED BY <3>2, <4>2
    <3>4. j - 1 \in DOMAIN t /\ t[j - 1] = s[j]
      BY <1>5, <3>3
    <3>5. t[i] = s[i + 1]
      BY <1>4
    <3> HIDE DEF t
    <3> QED BY <3>2, <3>4, <3>5
  <2>3. \A i, j \in DOMAIN t : t[i].field = t[j].field => t[i].value = t[j].value
    BY <1>4
  <2> QED BY <1>2, <2>1, <2>2, <2>3
<1>7. FieldsOf(Tail(s)) \subseteq FieldsOf(s)
  BY <1>4 DEF FieldsOf
<1>8. 1 \in DOMAIN s /\ Head(s).field \in FieldsOf(s)
  BY <1>1, <1>2, <1>3 DEF FieldsOf
<1> HIDE DEF EndOfCommand
<1> QED BY <1>1, <1>2, <1>3, <1>4, <1>5, <1>6, <1>7, <1>8

LEMMA OwesAfterStore ==
  ASSUME NEW s, EndOfCommand(s), s # <<>>, Head(s).op = "store", NEW f
  PROVE  Owes(Tail(s), f) <=> Owes(s, f) \/ f = Head(s).field
<1> DEFINE t == Tail(s)
<1>1. /\ \A i \in DOMAIN t : i + 1 \in DOMAIN s /\ t[i] = s[i + 1]
      /\ \A i \in DOMAIN s : i = 1 \/ (i - 1 \in DOMAIN t /\ s[i] = t[i - 1])
      /\ 1 \in DOMAIN s /\ Head(s) = s[1] /\ DOMAIN s \subseteq Nat \ {0}
  BY TailOf
<1>2. s[1].op = "store"
  BY <1>1
<1> HIDE DEF t
<1>3. ASSUME Owes(s, f) PROVE Owes(t, f)
  <2>1. PICK i \in DOMAIN s : s[i].op = "live" /\ s[i].field = f
    BY <1>3 DEF Owes
  <2>2. i - 1 \in DOMAIN t /\ t[i - 1] = s[i]
    BY <1>1, <1>2, <2>1
  <2> QED BY <1>1, <1>3, <2>1, <2>2 DEF Owes
<1>4. ASSUME f = s[1].field PROVE Owes(t, f)
  <2>1. PICK j \in DOMAIN s : s[j].op = "live" /\ s[j].field = f
    BY <1>1, <1>2, <1>4 DEF EndOfCommand
  <2>2. j - 1 \in DOMAIN t /\ t[j - 1] = s[j]
    BY <1>1, <1>2, <2>1
  <2>3. ASSUME NEW i \in DOMAIN t, t[i].op = "store" PROVE t[i].field # f
    <3>1. i + 1 \in DOMAIN s /\ t[i] = s[i + 1] /\ i + 1 # 1
      <4>1. i + 1 \in DOMAIN s /\ t[i] = s[i + 1]
        BY <1>1
      <4>2. i + 1 = 1 => s[i + 1] = s[1] /\ i = 0
        BY <4>1, <1>1
      <4>3. 0 \notin DOMAIN t
        BY DEF t, EndOfCommand
      <4> QED BY <4>1, <4>2, <4>3, <1>1
    <3>2. 1 < i + 1
      BY <1>1, <3>1
    <3> QED BY <1>1, <1>4, <2>3, <3>1, <3>2, SMTT(30) DEF EndOfCommand
  <2> QED BY <2>1, <2>2, <2>3 DEF Owes
<1>5. ASSUME Owes(t, f), f # s[1].field PROVE Owes(s, f)
  BY <1>1, <1>5 DEF Owes
<1> QED BY <1>1, <1>3, <1>4, <1>5 DEF t

LEMMA OwesAfterLive ==
  ASSUME NEW s, EndOfCommand(s), s # <<>>, Head(s).op = "live", NEW f
  PROVE  /\ Owes(s, Head(s).field)
         /\ Owes(Tail(s), f) => Owes(s, f)
         /\ Owes(s, f) /\ f # Head(s).field => Owes(Tail(s), f)
<1> DEFINE t == Tail(s)
<1>1. /\ \A i \in DOMAIN t : i + 1 \in DOMAIN s /\ t[i] = s[i + 1]
      /\ \A i \in DOMAIN s : i = 1 \/ (i - 1 \in DOMAIN t /\ s[i] = t[i - 1])
      /\ 1 \in DOMAIN s /\ Head(s) = s[1] /\ DOMAIN s \subseteq Nat \ {0}
  BY TailOf
<1>2. s[1].op = "live"
  BY <1>1
<1> HIDE DEF t
<1>3. \A i \in DOMAIN s : s[i].op # "store"
  <2> SUFFICES ASSUME NEW i \in DOMAIN s, s[i].op = "store" PROVE FALSE
    OBVIOUS
  <2>1. 1 < i
    BY <1>1, <1>2
  <2> QED BY <1>1, <1>2, <2>1 DEF EndOfCommand
<1>4. Owes(s, s[1].field)
  BY <1>1, <1>2, <1>3 DEF Owes
<1>5. Owes(t, f) => Owes(s, f)
  BY <1>1, <1>3 DEF Owes
<1>6. Owes(s, f) /\ f # s[1].field => Owes(t, f)
  BY <1>1, <1>3 DEF Owes
<1> QED BY <1>1, <1>4, <1>5, <1>6 DEF t

LEMMA LcInitIInv == LcInit => LcIInv
<1> SUFFICES ASSUME LcInit PROVE LcIInv
  OBVIOUS
<1> USE LcAssumption DEF LcInit
<1>1. LcTypeOK
  <2>1. {lcRead, lcLive} \subseteq [LcFields -> LcValues]
    BY DEF LcDefault, LcValues
  <2>2. lcToRead \in Seq(LcFields) /\ lcTodo \in [LcCallers -> Seq(LcSteps)]
    OBVIOUS
  <2> QED BY <2>1, <2>2 DEF LcTypeOK
<1>2. lcCopy \in [LcCallers -> [LcFields -> LcValues] \cup {LcNone}]
  OBVIOUS
<1>3. \A c \in LcCallers : lcTodo[c] = <<>> /\ DOMAIN lcTodo[c] = {}
  OBVIOUS
<1>4. EndOfCommand(<<>>)
  BY DEF EndOfCommand
<1>5. LcUnharmed
  BY <1>3 DEF LcUnharmed, FieldsApart, OwedIsStored, LiveReflects, ReadReflects, FieldsOf, Owes
<1> QED BY <1>1, <1>2, <1>3, <1>4, <1>5 DEF LcIInv, LcShape

(* A config that reflected the settings still does, if of every field it   *)
(* is so that what is stored stayed as it was, and so did what is owed; or *)
(* that it is owed now.                                                    *)
LEMMA StillReflects ==
  ASSUME NEW cfg, NEW f, Reflects(cfg, f),
         Owed(f)' \/ (lcStored'[f] = lcStored[f] /\ ~Owed(f))
  PROVE  lcStored'[f] # LcUnset => cfg[f] = lcStored'[f] \/ Owed(f)'
BY DEF Reflects

LEMMA LcInvokeIInv ==
  ASSUME LcIInv, NEW c \in LcCallers, NEW steps \in LcCommands, LcInvoke(c, steps)
  PROVE  LcIInv'
<1> USE DEF LcIInv, LcShape, LcInvoke
<1>1. EndOfCommand(steps) /\ steps \in Seq(LcSteps) /\ \A f : ~Owes(steps, f)
  BY CommandsWhole DEF WholeCommand, EndOfCommand
<1>2. /\ lcTodo' \in [LcCallers -> Seq(LcSteps)] /\ lcTodo'[c] = steps
      /\ \A b \in LcCallers \ {c} : lcTodo'[b] = lcTodo[b]
  BY <1>1 DEF LcTypeOK
<1>3. \A b \in LcCallers : lcCopy[b] # LcNone => b # c
  BY DEF LcTypeOK
<1>4. lcHarm' \subseteq {"lost", "same", "missed", "torn"} /\ lcCalls' \in 0 .. LcMaxCalls
  BY LcAssumption DEF LcTypeOK
<1>5. LcTypeOK'
  BY <1>2, <1>3, <1>4 DEF LcTypeOK, lcDevice
<1>6. LcShape'
  BY <1>1, <1>2, <1>5
<1>7. ASSUME lcHarm' = {} PROVE FieldsApart' /\ OwedIsStored' /\ LiveReflects' /\ ReadReflects'
  <2>1. lcHarm = {} /\ \A b \in LcBusy : FieldsOf(lcTodo[b]) \cap FieldsOf(steps) = {}
    BY <1>7
  <2>2. \A b \in LcCallers : FieldsOf(lcTodo[b]) \cap FieldsOf(steps) = {}
    <3>1. \A b \in LcCallers : lcTodo[b] = <<>> => FieldsOf(lcTodo[b]) = {}
      BY DEF FieldsOf
    <3> QED BY <2>1, <3>1 DEF LcBusy
  <2>3. FieldsApart'
    BY <1>2, <2>1, <2>2 DEF LcUnharmed, FieldsApart
  <2>4. OwedIsStored'
    BY <1>1, <1>2, <2>1 DEF LcUnharmed, OwedIsStored
  <2>5. ~\E f : Owes(lcTodo[c], f)
    BY DEF Owes
  <2>6. \A f : Owed(f) => Owed(f)'
    BY <1>2, <2>5 DEF Owed
  <2>7. LiveReflects' /\ ReadReflects'
    BY <2>1, <2>6 DEF LcUnharmed, LiveReflects, ReadReflects, Reflects, lcDevice
  <2> QED BY <2>3, <2>4, <2>7
<1> QED BY <1>6, <1>7 DEF LcUnharmed

(* A caller's step leaves the registration alone. *)
LEMMA CallerTyped ==
  ASSUME LcTypeOK, UNCHANGED lcDevice,
         lcStored' \in [LcFields -> LcValues \cup {LcUnset}], lcLive' \in [LcFields -> LcValues],
         lcTodo' \in [LcCallers -> Seq(LcSteps)],
         \A b \in LcCallers : lcCopy'[b] # LcNone =>
           /\ lcCopy'[b] \in [LcFields -> LcValues] /\ lcReg = "in"
           /\ lcTodo'[b] # <<>> /\ Head(lcTodo'[b]).op = "live",
         lcHarm' \subseteq {"lost", "same", "missed", "torn"},
         lcCalls' \in 0 .. LcMaxCalls, lcFaults' \in 0 .. LcMaxFaults
  PROVE  LcTypeOK'
<1>1. lcReg' = lcReg /\ lcToRead' = lcToRead /\ lcRead' = lcRead
  BY DEF lcDevice
<1>2. /\ lcReg' \in {"away", "reading", "in"} /\ lcToRead' \in Seq(LcFields)
      /\ lcToRead' # <<>> => lcReg' = "reading"
  BY <1>1 DEF LcTypeOK
<1>3. {lcRead', lcLive'} \subseteq [LcFields -> LcValues]
  BY <1>1 DEF LcTypeOK
<1>4. \A b \in LcCallers : lcCopy'[b] # LcNone =>
        /\ lcCopy'[b] \in [LcFields -> LcValues] /\ lcReg' = "in"
        /\ lcTodo'[b] # <<>> /\ Head(lcTodo'[b]).op = "live"
  BY <1>1
<1> QED BY <1>2, <1>3, <1>4 DEF LcTypeOK

(* A setting that is stored is owed to the running config. *)
LEMMA StoredIInv ==
  ASSUME LcIInv, NEW c \in LcCallers, LcAt(c, "store"),
         lcStored' = [lcStored EXCEPT ![Head(lcTodo[c]).field] = Head(lcTodo[c]).value],
         LcDone(c), UNCHANGED <<lcDevice, lcLive, lcCopy, lcCalls, lcHarm, lcFaults>>
  PROVE  LcIInv'
<1> DEFINE s == lcTodo[c]
           t == Tail(s)
           f == Head(s).field
<1>1. EndOfCommand(s) /\ s # <<>> /\ Head(s).op = "store"
  BY DEF LcIInv, LcShape, LcAt
<1>2. /\ EndOfCommand(t) /\ FieldsOf(t) \subseteq FieldsOf(s)
      /\ Head(s) \in LcSteps /\ f \in FieldsOf(s)
      /\ \A i \in DOMAIN t : i + 1 \in DOMAIN s /\ t[i] = s[i + 1]
      /\ 1 \in DOMAIN s /\ Head(s) = s[1]
  BY <1>1, TailOf
<1>3. \A g : Owes(t, g) <=> Owes(s, g) \/ g = f
  BY <1>1, OwesAfterStore
<1>4. f \in LcFields /\ Head(s).value \in LcValues /\ t \in Seq(LcSteps)
  BY <1>2, StepsTyped DEF EndOfCommand
<1>5. /\ lcTodo' \in [LcCallers -> Seq(LcSteps)] /\ lcTodo'[c] = t
      /\ \A b \in LcCallers \ {c} : lcTodo'[b] = lcTodo[b]
  BY <1>4 DEF LcDone, LcIInv, LcShape, LcTypeOK
<1>6. /\ lcStored' \in [LcFields -> LcValues \cup {LcUnset}] /\ lcStored'[f] = Head(s).value
      /\ \A g \in LcFields \ {f} : lcStored'[g] = lcStored[g]
  BY <1>4 DEF LcIInv, LcShape, LcTypeOK
<1>7. \A b \in LcCallers : lcCopy[b] # LcNone => b # c
  BY <1>1 DEF LcIInv, LcShape, LcTypeOK
<1> HIDE DEF s, t, f
<1>8. LcShape'
  <2>1. \A b \in LcCallers : lcCopy'[b] # LcNone =>
          /\ lcCopy'[b] \in [LcFields -> LcValues] /\ lcReg = "in"
          /\ lcTodo'[b] # <<>> /\ Head(lcTodo'[b]).op = "live"
    BY <1>5, <1>7 DEF LcIInv, LcShape, LcTypeOK
  <2>2. LcTypeOK /\ lcLive \in [LcFields -> LcValues] /\ lcCalls \in 0 .. LcMaxCalls
        /\ lcFaults \in 0 .. LcMaxFaults /\ lcHarm \subseteq {"lost", "same", "missed", "torn"}
    BY DEF LcIInv, LcShape, LcTypeOK
  <2>3. LcTypeOK'
    BY <1>5, <1>6, <2>1, <2>2, CallerTyped
  <2>4. \A b \in LcCallers : EndOfCommand(lcTodo'[b])
    BY <1>2, <1>5 DEF LcIInv, LcShape
  <2> QED BY <2>3, <2>4 DEF LcIInv, LcShape
<1>9. ASSUME lcHarm = {} PROVE FieldsApart' /\ OwedIsStored' /\ LiveReflects' /\ ReadReflects'
  <2>1. FieldsApart /\ OwedIsStored /\ LiveReflects /\ ReadReflects
    BY <1>9 DEF LcIInv, LcUnharmed
  <2>2. FieldsApart'
    BY <1>2, <1>5, <2>1, ZenonT(60) DEF FieldsApart, s
  <2>3. \A b \in LcCallers \ {c} : \A g : Owes(lcTodo[b], g) => g # f
    BY <1>2, <2>1 DEF FieldsApart, FieldsOf, Owes, s
  <2>4. OwedIsStored'
    <3> SUFFICES ASSUME NEW b \in LcCallers, NEW g \in LcFields, Owes(lcTodo'[b], g),
                        NEW i \in DOMAIN lcTodo'[b], lcTodo'[b][i].field = g
                 PROVE  lcTodo'[b][i].value = lcStored'[g]
      BY DEF OwedIsStored
    <3>1. CASE b # c
      BY <1>5, <1>6, <2>1, <2>3, <3>1 DEF OwedIsStored
    <3>2. CASE b = c /\ g = f
      <4>1. t[i] = s[i + 1] /\ i + 1 \in DOMAIN s /\ s[i + 1].field = s[1].field
        BY <1>2, <1>5, <3>2 DEF f
      <4>2. s[i + 1].value = s[1].value
        BY <1>1, <1>2, <4>1 DEF EndOfCommand
      <4> QED BY <1>2, <1>5, <1>6, <3>2, <4>1, <4>2
    <3>3. CASE b = c /\ g # f
      BY <1>2, <1>3, <1>5, <1>6, <2>1, <3>3 DEF OwedIsStored, s
    <3> QED BY <3>1, <3>2, <3>3
  <2>5. \A g \in LcFields : Owed(g)' \/ (lcStored'[g] = lcStored[g] /\ ~Owed(g))
    <3> SUFFICES ASSUME NEW g \in LcFields, g = f \/ Owed(g) PROVE Owed(g)'
      BY <1>6
    <3>1. CASE g = f
      BY <1>3, <1>5, <3>1 DEF Owed
    <3>2. CASE Owed(g)
      BY <1>3, <1>5, <3>2 DEF Owed, s
    <3> QED BY <3>1, <3>2
  <2>6. LiveReflects' /\ ReadReflects'
    BY <2>1, <2>5, StillReflects DEF LiveReflects, ReadReflects, Reflects, lcDevice
  <2> QED BY <2>2, <2>4, <2>6
<1> QED BY <1>8, <1>9 DEF LcIInv, LcUnharmed

(* A command that fails leaves nothing owed, or has torn the two apart. *)
LEMMA StoreFailsIInv ==
  ASSUME LcIInv, NEW c \in LcCallers, LcAt(c, "store"),
         lcFaults < LcMaxFaults, lcFaults' = lcFaults + 1,
         lcTodo' = [lcTodo EXCEPT ![c] = <<>>],
         lcHarm' = IF HalfDone(lcTodo[c]) THEN lcHarm \cup {"torn"} ELSE lcHarm,
         UNCHANGED <<lcStored, lcDevice, lcLive, lcCopy, lcCalls>>
  PROVE  LcIInv'
<1> USE DEF LcIInv, LcShape
<1>1. /\ lcTodo' \in [LcCallers -> Seq(LcSteps)] /\ lcTodo'[c] = <<>>
      /\ \A b \in LcCallers \ {c} : lcTodo'[b] = lcTodo[b]
  BY DEF LcTypeOK
<1>2. \A b \in LcCallers : lcCopy[b] # LcNone => b # c
  BY DEF LcTypeOK, LcAt
<1>3. lcHarm' \subseteq {"lost", "same", "missed", "torn"} /\ lcFaults' \in 0 .. LcMaxFaults
  BY LcAssumption DEF LcTypeOK
<1>4. EndOfCommand(<<>>) /\ FieldsOf(<<>>) = {} /\ \A f : ~Owes(<<>>, f)
  BY DEF EndOfCommand, FieldsOf, Owes
<1>5. LcShape'
  <2>1. LcTypeOK'
    BY <1>1, <1>2, <1>3 DEF LcTypeOK, lcDevice
  <2> QED BY <1>1, <1>4, <2>1
<1>6. ASSUME lcHarm' = {} PROVE FieldsApart' /\ OwedIsStored' /\ LiveReflects' /\ ReadReflects'
  <2>1. lcHarm = {} /\ ~HalfDone(lcTodo[c])
    BY <1>6
  <2>2. \A f \in LcFields : ~Owes(lcTodo[c], f)
    BY <2>1 DEF HalfDone, Owes
  <2>3. FieldsApart' /\ OwedIsStored'
    BY <1>1, <1>4, <2>1 DEF LcUnharmed, FieldsApart, OwedIsStored
  <2>4. \A f \in LcFields : Owed(f) => Owed(f)'
    BY <1>1, <2>2 DEF Owed
  <2>5. LiveReflects' /\ ReadReflects'
    BY <2>1, <2>4 DEF LcUnharmed, LiveReflects, ReadReflects, Reflects, lcDevice
  <2> QED BY <2>3, <2>5
<1> QED BY <1>5, <1>6 DEF LcUnharmed

(* A setter that finds no entry: its device is away, and what will be read *)
(* is what is stored.                                                      *)
LEMMA SetterBeginsIInv ==
  ASSUME LcIInv, NEW c \in LcCallers, SetterBegins(c)
  PROVE  LcIInv'
<1> USE DEF SetterBegins
<1>1. CASE lcReg = "in" /\ lcCopy' = [lcCopy EXCEPT ![c] = lcLive] /\ UNCHANGED <<lcTodo, lcHarm>>
  <2>1. lcCopy' \in [LcCallers -> [LcFields -> LcValues] \cup {LcNone}]
    BY <1>1 DEF LcIInv, LcShape, LcTypeOK
  <2>2. lcCopy'[c] = lcLive /\ \A b \in LcCallers \ {c} : lcCopy'[b] = lcCopy[b]
    BY <1>1 DEF LcIInv, LcShape
  <2>3. lcLive \in [LcFields -> LcValues] /\ lcTodo[c] # <<>> /\ Head(lcTodo[c]).op = "live"
    BY DEF LcAt, LcIInv, LcShape, LcTypeOK
  <2>4. LcShape'
    BY <1>1, <2>1, <2>2, <2>3 DEF LcIInv, LcShape, LcTypeOK, lcDevice
  <2>5. LcUnharmed'
    BY <1>1 DEF LcIInv, LcUnharmed, FieldsApart, OwedIsStored, LiveReflects, ReadReflects,
                Reflects, Owed, lcDevice
  <2> QED BY <2>4, <2>5 DEF LcIInv
<1>2. CASE /\ lcReg # "in" /\ LcDone(c) /\ UNCHANGED lcCopy
           /\ lcHarm' = IF lcReg = "reading" THEN lcHarm \cup {"missed"} ELSE lcHarm
  <2> DEFINE s == lcTodo[c]
             t == Tail(s)
  <2>1. EndOfCommand(s) /\ s # <<>> /\ Head(s).op = "live"
    BY DEF LcAt, LcIInv, LcShape
  <2>2. /\ EndOfCommand(t) /\ FieldsOf(t) \subseteq FieldsOf(s)
        /\ \A i \in DOMAIN t : i + 1 \in DOMAIN s /\ t[i] = s[i + 1]
    BY <2>1, TailOf
  <2>3. \A g : Owes(t, g) => Owes(s, g)
    BY <2>1, OwesAfterLive
  <2>4. /\ lcTodo' \in [LcCallers -> Seq(LcSteps)] /\ lcTodo'[c] = t
        /\ \A b \in LcCallers \ {c} : lcTodo'[b] = lcTodo[b]
    BY <1>2, <2>2 DEF LcDone, LcIInv, LcShape, LcTypeOK, EndOfCommand
  <2> HIDE DEF t
  <2>5. \A b \in LcCallers : lcCopy[b] = LcNone
    BY <1>2 DEF LcIInv, LcShape, LcTypeOK
  <2>6. lcHarm' \subseteq {"lost", "same", "missed", "torn"}
    BY <1>2 DEF LcIInv, LcShape, LcTypeOK
  <2>7. LcShape'
    BY <1>2, <2>2, <2>4, <2>5, <2>6 DEF LcIInv, LcShape, LcTypeOK, lcDevice
  <2>8. ASSUME lcHarm' = {} PROVE FieldsApart' /\ OwedIsStored' /\ LiveReflects' /\ ReadReflects'
    <3>1. lcHarm = {} /\ lcReg \notin {"reading", "in"}
      BY <1>2, <2>8
    <3>2. FieldsApart'
      BY <2>2, <2>4, <3>1 DEF LcIInv, LcUnharmed, FieldsApart
    <3>3. OwedIsStored'
      BY <2>2, <2>3, <2>4, <3>1 DEF LcIInv, LcUnharmed, OwedIsStored
    <3>4. LiveReflects' /\ ReadReflects'
      BY <3>1 DEF LiveReflects, ReadReflects, lcDevice
    <3> QED BY <3>2, <3>3, <3>4
  <2> QED BY <2>7, <2>8 DEF LcIInv, LcUnharmed
<1> QED BY <1>1, <1>2

(* A setter whose copy nobody outdated pays what its command owes. *)
LEMMA SetterEndsIInv ==
  ASSUME LcIInv, NEW c \in LcCallers, SetterEnds(c)
  PROVE  LcIInv'
<1> USE DEF SetterEnds
<1> DEFINE s == lcTodo[c]
           t == Tail(s)
           f == Head(s).field
<1>1. EndOfCommand(s) /\ s # <<>> /\ Head(s).op = "live" /\ lcReg = "in"
  BY DEF LcIInv, LcShape, LcTypeOK
<1>2. /\ EndOfCommand(t) /\ FieldsOf(t) \subseteq FieldsOf(s)
      /\ Head(s) \in LcSteps /\ f \in FieldsOf(s)
      /\ \A i \in DOMAIN t : i + 1 \in DOMAIN s /\ t[i] = s[i + 1]
      /\ 1 \in DOMAIN s /\ Head(s) = s[1]
  BY <1>1, TailOf
<1>3. Owes(s, f) /\ \A g : (Owes(t, g) => Owes(s, g)) /\ (Owes(s, g) /\ g # f => Owes(t, g))
  BY <1>1, OwesAfterLive
<1>4. f \in LcFields /\ Head(s).value \in LcValues /\ t \in Seq(LcSteps)
  BY <1>2, StepsTyped DEF EndOfCommand
<1>5. /\ lcTodo' \in [LcCallers -> Seq(LcSteps)] /\ lcTodo'[c] = t
      /\ \A b \in LcCallers \ {c} : lcTodo'[b] = lcTodo[b]
  BY <1>4 DEF LcDone, LcIInv, LcShape, LcTypeOK
<1>6. /\ lcCopy' \in [LcCallers -> [LcFields -> LcValues] \cup {LcNone}] /\ lcCopy'[c] = LcNone
      /\ \A b \in LcCallers \ {c} : lcCopy'[b] = lcCopy[b]
  BY DEF LcIInv, LcShape
<1>7. /\ lcLive' \in [LcFields -> LcValues] /\ lcLive'[f] = Head(s).value
      /\ \A g \in LcFields \ {f} : lcLive'[g] = lcCopy[c][g]
  BY <1>4 DEF LcIInv, LcShape, LcTypeOK
<1>8. lcHarm' \subseteq {"lost", "same", "missed", "torn"}
  BY DEF LcIInv, LcShape, LcTypeOK
<1> HIDE DEF s, t, f
<1>9. LcShape'
  <2>1. \A b \in LcCallers : lcCopy'[b] # LcNone =>
          /\ lcCopy'[b] \in [LcFields -> LcValues] /\ lcReg = "in"
          /\ lcTodo'[b] # <<>> /\ Head(lcTodo'[b]).op = "live"
    BY <1>1, <1>5, <1>6 DEF LcIInv, LcShape, LcTypeOK
  <2>2. LcTypeOK'
    <3>1. /\ LcTypeOK /\ lcStored' \in [LcFields -> LcValues \cup {LcUnset}]
          /\ lcCalls' \in 0 .. LcMaxCalls /\ lcFaults' \in 0 .. LcMaxFaults
      BY DEF LcIInv, LcShape, LcTypeOK
    <3> QED BY <1>5, <1>7, <1>8, <2>1, <3>1, CallerTyped
  <2>3. \A b \in LcCallers : EndOfCommand(lcTodo'[b])
    BY <1>2, <1>5 DEF LcIInv, LcShape
  <2> QED BY <1>6, <2>2, <2>3 DEF LcShape
<1>10. ASSUME lcHarm' = {} PROVE FieldsApart' /\ OwedIsStored' /\ LiveReflects' /\ ReadReflects'
  <2>1. lcHarm = {} /\ lcLive = lcCopy[c]
    BY <1>10
  <2>2. FieldsApart /\ OwedIsStored /\ LiveReflects
    BY <2>1 DEF LcIInv, LcUnharmed
  <2>3. FieldsApart'
    BY <1>2, <1>5, <2>2, ZenonT(60) DEF FieldsApart, s
  <2>4. OwedIsStored'
    BY <1>2, <1>3, <1>5, <2>2, SMTT(30) DEF OwedIsStored, s
  <2>5. lcStored[f] = Head(s).value
    <3>1. s[1].field = f /\ s[1].value = Head(s).value /\ 1 \in DOMAIN lcTodo[c] /\ s = lcTodo[c]
      BY <1>2 DEF f, s
    <3> QED BY <1>3, <1>4, <2>2, <3>1 DEF OwedIsStored
  <2>6. \A g \in LcFields \ {f} : Owed(g) => Owed(g)'
    BY <1>3, <1>5 DEF Owed, s
  <2>7. LiveReflects'
    BY <1>1, <1>7, <2>1, <2>2, <2>5, <2>6 DEF LiveReflects, Reflects
  <2>8. ReadReflects'
    BY <1>1 DEF ReadReflects, lcDevice
  <2> QED BY <2>3, <2>4, <2>7, <2>8
<1> QED BY <1>9, <1>10 DEF LcIInv, LcUnharmed

(* The registration. *)
LEMMA LcRegisterIInv == ASSUME LcIInv, LcRegister PROVE LcIInv'
<1> USE DEF LcIInv, LcShape, LcRegister
<1>1. lcToRead' \in Seq(LcFields) /\ LcFields \subseteq ToSet(lcToRead')
  <2>1. lcToRead' \in Seq(LcFields)
    BY DEF LcFields
  <2>2. /\ DOMAIN lcToRead' = {1, 2, 3, 4, 5}
        /\ lcToRead'[1] = "mounting" /\ lcToRead'[2] = "cal" /\ lcToRead'[3] = "magOn"
        /\ lcToRead'[4] = "rotation" /\ lcToRead'[5] = "gyro"
    OBVIOUS
  <2> QED BY <2>1, <2>2 DEF ToSet, LcFields
<1>2. lcRead' \in [LcFields -> LcValues] /\ lcHarm' \subseteq lcHarm
  BY DEF LcDefault, LcValues
<1>3. \A c \in LcCallers : lcCopy[c] = LcNone
  BY DEF LcTypeOK
<1>4. LcShape'
  BY <1>1, <1>2, <1>3 DEF LcTypeOK
<1>5. ASSUME lcHarm' = {} PROVE FieldsApart' /\ OwedIsStored' /\ LiveReflects' /\ ReadReflects'
  <2>1. FieldsApart' /\ OwedIsStored'
    <3>1. CASE lcHarm = {}
      BY <3>1 DEF LcUnharmed, FieldsApart, OwedIsStored
    <3>2. CASE LcBusy = {}
      <4>1. \A c \in LcCallers : lcTodo'[c] = <<>>
        BY <3>2 DEF LcBusy
      <4> QED BY <4>1 DEF FieldsApart, OwedIsStored, FieldsOf, Owes
    <3> QED BY <1>5, <3>1, <3>2
  <2>2. LiveReflects' /\ ReadReflects'
    BY <1>1 DEF LiveReflects, ReadReflects
  <2> QED BY <2>1, <2>2
<1> QED BY <1>4, <1>5 DEF LcUnharmed

LEMMA LcReadSettingIInv == ASSUME LcIInv, LcReadSetting PROVE LcIInv'
<1> USE DEF LcIInv, LcShape, LcReadSetting
<1> DEFINE f == Head(lcToRead)
<1>1. /\ f \in LcFields /\ Tail(lcToRead) \in Seq(LcFields) /\ lcReg = "reading"
      /\ ToSet(lcToRead) \subseteq ToSet(Tail(lcToRead)) \cup {f}
  <2>1. lcToRead \in Seq(LcFields) /\ Len(lcToRead) \in Nat /\ Len(lcToRead) > 0 /\ lcReg = "reading"
    BY DEF LcTypeOK
  <2>2. /\ Tail(lcToRead) \in Seq(LcFields) /\ Len(Tail(lcToRead)) = Len(lcToRead) - 1
        /\ \A i \in 2 .. Len(lcToRead) : Tail(lcToRead)[i - 1] = lcToRead[i]
        /\ f = lcToRead[1] /\ f \in LcFields
    BY <2>1
  <2>3. DOMAIN lcToRead = 1 .. Len(lcToRead) /\ DOMAIN Tail(lcToRead) = 1 .. (Len(lcToRead) - 1)
    BY <2>1, <2>2
  <2>4. ASSUME NEW i \in DOMAIN lcToRead PROVE lcToRead[i] \in ToSet(Tail(lcToRead)) \cup {f}
    <3>1. CASE i = 1
      BY <2>2, <3>1
    <3>2. CASE i # 1
      <4>1. i \in 2 .. Len(lcToRead) /\ i - 1 \in DOMAIN Tail(lcToRead)
        BY <2>1, <2>3, <3>2
      <4> QED BY <2>2, <4>1, SMTT(30) DEF ToSet
    <3> QED BY <3>1, <3>2
  <2> QED BY <2>1, <2>2, <2>4 DEF ToSet
<1>2. /\ lcRead' \in [LcFields -> LcValues]
      /\ lcRead'[f] = PipelineConfigFrom(f)
      /\ \A g \in LcFields \ {f} : lcRead'[g] = lcRead[g]
  <2>1. PipelineConfigFrom(f) \in LcValues
    BY <1>1 DEF PipelineConfigFrom, LcTypeOK, LcFields, LcValues
  <2> QED BY <1>1, <2>1 DEF LcTypeOK
<1> HIDE DEF f
<1>3. LcShape'
  BY <1>1, <1>2 DEF LcTypeOK
<1>4. ASSUME lcHarm' = {} PROVE FieldsApart' /\ OwedIsStored' /\ LiveReflects' /\ ReadReflects'
  <2>1. lcHarm = {}
    BY <1>4
  <2>2. FieldsApart' /\ OwedIsStored' /\ LiveReflects'
    BY <1>1, <2>1 DEF LcUnharmed, FieldsApart, OwedIsStored, LiveReflects
  <2>3. ReadReflects'
    <3> SUFFICES ASSUME NEW g \in LcFields, g \notin ToSet(lcToRead'), lcStored[g] # LcUnset
                 PROVE  lcRead'[g] = lcStored[g] \/ Owed(g)'
      BY DEF ReadReflects, Reflects
    <3>1. CASE g = f
      BY <1>2, <3>1 DEF PipelineConfigFrom
    <3>2. CASE g # f
      <4>1. g \notin ToSet(lcToRead)
        BY <1>1, <3>2
      <4>2. lcRead[g] = lcStored[g] \/ Owed(g)
        BY <1>1, <2>1, <4>1 DEF LcUnharmed, ReadReflects, Reflects
      <4>3. Owed(g) => Owed(g)'
        BY DEF Owed
      <4> QED BY <1>2, <3>2, <4>2, <4>3
    <3> QED BY <3>1, <3>2
  <2> QED BY <2>2, <2>3
<1> QED BY <1>3, <1>4 DEF LcUnharmed

LEMMA LcInsertIInv == ASSUME LcIInv, LcInsert \/ LcLeave PROVE LcIInv'
<1> USE DEF LcIInv, LcShape
<1>1. CASE LcInsert
  <2> USE <1>1 DEF LcInsert
  <2>1. LcShape'
    BY DEF LcTypeOK
  <2>2. ToSet(lcToRead) = {}
    BY DEF ToSet
  <2>3. \A f : Owed(f) => Owed(f)'
    BY DEF Owed
  <2>4. LcUnharmed'
    BY <2>2, <2>3, SMTT(30) DEF LcUnharmed, FieldsApart, OwedIsStored, LiveReflects, ReadReflects, Reflects
  <2> QED BY <2>1, <2>4
<1>2. CASE LcLeave
  <2> USE <1>2 DEF LcLeave
  <2>1. LcShape'
    BY DEF LcTypeOK
  <2>2. LcUnharmed'
    BY DEF LcUnharmed, FieldsApart, OwedIsStored, LiveReflects, ReadReflects
  <2> QED BY <2>1, <2>2
<1> QED BY <1>1, <1>2

LEMMA LcNextIInv == LcIInv /\ [LcNext]_lcVars => LcIInv'
<1> SUFFICES ASSUME LcIInv, [LcNext]_lcVars PROVE LcIInv'
  OBVIOUS
<1>1. ASSUME NEW c \in LcCallers, SetSetting(c) PROVE LcIInv'
  BY <1>1, StoredIInv, StoreFailsIInv DEF SetSetting
<1>2. CASE UNCHANGED lcVars
  BY <1>2 DEF lcVars, lcDevice, LcIInv, LcShape, LcTypeOK, LcUnharmed, FieldsApart, OwedIsStored,
              LiveReflects, ReadReflects, Reflects, Owed
<1> QED BY <1>1, <1>2, LcInvokeIInv, SetterBeginsIInv, SetterEndsIInv, LcRegisterIInv,
           LcReadSettingIInv, LcInsertIInv DEF LcNext

(* With no command under way a pipeline runs with what is stored, for any  *)
(* number of commands side by side, registrations and failures, unless one *)
(* of the four things that LiveIsStored names came between                 *)
(* (commands.rs:107-121, 923-961, 1085-1113; app_state.rs:204-244, 118).   *)
THEOREM LiveStored == LcSpec => []LiveIsStored
<1>1. LcIInv => LiveIsStored
  <2> SUFFICES ASSUME LcIInv, lcReg = "in", LcBusy = {}, lcHarm = {},
                      NEW f \in LcFields, lcStored[f] # LcUnset
               PROVE  lcLive[f] = lcStored[f]
    BY DEF LiveIsStored
  <2>1. \A c \in LcCallers : lcTodo[c] = <<>>
    BY DEF LcBusy
  <2>2. ~Owed(f)
    BY <2>1 DEF Owed, Owes
  <2> QED BY <2>2 DEF LcIInv, LcUnharmed, LiveReflects, Reflects
<1> QED BY <1>1, LcInitIInv, LcNextIInv, PTL DEF LcSpec

(* Type correctness: a setter is at work only on a device that is in the   *)
(* registry, for a command that is at a live step.                         *)
THEOREM LcTypeCorrect == LcSpec => []LcTypeOK
<1>1. LcIInv => LcTypeOK  BY DEF LcIInv, LcShape
<1> QED BY <1>1, LcInitIInv, LcNextIInv, PTL DEF LcSpec
=============================================================================
