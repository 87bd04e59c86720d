----------------------------- MODULE LiveConfig -----------------------------
(***************************************************************************)
(* The settings of one device: what the commands of the user interface     *)
(* persist, and the PipelineConfig of its running pipeline, to which the   *)
(* same commands apply the change (commands.rs, app_state.rs).  Commands   *)
(* run side by side.  A setter copies the config, changes one field and    *)
(* puts it back, under the registry's read lock, which other setters may   *)
(* hold too; a registration reads the settings before it enters the        *)
(* device, under the write lock.                                           *)
(***************************************************************************)
EXTENDS Integers, Sequences, SequencesExt

CONSTANTS
  LcCallers,    \* bound: commands at a time
  LcMaxCalls,   \* bound: commands in all
  LcMaxFaults   \* bound: writes to the database that fail

ASSUME LcAssumption ==
  LcMaxCalls \in Nat /\ LcMaxFaults \in Nat /\ LcCallers # {}

LcFields == {"mounting", "rotation", "gyro", "magOn", "cal"}
LcUnset == "unset"
LcValues == {"default", "other"}   \* of magOn: off, on; of cal: none, a fit

VARIABLES
  lcStored, \* the settings table
  lcReg,    \* the device: away, being registered, or in the registry
  lcToRead, \* fields the registration has yet to read
  lcRead,   \* the config it has read so far
  lcLive,   \* the config of the registry's entry
  lcTodo,   \* of each command, the steps to come
  lcCopy,   \* of each command, the copy its setter works on, if it is in one
  lcHarm,   \* history: what has come between the settings and the config
  lcCalls, lcFaults

lcDevice == <<lcReg, lcToRead, lcRead>>
lcVars == <<lcStored, lcDevice, lcLive, lcTodo, lcCopy, lcHarm, lcCalls, lcFaults>>

LcNone == [field \in {} |-> LcUnset]
LcSteps == [op : {"store", "live"}, field : LcFields, value : LcValues]

LcTypeOK ==
  /\ lcStored \in [LcFields -> LcValues \cup {LcUnset}]
  /\ lcReg \in {"away", "reading", "in"}
  /\ lcToRead \in Seq(LcFields) /\ (lcToRead # <<>> => lcReg = "reading")
  /\ {lcRead, lcLive} \subseteq [LcFields -> LcValues]
  /\ lcTodo \in [LcCallers -> Seq(LcSteps)]
  /\ \A c \in LcCallers : lcCopy[c] # LcNone =>
       /\ lcCopy[c] \in [LcFields -> LcValues] /\ lcReg = "in"
       /\ lcTodo[c] # <<>> /\ Head(lcTodo[c]).op = "live"
  /\ lcHarm \subseteq {"lost", "same", "missed", "torn"}
  /\ lcCalls \in 0 .. LcMaxCalls /\ lcFaults \in 0 .. LcMaxFaults

LcDefault == [f \in LcFields |-> "default"]

LcInit ==
  /\ lcStored = [f \in LcFields |-> LcUnset]
  /\ lcReg = "away" /\ lcToRead = <<>> /\ lcRead = LcDefault /\ lcLive = LcDefault
  /\ lcTodo = [c \in LcCallers |-> <<>>] /\ lcCopy = [c \in LcCallers |-> LcNone]
  /\ lcHarm = {} /\ lcCalls = 0 /\ lcFaults = 0

-----------------------------------------------------------------------------
(* The commands, as the steps they take *)

StoreSetting(f, v) == [op |-> "store", field |-> f, value |-> v]
SetLive(f, v) == [op |-> "live", field |-> f, value |-> v]

SetMountingOrientation(v) == <<StoreSetting("mounting", v), SetLive("mounting", v)>>
SetRotationOffset(v) == <<StoreSetting("rotation", v), SetLive("rotation", v)>>
SetGyroScale(v) == <<StoreSetting("gyro", v), SetLive("gyro", v)>>
SetMagnetometerEnabled(v) == <<StoreSetting("magOn", v), SetLive("magOn", v)>>

ApplyWizard(m, r, g) ==
  << StoreSetting("mounting", m), StoreSetting("rotation", r), StoreSetting("magOn", g),
     SetLive("mounting", m), SetLive("rotation", r), SetLive("magOn", g) >>

FinishAppliesFirst ==
  << SetLive("cal", "other"), StoreSetting("cal", "other"),
     StoreSetting("magOn", "other"), SetLive("magOn", "other") >>

FinishMagCalibration ==
  << StoreSetting("cal", "other"), StoreSetting("magOn", "other"),
     SetLive("cal", "other"), SetLive("magOn", "other") >>

ClearMagCalibration == <<StoreSetting("cal", "default"), SetLive("cal", "default")>>

LcCommands ==
  {SetMountingOrientation(v) : v \in LcValues} \cup {SetRotationOffset(v) : v \in LcValues}
    \cup {SetGyroScale(v) : v \in LcValues} \cup {SetMagnetometerEnabled(v) : v \in LcValues}
    \cup {ApplyWizard(v, v, v) : v \in LcValues} \cup {FinishMagCalibration, ClearMagCalibration}

LcBusy == {c \in LcCallers : lcTodo[c] # <<>>}
FieldsOf(steps) == {steps[i].field : i \in DOMAIN steps}

(* A value that is not finite, or not above zero, is refused at once. *)
LcInvoke(c, steps) ==
  /\ lcTodo[c] = <<>> /\ lcCalls < LcMaxCalls /\ lcCalls' = lcCalls + 1
  /\ lcTodo' = [lcTodo EXCEPT ![c] = steps]
  /\ lcHarm' = IF \E b \in LcBusy : FieldsOf(lcTodo[b]) \cap FieldsOf(steps) # {}
               THEN lcHarm \cup {"same"} ELSE lcHarm
  /\ UNCHANGED <<lcStored, lcDevice, lcLive, lcCopy, lcFaults>>

LcAt(c, op) == lcTodo[c] # <<>> /\ Head(lcTodo[c]).op = op
LcDone(c) == lcTodo' = [lcTodo EXCEPT ![c] = Tail(@)]

(* Something of a command is stored and has yet to be applied. *)
HalfDone(steps) ==
  \E f \in LcFields : /\ \E i \in DOMAIN steps : steps[i].op = "live" /\ steps[i].field = f
                      /\ \A i \in DOMAIN steps : steps[i].op = "store" => steps[i].field # f

(* A write that fails ends its command, what it has stored being stored. *)
SetSetting(c) ==
  /\ LcAt(c, "store")
  /\ \/ /\ lcStored' = [lcStored EXCEPT ![Head(lcTodo[c]).field] = Head(lcTodo[c]).value]
        /\ LcDone(c) /\ UNCHANGED <<lcHarm, lcFaults>>
     \/ /\ lcFaults < LcMaxFaults /\ lcFaults' = lcFaults + 1
        /\ lcTodo' = [lcTodo EXCEPT ![c] = <<>>]
        /\ lcHarm' = IF HalfDone(lcTodo[c]) THEN lcHarm \cup {"torn"} ELSE lcHarm
        /\ UNCHANGED lcStored
  /\ UNCHANGED <<lcDevice, lcLive, lcCopy, lcCalls>>

(* The setter finds the entry and copies its config; without an entry it   *)
(* returns false, and what it should have set is in the settings, where a  *)
(* registration may have read past it.                                     *)
SetterBegins(c) ==
  /\ LcAt(c, "live") /\ lcCopy[c] = LcNone
  /\ \/ /\ lcReg = "in" /\ lcCopy' = [lcCopy EXCEPT ![c] = lcLive]
        /\ UNCHANGED <<lcTodo, lcHarm>>
     \/ /\ lcReg # "in" /\ LcDone(c) /\ UNCHANGED lcCopy
        /\ lcHarm' = IF lcReg = "reading" THEN lcHarm \cup {"missed"} ELSE lcHarm
  /\ UNCHANGED <<lcStored, lcDevice, lcLive, lcCalls, lcFaults>>

SetterEnds(c) ==
  /\ lcCopy[c] # LcNone
  /\ lcLive' = [lcCopy[c] EXCEPT ![Head(lcTodo[c]).field] = Head(lcTodo[c]).value]
  /\ lcCopy' = [lcCopy EXCEPT ![c] = LcNone] /\ LcDone(c)
  /\ lcHarm' = IF lcLive # lcCopy[c] THEN lcHarm \cup {"lost"} ELSE lcHarm
  /\ UNCHANGED <<lcStored, lcDevice, lcCalls, lcFaults>>

-----------------------------------------------------------------------------
(* The registration *)

(* register_device: from here on the settings are read, one by one. *)
LcRegister ==
  /\ lcReg = "away" /\ lcReg' = "reading"
  /\ lcToRead' = <<"mounting", "cal", "magOn", "rotation", "gyro">>
  /\ lcRead' = LcDefault
  /\ lcHarm' = IF LcBusy = {} THEN {} ELSE lcHarm
  /\ UNCHANGED <<lcStored, lcLive, lcTodo, lcCopy, lcCalls, lcFaults>>

(* Where no setting tells, a calibration turns the magnetometer on. *)
PipelineConfigFrom(f) ==
  IF lcStored[f] # LcUnset THEN lcStored[f]
  ELSE IF f = "magOn" THEN lcRead["cal"] ELSE "default"

LcReadSetting ==
  /\ lcToRead # <<>>
  /\ lcRead' = [lcRead EXCEPT ![Head(lcToRead)] = PipelineConfigFrom(Head(lcToRead))]
  /\ lcToRead' = Tail(lcToRead)
  /\ UNCHANGED <<lcStored, lcReg, lcLive, lcTodo, lcCopy, lcHarm, lcCalls, lcFaults>>

LcInsert ==
  /\ lcReg = "reading" /\ lcToRead = <<>>
  /\ lcReg' = "in" /\ lcLive' = lcRead
  /\ UNCHANGED <<lcStored, lcToRead, lcRead, lcTodo, lcCopy, lcHarm, lcCalls, lcFaults>>

(* The entry is removed under the write lock, with no setter at work. *)
LcLeave ==
  /\ lcReg = "in" /\ \A c \in LcCallers : lcCopy[c] = LcNone
  /\ lcReg' = "away"
  /\ UNCHANGED <<lcStored, lcToRead, lcRead, lcLive, lcTodo, lcCopy, lcHarm, lcCalls, lcFaults>>

LcNext ==
  \/ \E c \in LcCallers :
       \/ \E steps \in LcCommands : LcInvoke(c, steps)
       \/ SetSetting(c) \/ SetterBegins(c) \/ SetterEnds(c)
  \/ LcRegister \/ LcReadSetting \/ LcInsert \/ LcLeave

LcSpec == LcInit /\ [][LcNext]_lcVars

-----------------------------------------------------------------------------
(* Properties *)

(* With no command under way, a pipeline runs with what is stored, field   *)
(* by field where a setting is stored, unless one of four things came      *)
(* between: a setter put back a copy that another setter had outdated, two *)
(* commands set one field at a time, a setter found no entry while its     *)
(* device was being registered, or a command stored one of its settings    *)
(* and failed at the next (commands.rs:107-121, 923-961, 1085-1113;        *)
(* app_state.rs:204-244, 118).  No other order of commands, registrations  *)
(* and failures makes the running config differ from the settings.         *)
LiveIsStored ==
  lcReg = "in" /\ LcBusy = {} /\ lcHarm = {} =>
    \A f \in LcFields : lcStored[f] # LcUnset => lcLive[f] = lcStored[f]
=============================================================================
