----------------------------- MODULE TeslaSource -----------------------------
(***************************************************************************)
(* The Tesla source, crates/device-tesla: one device whose runner gets an  *)
(* access token with a refresh token that each use replaces, subscribes to *)
(* the vehicle's stream, turns its frames into samples by their            *)
(* differences, and after an end of the stream waits and starts again.     *)
(***************************************************************************)
EXTENDS Integers

CONSTANTS
  TsLife,      \* refresh an access token that is this old, in ticks (80 % of its life)
  TsMaxBackoff,\* doublings of the backoff before it stays (1 s to 60 s)
  TsMaxFaults  \* bound: requests, connections and streams that fail

ASSUME TsAssumption ==
  TsLife \in Nat \ {0} /\ TsMaxBackoff \in Nat /\ TsMaxFaults \in Nat

VARIABLES
  tsPc,      \* where the runner is
  tsAge,     \* of the access token in token_state; TsLife also when there is none
  tsMine,    \* the refresh token it would send: the configured one is 0
  tsTheirs,  \* the one the server takes
  tsLost,    \* history: the answer to a refresh was lost
  tsBackoff, \* doublings so far
  tsBase,    \* ImuSynth has a frame to take the difference to
  tsUp,      \* the vehicle is online
  tsOpen,    \* the pipeline holds the receiver
  tsStop,    \* the stop signal
  tsSeen,    \* the runner has seen it change
  tsFaults

tsAuth == <<tsAge, tsMine, tsTheirs, tsLost>>
tsEnv  == <<tsUp, tsOpen, tsStop>>
tsVars == <<tsPc, tsAuth, tsBackoff, tsBase, tsEnv, tsSeen, tsFaults>>

(* Refresh tokens after the configured one; two are enough to tell them    *)
(* apart, as only the last one is taken.                                   *)
TsTokens == 0 .. 2
TsNext(t) == IF t = 2 THEN 1 ELSE t + 1

TsTypeOK ==
  /\ tsPc \in {"new", "top", "token", "connect", "stream", "wait", "ended"}
  /\ tsAge \in 0 .. TsLife /\ {tsMine, tsTheirs} \subseteq TsTokens
  /\ {tsLost, tsBase, tsUp, tsOpen, tsStop, tsSeen} \subseteq BOOLEAN
  /\ tsBackoff \in 0 .. TsMaxBackoff /\ tsFaults \in 0 .. TsMaxFaults

TsInit ==
  /\ tsPc = "new" /\ tsAge = TsLife /\ tsMine = 0 /\ tsTheirs = 0 /\ tsLost = FALSE
  /\ tsBackoff = 0 /\ tsBase = FALSE
  /\ tsUp = TRUE /\ tsOpen = TRUE /\ tsStop = FALSE /\ tsSeen = FALSE /\ tsFaults = 0

TsFault == tsFaults < TsMaxFaults /\ tsFaults' = tsFaults + 1
TsWaits == tsPc' = "wait"
TsBacksOff == TsWaits /\ tsBackoff' = IF tsBackoff = TsMaxBackoff THEN tsBackoff ELSE tsBackoff + 1

TsStart ==
  /\ tsPc = "new" /\ tsPc' = "top"
  /\ UNCHANGED <<tsAuth, tsBackoff, tsBase, tsEnv, tsSeen, tsFaults>>

(* run_live *)
TsTop ==
  /\ tsPc = "top" /\ tsPc' = IF tsStop THEN "ended" ELSE "token"
  /\ UNCHANGED <<tsAuth, tsBackoff, tsBase, tsEnv, tsSeen, tsFaults>>

(* ensure_token: a token young enough is used again. *)
EnsureToken ==
  /\ tsPc = "token" /\ tsAge < TsLife /\ tsPc' = "connect"
  /\ UNCHANGED <<tsAuth, tsBackoff, tsBase, tsEnv, tsSeen, tsFaults>>

(* Mutant: the access token is taken, and the refresh token is not. *)
TsRefreshKeeps ==
  /\ tsPc = "token" /\ tsAge = TsLife /\ tsMine = tsTheirs
  /\ tsTheirs' = TsNext(tsTheirs) /\ tsAge' = 0 /\ tsPc' = "connect"
  /\ UNCHANGED <<tsMine, tsLost, tsBackoff, tsFaults, tsBase, tsEnv, tsSeen>>

(* refresh: the new refresh token comes with the access token and takes    *)
(* the place of the one sent; when the answer is lost, the server has      *)
(* replaced it all the same.                                               *)
TsRefresh ==
  /\ tsPc = "token" /\ tsAge = TsLife /\ tsMine = tsTheirs
  /\ tsTheirs' = TsNext(tsTheirs)
  /\ \/ /\ tsMine' = TsNext(tsTheirs) /\ tsAge' = 0 /\ tsPc' = "connect"
        /\ UNCHANGED <<tsLost, tsBackoff, tsFaults>>
     \/ TsFault /\ tsLost' = TRUE /\ TsBacksOff /\ UNCHANGED <<tsMine, tsAge>>
  /\ UNCHANGED <<tsBase, tsEnv, tsSeen>>

(* The server refuses a token it has replaced, or the request fails. *)
RefreshFails ==
  /\ tsPc = "token" /\ tsAge = TsLife
  /\ IF tsMine # tsTheirs THEN UNCHANGED tsFaults ELSE TsFault
  /\ TsBacksOff
  /\ UNCHANGED <<tsAuth, tsBase, tsEnv, tsSeen>>

(* stream_once: the connection and the subscription; ImuSynth starts anew. *)
Subscribe ==
  /\ tsPc = "connect"
  /\ \/ tsPc' = "stream" /\ tsBase' = FALSE /\ UNCHANGED <<tsBackoff, tsFaults>>
     \/ TsFault /\ TsBacksOff /\ UNCHANGED tsBase
  /\ UNCHANGED <<tsAuth, tsEnv, tsSeen>>

(* The first frame yields no sample, the next ones do; a runner that finds *)
(* that nobody receives leaves the stream, and comes back.                 *)
HandleTextFrame ==
  /\ tsPc = "stream" /\ tsUp /\ ~(tsBase /\ tsOpen)
  /\ IF tsBase THEN TsWaits /\ tsBackoff' = 0 /\ UNCHANGED tsBase
               ELSE tsBase' = TRUE /\ UNCHANGED <<tsPc, tsBackoff>>
  /\ UNCHANGED <<tsAuth, tsEnv, tsSeen, tsFaults>>

(* A vehicle that sleeps ends the stream cleanly, by data:error or a       *)
(* close; the backoff starts anew.                                         *)
StreamEnds ==
  /\ tsPc = "stream" /\ ~tsUp
  /\ TsWaits /\ tsBackoff' = 0
  /\ UNCHANGED <<tsAuth, tsBase, tsEnv, tsSeen, tsFaults>>

(* A read fails, or idle_timeout passes without a message. *)
StreamErrs ==
  /\ tsPc = "stream" /\ TsFault /\ TsBacksOff
  /\ UNCHANGED <<tsAuth, tsBase, tsEnv, tsSeen>>

(* The signal is seen once: having left the stream for it, the runner      *)
(* waits the full five seconds before it looks at it again.                *)
StreamStops ==
  /\ tsPc = "stream" /\ tsStop /\ ~tsSeen
  /\ tsSeen' = TRUE /\ TsWaits /\ tsBackoff' = 0
  /\ UNCHANGED <<tsAuth, tsBase, tsEnv, tsFaults>>

WaitOrStop ==
  /\ tsPc = "wait"
  /\ \/ tsPc' = "top" /\ UNCHANGED tsSeen
     \/ tsStop /\ ~tsSeen /\ tsSeen' = TRUE /\ tsPc' = "ended"
  /\ UNCHANGED <<tsAuth, tsBackoff, tsBase, tsEnv, tsFaults>>

TsRunner ==
  \/ TsTop \/ EnsureToken \/ TsRefresh \/ RefreshFails \/ Subscribe
  \/ HandleTextFrame \/ StreamEnds \/ StreamStops \/ WaitOrStop

-----------------------------------------------------------------------------

TsHangUp ==
  /\ tsPc # "new" /\ tsOpen /\ tsOpen' = FALSE
  /\ UNCHANGED <<tsPc, tsAuth, tsBackoff, tsBase, tsUp, tsStop, tsSeen, tsFaults>>

(* stop signals, and aborts the runner wherever it is. *)
TsStop ==
  /\ tsPc # "new" /\ ~tsStop /\ tsStop' = TRUE
  /\ UNCHANGED <<tsPc, tsAuth, tsBackoff, tsBase, tsUp, tsOpen, tsSeen, tsFaults>>

TsAbort ==
  /\ tsStop /\ tsPc # "ended" /\ tsPc' = "ended"
  /\ UNCHANGED <<tsAuth, tsBackoff, tsBase, tsEnv, tsSeen, tsFaults>>

TsTick ==
  /\ tsPc # "new" /\ tsAge < TsLife /\ tsAge' = tsAge + 1
  /\ UNCHANGED <<tsPc, tsMine, tsTheirs, tsLost, tsBackoff, tsBase, tsEnv, tsSeen, tsFaults>>

TsVehicle ==
  /\ tsPc # "new" /\ tsUp' = ~tsUp
  /\ UNCHANGED <<tsPc, tsAuth, tsBackoff, tsBase, tsOpen, tsStop, tsSeen, tsFaults>>

TsStep ==
  \/ TsStart \/ TsRunner \/ StreamErrs
  \/ TsHangUp \/ TsStop \/ TsAbort \/ TsTick \/ TsVehicle

(* The runner is polled; the token server answers when it can. *)
TsFairness == WF_tsVars(TsRunner) /\ WF_tsVars(TsAbort)

TsSpec == TsInit /\ [][TsStep]_tsVars /\ TsFairness

-----------------------------------------------------------------------------
(* Properties *)

(* A vehicle that is online ends up streamed, with a frame to take         *)
(* differences to, through expired tokens, sleeping vehicles, errors and   *)
(* backoff: each refresh uses the refresh token that the one before left   *)
(* (device.rs:208-237, 142-193), so that only a lost answer can lock the   *)
(* account out.                                                            *)
TeslaStreams ==
  (tsPc # "new" /\ tsUp) ~> ((tsPc = "stream" /\ tsBase) \/ ~tsUp \/ tsLost \/ tsStop \/ ~tsOpen)
=============================================================================
