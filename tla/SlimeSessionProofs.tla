------------------------- MODULE SlimeSessionProofs -------------------------
(***************************************************************************)
(* Proofs about the tracker's session: its own promises, and that the      *)
(* client in it is the one that SlimeClientProofs is about.                *)
(*                                                                         *)
(* That FEATURE_FLAGS goes out at most once per handshake rests on how the *)
(* flag the pipeline samples relates to the confirmations the watchdog and *)
(* receive_loop count: as long as the flags are unsent, a confirmed flag   *)
(* stands for a confirmation later than any they were sent in.  That a     *)
(* bundle is only used by a client the server has heard flags from rests   *)
(* on following the flags through the network: to the server, back as its  *)
(* own, and through receive_loop.                                          *)
(***************************************************************************)
EXTENDS SlimeSession, SlimeClientProofs

-----------------------------------------------------------------------------
(* The session *)

(* The confirmations the pipeline knows of, and those it does not.         *)
Confirmations ==
  /\ rises \in Nat /\ plRise \in Nat /\ flagsFor \in Nat
  /\ flagsFor <= plRise /\ plRise <= rises
  /\ ~flagsSent /\ confirmed => flagsFor < rises
  /\ ~flagsSent /\ pl = "session" => flagsFor < plRise

(* Nothing that follows from FEATURE_FLAGS is anywhere before they went.   *)
FlagsLeaveFirst ==
  /\ flagsSent => infoSent /\ flagsFor > 0
  /\ "flags" \in toServer => flagsFor > 0
  /\ "flagsOn" \in toClient => flagsFor > 0
  /\ rxMsg = "flagsOn" => flagsFor > 0
  /\ bundle => flagsFor > 0

SessInv == Confirmations /\ FlagsLeaveFirst

-----------------------------------------------------------------------------
(* What a step of the client's tasks does to what the pipeline reads.      *)
ClientMoves ==
  /\ rises' \in Nat /\ rises <= rises'
  /\ confirmed' => (confirmed /\ rises' = rises) \/ rises < rises'
  /\ bundle' => bundle \/ rxMsg = "flagsOn"

LEMMA ReceiverMoves ==
  ASSUME rises \in Nat, RxStep
  PROVE  ClientMoves /\ rxMsg' \in {rxMsg, NoMsg}
<1>1. CASE RxSwap \/ RxStore
  BY <1>1 DEF RxSwap, RxStore, ClientMoves, history
<1>2. CASE RxLoad
  BY <1>2 DEF RxLoad, ClientMoves, flags, history
<1>3. CASE RxEmit
  BY <1>3 DEF RxEmit, ClientMoves, flags
<1>4. CASE RxHandle
  <2>1. bundle' => bundle \/ rxMsg = "flagsOn"
    BY <1>4, Zenon DEF RxHandle
  <2> QED BY <1>4, <2>1 DEF RxHandle, ClientMoves, history
<1> QED BY <1>1, <1>2, <1>3, <1>4 DEF RxStep

LEMMA WatchdogMoves ==
  ASSUME rises \in Nat, WdStep
  PROVE  ClientMoves /\ rxMsg' = rxMsg
<1>1. CASE WdLoad \/ WdClock \/ WdDecide \/ WdCheck
  BY <1>1 DEF WdLoad, WdClock, WdDecide, WdCheck, ClientMoves, flags, rxVars, history
<1>2. CASE WdReset
  BY <1>2 DEF WdReset, ClientMoves, rxVars
<1>3. CASE WdClearBundle
  BY <1>3 DEF WdClearBundle, ClientMoves, rxVars, history
<1>4. CASE WdCount
  BY <1>4 DEF WdCount, ClientMoves, rxVars, history
<1>5. CASE WdEmit
  BY <1>5 DEF WdEmit, ClientMoves, flags, rxVars
<1> QED BY <1>1, <1>2, <1>3, <1>4, <1>5 DEF WdStep

(* A step that leaves the pipeline alone, and brings no flags anywhere     *)
(* that were not under way, keeps the invariant.                           *)
LEMMA ClientKeeps ==
  ASSUME SessInv, ClientMoves, UNCHANGED plVars,
         "flags" \in toServer' => "flags" \in toServer,
         "flagsOn" \in toClient' => "flagsOn" \in toClient \/ "flags" \in toServer,
         rxMsg' = "flagsOn" => rxMsg = "flagsOn" \/ "flagsOn" \in toClient
  PROVE  SessInv'
<1>1. Confirmations'
  BY DEF SessInv, Confirmations, ClientMoves, plVars
<1>2. FlagsLeaveFirst'
  BY DEF SessInv, FlagsLeaveFirst, ClientMoves, plVars
<1> QED BY <1>1, <1>2 DEF SessInv

LEMMA StillMoves ==
  ASSUME SessInv, UNCHANGED clientVars
  PROVE  ClientMoves /\ rxMsg' = rxMsg
BY DEF SessInv, Confirmations, ClientMoves, clientVars, flags, history, rxVars

LEMMA ClientStepKeeps ==
  ASSUME SessInv, (\E m \in ToClient : Recv(m)) \/ Receiver \/ Watchdog \/ Time
  PROVE  SessInv'
<1> rises \in Nat BY DEF SessInv, Confirmations
<1>1. CASE \E m \in ToClient : Recv(m)
  <2> PICK m \in ToClient : Recv(m) BY <1>1
  <2>1. ClientMoves /\ rxMsg' \in {rxMsg, m}
    BY DEF Recv, RxRecv, ClientMoves, flags, history
  <2>2. m \in toClient /\ toClient' = toClient \ {m} /\ UNCHANGED <<toServer, plVars>>
    BY DEF Recv
  <2> QED BY <2>1, <2>2, ClientKeeps
<1>2. CASE Receiver
  <2>1. ClientMoves /\ rxMsg' \in {rxMsg, NoMsg} /\ UNCHANGED <<toServer, toClient, plVars>>
    BY <1>2, ReceiverMoves DEF Receiver, netVars
  <2> QED BY <2>1, ClientKeeps DEF NoMsg
<1>3. CASE Watchdog
  <2>1. ClientMoves /\ rxMsg' = rxMsg /\ UNCHANGED <<toClient, plVars>>
    BY <1>3, WatchdogMoves DEF Watchdog
  <2>2. "flags" \in toServer' => "flags" \in toServer
    BY <1>3 DEF Watchdog
  <2> QED BY <2>1, <2>2, ClientKeeps
<1>4. CASE Time
  <2>1. ClientMoves /\ rxMsg' = rxMsg /\ UNCHANGED <<toServer, toClient, plVars>>
    BY <1>4 DEF Time, Tick, ClientMoves, rxVars, netVars
  <2> QED BY <2>1, ClientKeeps
<1> QED BY <1>1, <1>2, <1>3, <1>4

-----------------------------------------------------------------------------
(* Loading the flag: confirmed, it names the latest confirmation; not      *)
(* confirmed, the flags are to be sent again in a later one.               *)
LEMMA ObserveKeeps ==
  ASSUME SessInv, Observe,
         UNCHANGED <<clientVars, flagsFor, netVars>>
  PROVE  SessInv'
<1> UNCHANGED <<rises, confirmed, bundle, rxMsg, toServer, toClient>>
  BY DEF clientVars, flags, history, rxVars, netVars
<1>1. Confirmations'
  <2>1. CASE confirmed
    BY <2>1 DEF SessInv, Confirmations, Observe
  <2>2. CASE ~confirmed
    BY <2>2 DEF SessInv, Confirmations, Observe
  <2> QED BY <2>1, <2>2
<1>2. FlagsLeaveFirst'
  BY DEF SessInv, FlagsLeaveFirst, Observe
<1> QED BY <1>1, <1>2 DEF SessInv

(* Only an announcement sends the flags, and it records the confirmation   *)
(* it sends them in.                                                       *)
LEMMA AnnounceMoves ==
  ASSUME Announce
  PROVE  /\ pl = "session" /\ pl' = "data"
         /\ infoSent => infoSent'
         /\ \/ (flagsSent' <=> flagsSent) /\ flagsFor' = flagsFor
               /\ ("flags" \in toServer' => "flags" \in toServer)
            \/ infoSent' /\ ~flagsSent /\ flagsSent' /\ flagsFor' = plRise
         /\ UNCHANGED <<rises, confirmed, bundle, rxMsg, plRise, toClient>>
<1>1. PICK infoOk \in BOOLEAN, flagsOk \in BOOLEAN :
        LET info  == NeedInfo /\ infoOk
            flagz == infoSent' /\ ~flagsSent /\ flagsOk
        IN  /\ infoSent' = (infoSent \/ info)
            /\ flagsSent' = (flagsSent \/ flagz)
            /\ flagsFor' = IF flagz THEN plRise ELSE flagsFor
            /\ toServer' = toServer \cup (IF info THEN {"info"} ELSE {})
                                    \cup (IF flagz THEN {"flags"} ELSE {})
  BY DEF Announce
<1>2. UNCHANGED <<rises, confirmed, bundle, rxMsg, plRise, toClient>>
  BY DEF Announce, clientVars, flags, history, rxVars
<1>3. CASE infoSent' /\ ~flagsSent /\ flagsOk
  BY <1>1, <1>2, <1>3, Zenon DEF Announce
<1>4. CASE ~(infoSent' /\ ~flagsSent /\ flagsOk)
  <2>1. flagsFor' = flagsFor
    BY <1>1, <1>4
  <2>2. (flagsSent' <=> flagsSent) /\ (infoSent => infoSent')
    BY <1>1, <1>4, Zenon
  <2>3. "flags" \in toServer' => "flags" \in toServer
    BY <1>1, <1>4
  <2> QED BY <1>2, <2>1, <2>2, <2>3 DEF Announce
<1> QED BY <1>3, <1>4

LEMMA AnnounceKeeps ==
  ASSUME SessInv, Announce
  PROVE  SessInv'
<1>1. Confirmations'
  BY AnnounceMoves DEF SessInv, Confirmations
<1>2. FlagsLeaveFirst'
  BY AnnounceMoves DEF SessInv, Confirmations, FlagsLeaveFirst
<1> QED BY <1>1, <1>2 DEF SessInv

(* A step in which neither the client nor what was announced changes.      *)
LEMMA StillKeeps ==
  ASSUME SessInv,
         UNCHANGED <<clientVars, infoSent, flagsSent, plRise, flagsFor>>,
         pl' = "session" => pl = "session",
         "flags" \in toServer' => "flags" \in toServer,
         "flagsOn" \in toClient' => "flagsOn" \in toClient \/ "flags" \in toServer
  PROVE  SessInv'
<1> UNCHANGED <<rises, confirmed, bundle, rxMsg>>
  BY DEF clientVars, flags, history, rxVars
<1>1. Confirmations'
  BY DEF SessInv, Confirmations
<1>2. FlagsLeaveFirst'
  BY DEF SessInv, FlagsLeaveFirst
<1> QED BY <1>1, <1>2 DEF SessInv

LEMMA PipelineKeeps ==
  ASSUME SessInv, Pipeline
  PROVE  SessInv'
<1>1. ASSUME NEW e \in Events, Take(e)
      PROVE  SessInv'
  BY <1>1, ObserveKeeps DEF Take
<1>2. ASSUME NEW e \in Events, Connect(e)
      PROVE  SessInv'
  <2>1. /\ UNCHANGED <<clientVars, infoSent, flagsSent, plRise, flagsFor, toClient>>
        /\ pl' = "session" => pl = "session"
        /\ "flags" \in toServer' => "flags" \in toServer
    BY <1>2 DEF Connect
  <2> QED BY <2>1, StillKeeps
<1>3. CASE Gate
  BY <1>3, ObserveKeeps DEF Gate
<1>4. CASE Announce
  BY <1>4, AnnounceKeeps
<1>5. CASE Forward
  <2>1. /\ UNCHANGED <<clientVars, infoSent, flagsSent, plRise, flagsFor, toServer, toClient>>
        /\ pl' = "session" => pl = "session"
    BY <1>5 DEF Forward, netVars
  <2> QED BY <2>1, StillKeeps
<1> QED BY <1>1, <1>2, <1>3, <1>4, <1>5 DEF Pipeline

LEMMA OthersKeep ==
  ASSUME SessInv, User \/ Network \/ Server
  PROVE  SessInv'
<1>1. CASE User
  <2>1. UNCHANGED <<clientVars, infoSent, flagsSent, plRise, flagsFor, pl, toServer, toClient>>
    BY <1>1 DEF User, SetMag, SetPaused, plVars, netVars
  <2> QED BY <2>1, StillKeeps
<1>2. CASE Network
  <2>1. /\ UNCHANGED <<clientVars, infoSent, flagsSent, plRise, flagsFor, pl>>
        /\ "flags" \in toServer' => "flags" \in toServer
        /\ "flagsOn" \in toClient' => "flagsOn" \in toClient
    BY <1>2 DEF Network, Lose, plVars
  <2> QED BY <2>1, StillKeeps
<1>3. ASSUME NEW m \in ToServer, ServerHandle(m)
      PROVE  SessInv'
  <2>1. /\ UNCHANGED <<clientVars, infoSent, flagsSent, plRise, flagsFor, pl>>
        /\ m \in toServer /\ toServer' = toServer \ {m}
    BY <1>3 DEF ServerHandle, plVars
  <2>2. "flagsOn" \in toClient' => "flagsOn" \in toClient \/ m = "flags"
    BY <1>3 DEF ServerHandle
  <2> QED BY <2>1, <2>2, StillKeeps
<1>4. CASE ServerPing \/ ServerCrash \/ ServerStart
  <2>1. /\ UNCHANGED <<clientVars, infoSent, flagsSent, plRise, flagsFor, pl, toServer>>
        /\ "flagsOn" \in toClient' => "flagsOn" \in toClient
    BY <1>4 DEF ServerPing, ServerCrash, ServerStart, plVars, netVars
  <2> QED BY <2>1, StillKeeps
<1> QED BY <1>1, <1>2, <1>3, <1>4 DEF Server

LEMMA SessStutters ==
  ASSUME SessInv, UNCHANGED sessionVars
  PROVE  SessInv'
<1>1. UNCHANGED <<clientVars, infoSent, flagsSent, plRise, flagsFor, pl, toServer, toClient>>
  BY DEF sessionVars, plVars, netVars
<1> QED BY <1>1, StillKeeps

LEMMA SessInvHolds == SessionSpec => []SessInv
<1>1. SessionInit => SessInv
  BY DEF SessionInit, Init, SessInv, Confirmations, FlagsLeaveFirst, NoMsg
<1>2. SessInv /\ [SessionNext]_sessionVars => SessInv'
  BY ClientStepKeeps, PipelineKeeps, OthersKeep, SessStutters DEF SessionNext
<1> QED BY <1>1, <1>2, PTL DEF SessionSpec

-----------------------------------------------------------------------------
(* The server hears of the sensor before the flags, and the client never   *)
(* bundles towards a server that did not hear its flags                    *)
(* (pipeline.rs:596-613, client.rs:554-570).                               *)
THEOREM SensorBeforeFlags == SessionSpec => []AnnouncedInOrder
<1>1. SessInv => AnnouncedInOrder
  BY DEF SessInv, FlagsLeaveFirst, AnnouncedInOrder
<1> QED BY <1>1, SessInvHolds, PTL

(* Any number of flips of the confirmed flag between the pipeline's        *)
(* samples of it never lets FEATURE_FLAGS out twice in one confirmed       *)
(* handshake (pipeline.rs:590-594, 606-625).                               *)
THEOREM FlagsOnce == SessionSpec => FlagsAtMostOncePerHandshake
<1>1. SessInv /\ [SessionNext]_sessionVars
        => [flagsSent' /\ ~flagsSent => plRise > flagsFor]_sessionVars
  <2> SUFFICES ASSUME SessInv, SessionNext, flagsSent', ~flagsSent
               PROVE  plRise > flagsFor
    BY DEF sessionVars
  <2>1. CASE Announce
    <3>1. pl = "session" BY <2>1, AnnounceMoves
    <3> QED BY <3>1 DEF SessInv, Confirmations
  <2>2. CASE \/ (\E m \in ToClient : Recv(m)) \/ Receiver \/ Watchdog \/ Time
             \/ User \/ Network \/ Server
    <3>1. flagsSent' = flagsSent
      BY <2>2 DEF Recv, Receiver, Watchdog, Time, User, SetMag, SetPaused, Network, Lose,
                  Server, ServerHandle, ServerPing, ServerCrash, ServerStart, plVars
    <3> QED BY <3>1
  <2>3. CASE (\E e \in Events : Take(e) \/ Connect(e)) \/ Gate \/ Forward
    <3>1. flagsSent' => flagsSent
      BY <2>3 DEF Take, Connect, Gate, Forward, Observe
    <3> QED BY <3>1
  <2> QED BY <2>1, <2>2, <2>3 DEF SessionNext, Pipeline
<1> QED BY <1>1, SessInvHolds, PTL DEF SessionSpec, FlagsAtMostOncePerHandshake
-----------------------------------------------------------------------------
(* The session implements the client *)

(* Whatever pipeline, user, network and server do, the client's own state  *)
(* changes in the client's steps only.                                     *)
LEMMA SessionStepOfClient ==
  ASSUME SessionNext
  PROVE  [Next]_clientVars
<1>1. ASSUME NEW m \in ToClient, Recv(m)
      PROVE  Next
  <2>1. m \in Inbound  BY DEF ToClient, Inbound
  <2> QED BY <1>1, <2>1 DEF Recv, Next
<1>2. CASE Receiver \/ Watchdog \/ Time
  BY <1>2 DEF Receiver, Watchdog, Time, Next
<1>3. CASE Pipeline
  BY <1>3 DEF Pipeline, Take, Connect, Gate, Announce, Forward
<1>4. CASE User \/ Network
  BY <1>4 DEF User, SetMag, SetPaused, Network, Lose
<1>5. CASE Server
  BY <1>5 DEF Server, ServerHandle, ServerPing, ServerCrash, ServerStart
<1> QED BY <1>1, <1>2, <1>3, <1>4, <1>5 DEF SessionNext

(* The client of a session is the client on its own: its two tasks share   *)
(* no more with the pipeline than the flag that it loads                   *)
(* (lazy_slime.rs:31-45, pipeline.rs:590-594).                             *)
THEOREM SessionImplementsClient == SessionSpec => Spec
<1>1. SessionInit => Init
  BY DEF SessionInit
<1>2. [SessionNext]_sessionVars => [Next]_clientVars
  BY SessionStepOfClient DEF sessionVars
<1> QED BY <1>1, <1>2, PTL DEF SessionSpec, Spec

(* So in a session, too, with a server that crashes and a network that     *)
(* loses and reorders, every flip is counted and told once, a silence      *)
(* costs three resets at most and a stall one (client.rs:537-546,          *)
(* 591-626).                                                               *)
THEOREM SessionKeepsPromises ==
  SessionSpec => [](TypeOK /\ ResetsCountFalls /\ OneEventPerFlip /\ ResetsHaveCauses)
BY SessionImplementsClient, TypeCorrect, ResetCountExact, EventsExact, BoundedFlapping, PTL
=============================================================================
