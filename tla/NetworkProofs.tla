--------------------------- MODULE NetworkProofs ---------------------------
(***************************************************************************)
(* Proofs about the sources that reach the program over the network, and   *)
(* about all of them together as MCNetwork runs them, for any hubs,        *)
(* handles, ports, devices, capacities and splits of a frame.              *)
(*                                                                         *)
(* OneTarget is inductive once it is known that a route leads to a device  *)
(* of its own hub: then the sweep, which keeps the cells of the hubs that  *)
(* have a route, never unties a device that has one.                       *)
(***************************************************************************)
EXTENDS MCNetwork, RemoteLoss, WiiForwarder, TLAPS

-----------------------------------------------------------------------------
(* The hub *)

RoutesOwn == \A k \in Keys : route[k] # None => key[route[k]] = k

HInv == HubTypeOK /\ RoutesOwn /\ OneTarget

LEMMA HubOfKey == \A k \in Keys : Hub(k) \in Hubs
BY DEF Keys, Hub

LEMMA NoneIsNone == None \notin Slots /\ None \notin Ports
BY HubAssumption DEF None

(* What the steps that touch no route, cell or device need. *)
LEMMA Elsewhere ==
  ASSUME HInv, UNCHANGED <<route, peer, key, tied>>
  PROVE  RoutesOwn' /\ OneTarget'
BY DEF HInv, RoutesOwn, OneTarget

LEMMA FaultTyped ==
  ASSUME HInv, Fault \/ UNCHANGED faults
  PROVE  faults' \in 0 .. MaxFaults
BY HubAssumption DEF HInv, HubTypeOK, Fault

LEMMA FromTyped ==
  ASSUME NEW h, NEW p, From(h, p)
  PROVE  Fault \/ UNCHANGED faults
BY DEF From

LEMMA InitCorrect == Init => HInv
<1> SUFFICES ASSUME Init PROVE HInv
  OBVIOUS
<1>1. 0 \in 0 .. StaleSweeps /\ 0 \in 0 .. QueueCap /\ 0 \in 0 .. MaxFaults
  BY HubAssumption
<1>2. route \in [Keys -> Slots \cup {None}] /\ age \in [Keys -> 0 .. StaleSweeps]
  BY <1>1 DEF Init
<1>3. /\ peer \in [Hubs -> Ports \cup {None}]
      /\ quiet \in [Slots -> BOOLEAN] /\ tied \in [Slots -> BOOLEAN]
      /\ last \in [Slots -> Ports \cup {None}] /\ hubPort \in [Hubs -> Ports]
      /\ entry \in [Keys -> Slots \cup {None}]
  BY DEF Init
<1>4. life \in [Slots -> Lives]
  BY DEF Init, Lives
<1>5. queue \in [Slots -> 0 .. QueueCap] /\ faults \in 0 .. MaxFaults
  BY <1>1 DEF Init
<1>6. offers \in Seq(Slots)
  BY DEF Init
<1>7. key \in [Slots -> Keys]
  <2>1. PICK h \in Hubs, n \in Handles : TRUE
    BY HubAssumption
  <2>2. <<h, n>> \in Keys
    BY DEF Keys
  <2>3. (CHOOSE k \in Keys : TRUE) \in Keys
    BY <2>2
  <2> QED BY <2>3 DEF Init
<1>8. RoutesOwn /\ OneTarget
  BY DEF Init, RoutesOwn, OneTarget
<1> QED BY <1>2, <1>3, <1>4, <1>5, <1>6, <1>7, <1>8 DEF HInv, HubTypeOK

(* A datagram of the hub of k, heard from port p. *)
LEMMA TouchKeeps ==
  ASSUME HInv, NEW h \in Hubs, NEW p \in Ports,
         peer' = [peer EXCEPT ![h] = p]
  PROVE  /\ peer' \in [Hubs -> Ports \cup {None}]
         /\ \A g \in Hubs : peer[g] # None => peer'[g] # None
         /\ peer'[h] # None
BY NoneIsNone DEF HInv, HubTypeOK

LEMMA AnnounceKeeps ==
  ASSUME HInv, NEW k \in Keys, NEW q \in BOOLEAN, NEW p \in Ports, Announce(k, q, p)
  PROVE  HInv'
<1>1. /\ peer' \in [Hubs -> Ports \cup {None}]
      /\ \A g \in Hubs : peer[g] # None => peer'[g] # None
      /\ peer'[Hub(k)] # None
  BY TouchKeeps, HubOfKey DEF Announce
<1>2. faults' \in 0 .. MaxFaults
  BY FaultTyped, FromTyped DEF Announce
<1>3. age' \in [Keys -> 0 .. StaleSweeps]
  BY HubAssumption DEF Announce, HInv, HubTypeOK
<1>4. CASE UNCHANGED <<route, devVars, offers>>
  <2>1. HubTypeOK'
    BY <1>1, <1>2, <1>3, <1>4 DEF Announce, HInv, HubTypeOK, devVars
  <2>2. RoutesOwn' /\ OneTarget'
    BY <1>1, <1>4, HubOfKey DEF HInv, RoutesOwn, OneTarget, devVars
  <2> QED BY <2>1, <2>2 DEF HInv
<1>5. ASSUME NEW s \in FreeSlots, route' = [route EXCEPT ![k] = s], New(s, k, q)
      PROVE  HInv'
  <2>1. s \in Slots /\ \A j \in Keys : route[j] # s
    BY <1>5 DEF FreeSlots
  <2>2. route' \in [Keys -> Slots \cup {None}] /\ key' \in [Slots -> Keys]
    BY <1>5, <2>1 DEF New, HInv, HubTypeOK
  <2>3. life' \in [Slots -> Lives]
    BY <1>5, <2>1 DEF New, HInv, HubTypeOK, Lives
  <2>4. /\ quiet' \in [Slots -> BOOLEAN] /\ tied' \in [Slots -> BOOLEAN]
        /\ last' \in [Slots -> Ports \cup {None}]
    BY <1>5, <2>1 DEF New, HInv, HubTypeOK
  <2>5. queue' \in [Slots -> 0 .. QueueCap]
    BY <1>5, <2>1, HubAssumption DEF New, HInv, HubTypeOK
  <2>6. offers' \in Seq(Slots)
    BY <1>5, <2>1 DEF New, HInv, HubTypeOK
  <2>7. HubTypeOK'
    BY <1>1, <1>2, <1>3, <2>2, <2>3, <2>4, <2>5, <2>6 DEF Announce, HInv, HubTypeOK
  <2>8. ASSUME NEW j \in Keys, route'[j] # None
        PROVE  key'[route'[j]] = j /\ tied'[route'[j]] /\ peer'[Hub(j)] # None
    <3>1. CASE j = k
      BY <1>1, <1>5, <2>1, <3>1 DEF New, HInv, HubTypeOK
    <3>2. CASE j # k
      <4>1. route'[j] = route[j] /\ route[j] # s /\ route[j] \in Slots
        BY <1>5, <2>1, <2>8, <3>2 DEF HInv, HubTypeOK
      <4>2. key'[route[j]] = key[route[j]] /\ tied'[route[j]] = tied[route[j]]
        BY <1>5, <4>1 DEF New, HInv, HubTypeOK
      <4> QED BY <1>1, <2>8, <4>1, <4>2, HubOfKey DEF HInv, RoutesOwn, OneTarget
    <3> QED BY <3>1, <3>2
  <2> QED BY <2>7, <2>8 DEF HInv, RoutesOwn, OneTarget
<1>6. CASE route[k] = None /\ FreeSlots # {} /\ ~UNCHANGED <<route, devVars, offers>>
  <2> DEFINE s == CHOOSE s \in FreeSlots : TRUE
  <2>1. s \in FreeSlots
    BY <1>6
  <2>2. route' = [route EXCEPT ![k] = s] /\ New(s, k, q)
    BY <1>6 DEF Announce
  <2> HIDE DEF s
  <2> QED BY <1>5, <2>1, <2>2
<1> QED BY <1>4, <1>6 DEF Announce

LEMMA EventKeeps ==
  ASSUME HInv, NEW k \in Keys, NEW p \in Ports, Event(k, p)
  PROVE  HInv'
<1>1. /\ peer' \in [Hubs -> Ports \cup {None}]
      /\ \A g \in Hubs : peer[g] # None => peer'[g] # None
  BY TouchKeeps, HubOfKey DEF Event
<1>2. faults' \in 0 .. MaxFaults
  BY FaultTyped, FromTyped DEF Event
<1>3. age' \in [Keys -> 0 .. StaleSweeps]
  BY HubAssumption DEF Event, HInv, HubTypeOK
<1>4. /\ route' \in [Keys -> Slots \cup {None}]
      /\ \A j \in Keys : route'[j] # None => route'[j] = route[j]
  BY DEF Event, HInv, HubTypeOK
<1>5. queue' \in [Slots -> 0 .. QueueCap]
  <2>1. route[k] \in Slots
    BY DEF Event, HInv, HubTypeOK
  <2>2. CASE queue' = queue
    BY <2>2 DEF HInv, HubTypeOK
  <2>3. CASE queue' # queue
    <3>1. queue' = [queue EXCEPT ![route[k]] = @ + 1] /\ queue[route[k]] < QueueCap
      BY <2>3, Zenon DEF Event
    <3>2. queue[route[k]] \in 0 .. QueueCap
      BY <2>1 DEF HInv, HubTypeOK
    <3>3. queue[route[k]] + 1 \in 0 .. QueueCap
      BY <3>1, <3>2, HubAssumption
    <3> QED BY <2>1, <3>1, <3>3 DEF HInv, HubTypeOK
  <2> QED BY <2>2, <2>3
<1>6. HubTypeOK'
  BY <1>1, <1>2, <1>3, <1>4, <1>5 DEF Event, HInv, HubTypeOK
<1>7. RoutesOwn' /\ OneTarget'
  BY <1>1, <1>4, HubOfKey DEF Event, HInv, RoutesOwn, OneTarget
<1> QED BY <1>6, <1>7 DEF HInv

LEMMA RemoveKeeps ==
  ASSUME HInv, NEW k \in Keys, Remove(k)
  PROVE  HInv'
<1>1. faults' \in 0 .. MaxFaults
  BY FaultTyped DEF Remove
<1>2. /\ route' \in [Keys -> Slots \cup {None}]
      /\ \A j \in Keys : route'[j] # None => route'[j] = route[j]
  BY DEF Remove, HInv, HubTypeOK
<1>3. HubTypeOK'
  BY <1>1, <1>2 DEF Remove, HInv, HubTypeOK, devVars
<1>4. RoutesOwn' /\ OneTarget'
  BY <1>2 DEF Remove, HInv, RoutesOwn, OneTarget, devVars
<1> QED BY <1>3, <1>4 DEF HInv

LEMMA HelloKeeps ==
  ASSUME HInv, NEW h \in Hubs, NEW p \in Ports, Hello(h, p)
  PROVE  HInv'
<1>1. /\ peer' \in [Hubs -> Ports \cup {None}]
      /\ \A g \in Hubs : peer[g] # None => peer'[g] # None
  BY TouchKeeps DEF Hello
<1>2. faults' \in 0 .. MaxFaults
  BY FaultTyped, FromTyped DEF Hello
<1>3. HubTypeOK'
  BY <1>1, <1>2 DEF Hello, HInv, HubTypeOK, devVars
<1>4. RoutesOwn' /\ OneTarget'
  BY <1>1, HubOfKey DEF Hello, HInv, RoutesOwn, OneTarget, devVars
<1> QED BY <1>3, <1>4 DEF HInv

(* A route that survives is one of a hub whose cell survives. *)
LEMMA SweepKeeps == HInv /\ Sweep => HInv'
<1> SUFFICES ASSUME HInv, Sweep PROVE HInv'
  OBVIOUS
<1> DEFINE Left == {Hub(k) : k \in {j \in Keys : route'[j] # None}}
<1>1. faults' \in 0 .. MaxFaults
  BY FaultTyped DEF Sweep
<1>2. /\ route' \in [Keys -> Slots \cup {None}]
      /\ \A j \in Keys : route'[j] # None => route'[j] = route[j] /\ j \notin Stale
  BY DEF Sweep, HInv, HubTypeOK
<1>3. age' \in [Keys -> 0 .. StaleSweeps]
  <2>1. ASSUME NEW j \in Keys, route'[j] # None
        PROVE  age[j] + 1 \in 0 .. StaleSweeps
    <3>1. age[j] # StaleSweeps /\ age[j] \in 0 .. StaleSweeps
      BY <1>2, <2>1 DEF Stale, HInv, HubTypeOK
    <3> QED BY <3>1, HubAssumption
  <2>2. 0 \in 0 .. StaleSweeps
    BY HubAssumption
  <2>3. age' = [j \in Keys |-> IF route'[j] # None THEN age[j] + 1 ELSE 0]
    BY DEF Sweep
  <2> QED BY <2>1, <2>2, <2>3
<1>4. KeepPeers(Left)
  BY DEF Sweep
<1>5. /\ peer' = [h \in Hubs |-> IF h \in Left THEN peer[h] ELSE None]
      /\ tied' = [s \in Slots |-> tied[s] /\ Hub(key[s]) \in Left]
      /\ last' = [s \in Slots |-> IF tied[s] /\ ~tied'[s] THEN peer[Hub(key[s])] ELSE last[s]]
  BY <1>4 DEF KeepPeers
<1>6. \A j \in Keys : route'[j] # None => Hub(j) \in Left
  OBVIOUS
<1> HIDE DEF Left
<1>7. peer' \in [Hubs -> Ports \cup {None}]
  BY <1>5 DEF HInv, HubTypeOK
<1>8. tied' \in [Slots -> BOOLEAN]
  BY <1>5, Zenon DEF HInv, HubTypeOK
<1>9. last' \in [Slots -> Ports \cup {None}]
  <2>1. \A s \in Slots : peer[Hub(key[s])] \in Ports \cup {None}
    BY HubOfKey DEF HInv, HubTypeOK
  <2> QED BY <1>5, <2>1 DEF HInv, HubTypeOK
<1>10. HubTypeOK'
  BY <1>1, <1>2, <1>3, <1>7, <1>8, <1>9 DEF Sweep, HInv, HubTypeOK
<1>11. ASSUME NEW j \in Keys, route'[j] # None
       PROVE  key'[route'[j]] = j /\ tied'[route'[j]] /\ peer'[Hub(j)] # None
  <2>1. route'[j] = route[j] /\ route[j] \in Slots /\ key' = key
    BY <1>2, <1>11 DEF Sweep, HInv, HubTypeOK
  <2>2. key[route[j]] = j /\ tied[route[j]] /\ peer[Hub(j)] # None
    BY <1>11, <2>1 DEF HInv, RoutesOwn, OneTarget
  <2>3. Hub(j) \in Left /\ Hub(j) \in Hubs
    BY <1>6, <1>11, HubOfKey
  <2>4. tied'[route[j]]
    BY <1>5, <2>1, <2>2, <2>3
  <2>5. peer'[Hub(j)] # None
    BY <1>5, <2>2, <2>3
  <2> QED BY <2>1, <2>2, <2>4, <2>5
<1> QED BY <1>10, <1>11 DEF HInv, RoutesOwn, OneTarget

LEMMA RegisterKeeps == HInv /\ Register => HInv'
<1> SUFFICES ASSUME HInv, Register PROVE HInv'
  OBVIOUS
<1>1. Head(offers) \in Slots /\ Tail(offers) \in Seq(Slots)
  BY DEF Register, HInv, HubTypeOK
<1>2. key[Head(offers)] \in Keys
  BY <1>1 DEF HInv, HubTypeOK
<1>3. entry' \in [Keys -> Slots \cup {None}]
  BY <1>1, <1>2 DEF Register, HInv, HubTypeOK
<1>4. life' \in [Slots -> Lives]
  BY <1>1 DEF Register, HInv, HubTypeOK, Lives, Dropped
<1>5. HubTypeOK'
  BY <1>1, <1>3, <1>4 DEF Register, HInv, HubTypeOK
<1>6. RoutesOwn' /\ OneTarget'
  BY Elsewhere DEF Register
<1> QED BY <1>5, <1>6 DEF HInv

LEMMA DeviceKeeps ==
  ASSUME HInv, NEW s \in Slots, Device(s) \/ Reap(s) \/ Leave(s) \/ PipelineFails(s)
  PROVE  HInv'
<1>1. RoutesOwn' /\ OneTarget'
  BY Elsewhere DEF Device, Read, RouteClosed, StopDriver, Reap, Leave, PipelineFails
<1>2. CASE Read(s)
  <2>1. queue' \in [Slots -> 0 .. QueueCap]
    BY <1>2, HubAssumption DEF Read, HInv, HubTypeOK
  <2>2. life' \in [Slots -> Lives]
    BY <1>2 DEF Read, HInv, HubTypeOK, Lives
  <2> QED BY <1>1, <1>2, <2>1, <2>2 DEF Read, HInv, HubTypeOK
<1>3. CASE RouteClosed(s)
  <2>1. life' \in [Slots -> Lives]
    BY <1>3 DEF RouteClosed, HInv, HubTypeOK, Lives
  <2> QED BY <1>1, <1>3, <2>1 DEF RouteClosed, HInv, HubTypeOK
<1>4. CASE StopDriver(s) \/ Leave(s)
  <2>1. life' \in [Slots -> Lives]
    BY <1>4 DEF StopDriver, Leave, HInv, HubTypeOK, Lives
  <2> QED BY <1>1, <1>4, <2>1 DEF StopDriver, Leave, HInv, HubTypeOK
<1>5. CASE Reap(s)
  <2>1. life' \in [Slots -> Lives] /\ entry' \in [Keys -> Slots \cup {None}]
    BY <1>5 DEF Reap, HInv, HubTypeOK, Lives, Dropped
  <2> QED BY <1>1, <1>5, <2>1 DEF Reap, HInv, HubTypeOK
<1>6. CASE PipelineFails(s)
  <2>1. life' \in [Slots -> Lives] /\ faults' \in 0 .. MaxFaults
    BY <1>6, FaultTyped DEF PipelineFails, HInv, HubTypeOK, Lives
  <2> QED BY <1>1, <1>6, <2>1 DEF PipelineFails, HInv, HubTypeOK
<1> QED BY <1>2, <1>3, <1>4, <1>5, <1>6 DEF Device

LEMMA ReconnectKeeps ==
  ASSUME HInv, NEW h \in Hubs, NEW p \in Ports, Reconnect(h, p)
  PROVE  HInv'
<1>1. hubPort' \in [Hubs -> Ports] /\ faults' \in 0 .. MaxFaults
  BY FaultTyped DEF Reconnect, HInv, HubTypeOK
<1>2. RoutesOwn' /\ OneTarget'
  BY Elsewhere DEF Reconnect, devVars
<1> QED BY <1>1, <1>2 DEF Reconnect, HInv, HubTypeOK, devVars

LEMMA NextKeeps == HInv /\ [Next]_vars => HInv'
<1> SUFFICES ASSUME HInv, [Next]_vars PROVE HInv'
  OBVIOUS
<1>1. CASE Datagram
  BY <1>1, AnnounceKeeps, EventKeeps, HelloKeeps DEF Datagram
<1>2. CASE Sweep
  BY <1>2, SweepKeeps
<1>3. CASE Register
  BY <1>3, RegisterKeeps
<1>4. CASE \E s \in Slots : Device(s) \/ Reap(s) \/ Leave(s)
  BY <1>4, DeviceKeeps
<1>5. CASE Environment
  BY <1>5, RemoveKeeps, ReconnectKeeps, DeviceKeeps DEF Environment
<1>6. CASE UNCHANGED vars
  BY <1>6 DEF vars, devVars, HInv, HubTypeOK, RoutesOwn, OneTarget
<1> QED BY <1>1, <1>2, <1>3, <1>4, <1>5, <1>6 DEF Next

(* The hub's tables and its devices stay within their types; a channel     *)
(* never holds more than its capacity (factory.rs:199, 263-267).           *)
THEOREM HubTypeCorrect == Spec => []HubTypeOK
<1>1. HInv => HubTypeOK
  BY DEF HInv
<1> QED BY InitCorrect, NextKeeps, <1>1, PTL DEF Spec

(* Every device that has a route uses the cell of its hub, which exists:   *)
(* what is heard from the hub reaches all of them (factory.rs:73-92, 148,  *)
(* 192).                                                                   *)
THEOREM TargetShared == Spec => []OneTarget
<1>1. HInv => OneTarget
  BY DEF HInv
<1> QED BY InitCorrect, NextKeeps, <1>1, PTL DEF Spec

-----------------------------------------------------------------------------
(* The loss count *)

(* Distance on the ring of numbers is distance in what was sent, as long   *)
(* as less than a whole turn is missing.                                   *)
LEMMA RingDistance ==
  ASSUME NEW n \in Nat, NEW k \in Nat, NEW M \in Nat \ {0}, k <= n, n - k < M
  PROVE  ((n % M) + M - (k % M)) % M = n - k
BY SMTT(30)

LEMMA GapAcrossTheWrap ==
  ASSUME NEW n \in Nat, NEW k \in Nat, k <= n, n - k < LoMod
  PROVE  Gap(Seq16(n), Seq16(k)) = n - k
BY RingDistance, LoAssumption DEF Gap, Seq16

LEMMA NumberTyped ==
  ASSUME NEW n \in Nat
  PROVE  Seq16(n) \in 0 .. (LoMod - 1)
BY LoAssumption DEF Seq16

LEMMA GapTyped ==
  ASSUME NEW a \in 0 .. (LoMod - 1), NEW b \in 0 .. (LoMod - 1)
  PROVE  Gap(a, b) \in Nat
BY LoAssumption DEF Gap

(* What Missed makes of the one number that last_seq holds.                *)
LEMMA MissedOfOne ==
  ASSUME NEW seq, NEW k, loLast = {k}
  PROVE  Missed(seq) = IF Gap(seq, k) > 1 /\ Gap(seq, k) < LoSkip THEN Gap(seq, k) - 1 ELSE 0
<1>1. (CHOOSE prev \in loLast : TRUE) = k
  OBVIOUS
<1> QED BY <1>1 DEF Missed

(* last_seq is the number of the newest burst while none came late.        *)
LossInv ==
  /\ loSent \in Nat /\ loNet \subseteq 1 .. loSent
  /\ loReceived \in Nat /\ loLost \in Nat /\ loFrom \in Nat /\ loNewest \in Nat
  /\ loLast = {} \/ \E k \in 0 .. (LoMod - 1) : loLast = {k}
  /\ loInOrder =>
       /\ loFrom <= loNewest /\ LossIsCounted
       /\ \/ loLast = {Seq16(loNewest)}
          \/ loLast = {} /\ loNewest = 0 /\ loFrom = 0 /\ loReceived = 0 /\ loLost = 0

LEMMA RecordKeeps ==
  ASSUME LossInv, NEW n \in Nat, n > 0, Record(n)
  PROVE  /\ loReceived' \in Nat /\ loLost' \in Nat /\ loFrom' \in Nat /\ loNewest' \in Nat
         /\ \E k \in 0 .. (LoMod - 1) : loLast' = {k}
         /\ loInOrder' =>
              /\ loFrom' <= loNewest' /\ LossIsCounted'
              /\ loLast' = {Seq16(loNewest')}
<1> DEFINE m == Missed(Seq16(n))
<1>1. m \in Nat
  <2>1. CASE loLast = {}
    BY <2>1 DEF Missed
  <2>2. ASSUME NEW k \in 0 .. (LoMod - 1), loLast = {k}
        PROVE  m \in Nat
    <3>1. Gap(Seq16(n), k) \in Nat
      BY NumberTyped, GapTyped
    <3> QED BY <2>2, <3>1, MissedOfOne
  <2> QED BY <2>1, <2>2 DEF LossInv
<1>2. loLast' = {Seq16(n)} /\ Seq16(n) \in 0 .. (LoMod - 1)
  BY NumberTyped DEF Record
<1>3. loInOrder' => loInOrder /\ loNewest' = n /\ n > loNewest
                    /\ (loLast = {} \/ n - loNewest < LoSkip)
  BY DEF Record, LossInv
<1>4. loInOrder' /\ loLast # {} => m = n - loNewest - 1
  <2> SUFFICES ASSUME loInOrder', loLast # {}
               PROVE  m = n - loNewest - 1
    OBVIOUS
  <2>1. loLast = {Seq16(loNewest)} /\ loNewest \in Nat
    BY <1>3 DEF LossInv
  <2>2. n - loNewest < LoSkip /\ LoSkip <= LoMod /\ LoMod \in Nat /\ LoSkip \in Nat
    BY <1>3, LoAssumption
  <2>3. Gap(Seq16(n), Seq16(loNewest)) = n - loNewest
    BY <1>3, <2>1, <2>2, GapAcrossTheWrap
  <2> QED BY <1>3, <2>1, <2>2, <2>3, MissedOfOne
<1>5. loLast = {} => m = 0
  BY DEF Missed
<1> HIDE DEF m
<1>6. /\ loNewest' \in Nat
      /\ \/ loReceived' = loReceived + 1 /\ loLost' = loLost + m
            /\ loFrom' = IF loLast = {} THEN n - 1 ELSE loFrom
         \/ loReceived' = 0 /\ loLost' = 0 /\ loFrom' = n
  BY DEF Record, LossInv, m
<1>7. loReceived' \in Nat /\ loLost' \in Nat /\ loFrom' \in Nat
  BY <1>1, <1>6 DEF LossInv
<1>8. loInOrder' => loFrom' <= loNewest' /\ LossIsCounted'
  BY <1>1, <1>3, <1>4, <1>5, <1>6 DEF LossInv, LossIsCounted
<1> QED BY <1>2, <1>3, <1>6, <1>7, <1>8

LEMMA LossInvHolds == LoSpec => []LossInv
<1>1. LoInit => LossInv
  BY DEF LoInit, LossInv, LossIsCounted
<1>2. ASSUME LossInv, [LoNext]_loVars
      PROVE  LossInv'
  <2>1. CASE LoSend
    BY <1>2, <2>1 DEF LoSend, LossInv, LossIsCounted
  <2>2. ASSUME NEW n \in loNet, LoReceive(n)
        PROVE  LossInv'
    BY <1>2, <2>2, RecordKeeps DEF LoReceive, LossInv
  <2>3. ASSUME NEW n \in loNet, LoLose(n)
        PROVE  LossInv'
    BY <1>2, <2>3 DEF LoLose, LossInv, LossIsCounted
  <2>4. CASE UNCHANGED loVars
    BY <1>2, <2>4 DEF loVars, LossInv, LossIsCounted
  <2> QED BY <1>2, <2>1, <2>2, <2>3, <2>4 DEF LoNext
<1> QED BY <1>1, <1>2, PTL DEF LoSpec

(* While bursts come in the order they were sent, what was received and    *)
(* what is counted as lost make up what was sent, for every modulus of     *)
(* their numbers and every gap below it (factory.rs:46-71).                *)
THEOREM LossExact == LoSpec => []LossIsCounted
<1>1. LossInv => LossIsCounted
  BY DEF LossInv, LossIsCounted
<1> QED BY <1>1, LossInvHolds, PTL

-----------------------------------------------------------------------------
(* A forwarder's channels *)

(* The device being announced has an empty channel, which its first packet *)
(* will enter; nothing else is queued in it before.                        *)
UdpInv ==
  /\ UdpTypeOK
  /\ (udpAwait = UdpNone) <=> (udpNew = UdpNone)
  /\ udpNew # UdpNone => udpQueue[udpNew] = 0

LEMMA UdpIdleTyped == udpKind \in {"3ds", "vita"} => UdpMaxAge \in Nat \ {0}
BY UdpAssumption DEF UdpMaxAge

LEMMA UdpInitTyped == UdpInit => UdpInv
<1> SUFFICES ASSUME UdpInit PROVE UdpInv
  OBVIOUS
<1>1. UdpMaxAge \in 0 .. UdpMaxAge /\ 0 \in 0 .. UdpQueueCap
  BY UdpIdleTyped, UdpAssumption DEF UdpInit
<1>2. udpAge \in [UdpPeers -> 0 .. UdpMaxAge] /\ udpQueue \in [UdpDevs -> 0 .. UdpQueueCap]
  BY <1>1 DEF UdpInit
<1> QED BY <1>2 DEF UdpInit, UdpInv, UdpTypeOK

LEMMA UdpRetainedTyped ==
  ASSUME UdpInv
  PROVE  UdpRetained \in [UdpPeers -> UdpDevs \cup {UdpNone}]
BY DEF UdpInv, UdpTypeOK, UdpRetained

(* The types, and which steps disturb them. *)
LEMMA UdpTypes ==
  ASSUME UdpInv, udpKind' = udpKind, udpUp' \in BOOLEAN,
         udpRoute' \in [UdpPeers -> UdpDevs \cup {UdpNone}],
         udpAge' \in [UdpPeers -> 0 .. UdpMaxAge],
         udpAwait' \in UdpPeers \cup {UdpNone}, udpNew' \in UdpDevs \cup {UdpNone},
         udpDev' \in [UdpDevs -> {"gone", "offered", "running"}],
         udpQueue' \in [UdpDevs -> 0 .. UdpQueueCap]
  PROVE  UdpTypeOK'
BY DEF UdpInv, UdpTypeOK, UdpMaxAge

LEMMA UdpDatagramKeeps == ASSUME UdpInv, UdpDatagram PROVE UdpInv'
<1> USE UdpAssumption
<1> UdpMaxAge \in Nat \ {0}
  BY UdpIdleTyped DEF UdpInv, UdpTypeOK
<1>1. ASSUME NEW p \in UdpPeers, UdpForward(p)
      PROVE  UdpInv'
  <2> DEFINE d == UdpRetained[p]
  <2>1. d \in UdpDevs /\ udpNew = UdpNone /\ udpNew' = udpNew /\ udpAwait' = udpAwait
    BY <1>1, UdpRetainedTyped DEF UdpForward, UdpReceiving, UdpInv
  <2>2. udpRoute' \in [UdpPeers -> UdpDevs \cup {UdpNone}]
    <3>1. udpRoute' = [UdpRetained EXCEPT ![p] = IF udpDev[d] = "gone" THEN UdpNone ELSE d]
      BY <1>1 DEF UdpForward
    <3> HIDE DEF d
    <3> QED BY <2>1, <3>1, UdpRetainedTyped
  <2>3. udpAge' \in [UdpPeers -> 0 .. UdpMaxAge]
    BY <1>1 DEF UdpForward, UdpInv, UdpTypeOK
  <2>4. udpQueue' \in [UdpDevs -> 0 .. UdpQueueCap]
    <3>1. udpQueue' = udpQueue \/ (udpQueue' = [udpQueue EXCEPT ![d] = @ + 1] /\ udpQueue[d] < UdpQueueCap)
      BY <1>1 DEF UdpForward
    <3> HIDE DEF d
    <3> QED BY <2>1, <3>1 DEF UdpInv, UdpTypeOK
  <2>5. UNCHANGED <<udpKind, udpUp, udpAwait, udpNew, udpDev>>
    BY <1>1 DEF UdpForward
  <2>6. UdpTypeOK'
    BY <2>2, <2>3, <2>4, <2>5, UdpTypes DEF UdpInv, UdpTypeOK
  <2> QED BY <2>1, <2>6 DEF UdpInv
<1>2. ASSUME NEW p \in UdpPeers, NEW d \in UdpDevs, UdpMake(p, d)
      PROVE  UdpInv'
  <2>1. udpAge' \in [UdpPeers -> 0 .. UdpMaxAge]
    BY <1>2 DEF UdpMake, UdpInv, UdpTypeOK
  <2>2. udpQueue' \in [UdpDevs -> 0 .. UdpQueueCap] /\ udpQueue'[d] = 0
    BY <1>2 DEF UdpMake, UdpInv, UdpTypeOK
  <2>3. udpDev' \in [UdpDevs -> {"gone", "offered", "running"}]
    BY <1>2 DEF UdpMake, UdpInv, UdpTypeOK
  <2>4. UdpTypeOK'
    BY <1>2, <2>1, <2>2, <2>3, UdpRetainedTyped, UdpTypes DEF UdpMake, UdpInv, UdpTypeOK
  <2> QED BY <1>2, <2>2, <2>4 DEF UdpMake, UdpInv
<1>3. CASE UdpStray
  <2>1. udpRoute' \in [UdpPeers -> UdpDevs \cup {UdpNone}]
    BY <1>3, UdpRetainedTyped DEF UdpStray, UdpInv, UdpTypeOK
  <2>2. UdpTypeOK'
    BY <1>3, <2>1, UdpTypes DEF UdpStray, UdpInv, UdpTypeOK, udpDevice
  <2> QED BY <1>3, <2>2 DEF UdpStray, UdpInv, udpDevice
<1> QED BY <1>1, <1>2, <1>3 DEF UdpDatagram

LEMMA UdpListenerKeeps == ASSUME UdpInv, UdpAnnounced \/ UdpEnd \/ UdpTick PROVE UdpInv'
<1> USE UdpAssumption
<1> UdpMaxAge \in Nat \ {0}
  BY UdpIdleTyped DEF UdpInv, UdpTypeOK
<1>1. CASE UdpAnnounced
  <2>1. udpNew \in UdpDevs /\ udpQueue[udpNew] = 0 /\ udpAwait \in UdpPeers
    BY <1>1 DEF UdpAnnounced, UdpInv, UdpTypeOK
  <2>2. udpRoute' \in [UdpPeers -> UdpDevs \cup {UdpNone}]
    BY <1>1, <2>1 DEF UdpAnnounced, UdpInv, UdpTypeOK
  <2>3. udpQueue' \in [UdpDevs -> 0 .. UdpQueueCap]
    BY <1>1, <2>1 DEF UdpAnnounced, UdpInv, UdpTypeOK
  <2>4. UdpTypeOK'
    BY <1>1, <2>2, <2>3, UdpTypes DEF UdpAnnounced, UdpInv, UdpTypeOK
  <2> QED BY <1>1, <2>4 DEF UdpAnnounced, UdpInv
<1>2. CASE UdpEnd
  <2>1. udpDev' \in [UdpDevs -> {"gone", "offered", "running"}]
    BY <1>2 DEF UdpEnd, UdpInv, UdpTypeOK
  <2>2. udpRoute' \in [UdpPeers -> UdpDevs \cup {UdpNone}]
    BY <1>2 DEF UdpEnd
  <2>3. UdpTypeOK'
    BY <1>2, <2>1, <2>2, UdpTypes DEF UdpEnd, UdpInv, UdpTypeOK
  <2> QED BY <1>2, <2>3 DEF UdpEnd, UdpInv
<1>3. CASE UdpTick
  <2>1. udpAge' \in [UdpPeers -> 0 .. UdpMaxAge]
    BY <1>3 DEF UdpTick, UdpInv, UdpTypeOK
  <2>2. UdpTypeOK'
    BY <1>3, <2>1, UdpTypes DEF UdpTick, UdpInv, UdpTypeOK, udpDevice
  <2> QED BY <1>3, <2>2 DEF UdpTick, UdpInv, udpDevice
<1> QED BY <1>1, <1>2, <1>3

LEMMA UdpDeviceKeeps ==
  ASSUME UdpInv, NEW d \in UdpDevs,
         UdpStart(d) \/ UdpRecv(d) \/ UdpDisconnected(d) \/ UdpStop(d)
  PROVE  UdpInv'
<1>1. CASE UdpRecv(d)
  <2>1. udpQueue' \in [UdpDevs -> 0 .. UdpQueueCap]
    BY <1>1, UdpAssumption DEF UdpRecv, UdpInv, UdpTypeOK
  <2>2. UdpTypeOK'
    BY <1>1, <2>1, UdpTypes DEF UdpRecv, UdpInv, UdpTypeOK, udpListener
  <2>3. udpNew # UdpNone => udpNew # d /\ udpNew \in UdpDevs
    BY <1>1 DEF UdpRecv, UdpInv, UdpTypeOK
  <2>4. UNCHANGED <<udpAwait, udpNew>> /\ udpQueue' = [udpQueue EXCEPT ![d] = @ - 1]
    BY <1>1 DEF UdpRecv, udpListener
  <2> QED BY <2>2, <2>3, <2>4 DEF UdpInv, UdpTypeOK
<1>2. CASE UdpStart(d) \/ UdpDisconnected(d) \/ UdpStop(d)
  <2>1. udpDev' \in [UdpDevs -> {"gone", "offered", "running"}]
        /\ UNCHANGED <<udpKind, udpUp, udpRoute, udpAge, udpAwait, udpNew, udpQueue>>
    BY <1>2 DEF UdpStart, UdpDisconnected, UdpStop, UdpInv, UdpTypeOK, udpListener
  <2>2. UdpTypeOK'
    BY <2>1, UdpTypes DEF UdpInv, UdpTypeOK
  <2> QED BY <2>1, <2>2 DEF UdpInv
<1> QED BY <1>1, <1>2

LEMMA UdpKeeps == UdpInv /\ [UdpNext]_udpVars => UdpInv'
<1> SUFFICES ASSUME UdpInv, [UdpNext]_udpVars PROVE UdpInv'
  OBVIOUS
<1>1. CASE UNCHANGED udpVars
  BY <1>1 DEF udpVars, udpListener, udpDevice, UdpInv, UdpTypeOK, UdpMaxAge
<1> QED BY <1>1, UdpDatagramKeeps, UdpListenerKeeps, UdpDeviceKeeps DEF UdpNext

-----------------------------------------------------------------------------
(* The companion on a Wii *)

WcControl ==
  /\ wcRemote \in {"none", "bare", "plus"} /\ wcNunchuk \in BOOLEAN /\ wcOn \in BOOLEAN
  /\ wcFormatSet \in BOOLEAN /\ wcEnabled \in BOOLEAN /\ wcUnsupported \in BOOLEAN
  /\ wcPc \in {"build", "send", "wait"} /\ wcRecord \in Records
  /\ wcAsked \in BOOLEAN /\ wcVibrates \in BOOLEAN
  /\ wcGyro \in {0, 0 - AtRest} /\ wcChanges \in 0..WcMaxChanges

WcEmpty ==
  wcFrames = << >> /\ wcStream = 0 /\ wcTaken = 0 /\ wcReplies = << >> /\ wcSplits = 0

(* Each frame waits for one reply, and each read is given one.  So the     *)
(* frames that are not read to the end and the replies under way are the   *)
(* one the companion waits for and those of reads that completed no frame: *)
(* the stream is no longer than the reads that split it.                   *)
WcLink ==
  /\ wcSock \in BOOLEAN /\ wcFrames \in Seq(Records) /\ wcReplies \in Seq(BOOLEAN)
  /\ wcStream \in Nat /\ wcTaken \in 0..(WcSegments - 1) /\ wcSplits \in 0..WcMaxSplits
  /\ wcStream + wcTaken = WcSegments * Len(wcFrames)
  /\ wcPc = "wait" => wcSock
  /\ ~wcSock => WcEmpty
  /\ Len(wcFrames) + Len(wcReplies) <= wcSplits + (IF wcPc = "wait" THEN 1 ELSE 0)

WcInv == WcControl /\ WcLink

LEMMA WcTyped == WcInv => WcTypeOK
<1> SUFFICES ASSUME WcInv PROVE WcTypeOK
  OBVIOUS
<1>1. Len(wcFrames) <= 1 + WcMaxSplits
  <2>1. Len(wcFrames) \in Nat /\ Len(wcReplies) \in Nat /\ wcSplits \in Nat
        /\ wcSplits <= WcMaxSplits /\ WcMaxSplits \in Nat
    BY WcAssumption DEF WcInv, WcLink
  <2>2. Len(wcFrames) + Len(wcReplies) <= wcSplits + (IF wcPc = "wait" THEN 1 ELSE 0)
    BY DEF WcInv, WcLink
  <2> QED BY <2>1, <2>2
<1> QED BY <1>1 DEF WcInv, WcTypeOK, WcControl, WcLink

LEMMA RecordTyped ==
  ASSUME NEW e \in BOOLEAN, NEW n \in BOOLEAN, NEW m \in BOOLEAN, NEW d \in {0, AtRest}
  PROVE  [empty |-> e, nunchuk |-> n, motionplus |-> m, data |-> d] \in Records
BY DEF Records

LEMMA EmptyTyped ==
  /\ EmptySlot \in Records
  /\ Len(<< >>) = 0 /\ WcSegments * 0 = 0 /\ 0 \in 0..(WcSegments - 1) /\ 0 \in 0..WcMaxSplits
<1>1. EmptySlot \in Records
  BY RecordTyped DEF EmptySlot
<1>2. WcSegments \in Nat /\ WcSegments # 0 /\ WcMaxSplits \in Nat
  BY WcAssumption
<1>3. WcSegments * 0 = 0
  BY <1>2
<1> QED BY <1>1, <1>2, <1>3

(* A connection that is closed, or was never opened.                       *)
LEMMA EmptyLink ==
  ASSUME WcEmpty', wcSock' = FALSE, wcPc' # "wait"
  PROVE  WcLink'
<1>1. /\ wcFrames' \in Seq(Records) /\ wcReplies' \in Seq(BOOLEAN)
      /\ Len(wcFrames') = 0 /\ Len(wcReplies') = 0
  BY DEF WcEmpty
<1>2. wcStream' + wcTaken' = WcSegments * Len(wcFrames')
  BY <1>1, EmptyTyped DEF WcEmpty
<1>3. Len(wcFrames') + Len(wcReplies') <= wcSplits' + (IF wcPc' = "wait" THEN 1 ELSE 0)
  BY <1>1 DEF WcEmpty
<1>4. wcStream' \in Nat /\ wcTaken' \in 0..(WcSegments - 1) /\ wcSplits' \in 0..WcMaxSplits
  BY EmptyTyped DEF WcEmpty
<1> QED BY <1>1, <1>2, <1>3, <1>4 DEF WcLink

LEMMA WcInitTyped == WcInit => WcInv
<1> SUFFICES ASSUME WcInit PROVE WcInv
  OBVIOUS
<1>1. WcControl
  <2>1. wcGyro \in {0, 0 - AtRest} /\ wcChanges \in 0..WcMaxChanges
    BY WcAssumption DEF WcInit
  <2>2. wcRecord \in Records
    BY EmptyTyped DEF WcInit
  <2> QED BY <2>1, <2>2 DEF WcInit, WcControl
<1>2. WcLink
  <2>1. /\ wcFrames \in Seq(Records) /\ wcReplies \in Seq(BOOLEAN)
        /\ Len(wcFrames) = 0 /\ Len(wcReplies) = 0
    BY DEF WcInit
  <2>2. wcStream + wcTaken = WcSegments * Len(wcFrames)
    BY <2>1, EmptyTyped DEF WcInit
  <2>3. WcEmpty /\ wcSock = FALSE /\ wcPc = "build"
    BY DEF WcInit, WcEmpty
  <2>4. Len(wcFrames) + Len(wcReplies) <= wcSplits + (IF wcPc = "wait" THEN 1 ELSE 0)
    BY <2>1, <2>3 DEF WcEmpty
  <2>5. wcStream \in Nat /\ wcTaken \in 0..(WcSegments - 1) /\ wcSplits \in 0..WcMaxSplits
    BY <2>3, EmptyTyped DEF WcEmpty
  <2> QED BY <2>1, <2>2, <2>3, <2>4, <2>5 DEF WcLink
<1> QED BY <1>1, <1>2 DEF WcInv

(* A step that leaves the connection alone, and where the companion does   *)
(* not come to wait or stop waiting.                                       *)
LEMMA LinkStays ==
  ASSUME WcLink, UNCHANGED link, (wcPc = "wait") <=> (wcPc' = "wait")
  PROVE  WcLink'
BY DEF WcLink, WcEmpty, link

LEMMA BuildKeeps == ASSUME WcInv, BuildRecord PROVE WcInv'
<1> WcControl /\ WcLink BY DEF WcInv
<1>1. WcLink'
  BY LinkStays DEF BuildRecord
<1>2. wcRecord' \in Records
  <2>1. CASE wcRemote = "none"
    BY <2>1, EmptyTyped DEF BuildRecord
  <2>2. CASE wcRemote # "none"
    <3>1. PICK data \in {0, AtRest}, motionplus \in BOOLEAN :
            wcRecord' = [empty |-> FALSE, nunchuk |-> wcNunchuk, data |-> data,
                         motionplus |-> motionplus]
      BY <2>2 DEF BuildRecord
    <3> QED BY <3>1, RecordTyped DEF WcControl
  <2> QED BY <2>1, <2>2
<1>3. wcOn' \in BOOLEAN /\ wcEnabled' \in BOOLEAN /\ wcUnsupported' \in BOOLEAN /\ wcFormatSet' \in BOOLEAN
  <2>1. CASE wcRemote = "none"
    BY <2>1 DEF BuildRecord, flags, WcControl
  <2>2. CASE wcRemote # "none"
    BY <2>2, Zenon DEF BuildRecord
  <2> QED BY <2>1, <2>2
<1>4. WcControl'
  BY <1>2, <1>3 DEF BuildRecord, WcControl
<1> QED BY <1>1, <1>4 DEF WcInv

LEMMA SendKeeps == ASSUME WcInv, SendFrame PROVE WcInv'
<1> WcControl /\ WcLink BY DEF WcInv
<1>1. WcControl'
  BY WcAssumption DEF SendFrame, WcControl, slot, flags
<1>2. WcLink'
  <2>1. CASE wcPc' = "build"
    BY <2>1, LinkStays DEF SendFrame
  <2>2. CASE wcPc' # "build"
    <3>1. /\ wcPc = "send" /\ wcPc' = "wait" /\ wcSock' = TRUE
          /\ wcFrames' = Append(wcFrames, wcRecord) /\ wcStream' = wcStream + WcSegments
          /\ UNCHANGED <<wcTaken, wcReplies, wcSplits>>
      BY <2>2 DEF SendFrame
    <3>2. wcFrames' \in Seq(Records) /\ Len(wcFrames') = Len(wcFrames) + 1 /\ Len(wcFrames) \in Nat
      BY <3>1 DEF WcControl, WcLink
    <3>3. wcStream' + wcTaken' = WcSegments * Len(wcFrames')
      <4>1. /\ wcStream \in Nat /\ wcTaken \in Nat /\ WcSegments \in Nat
            /\ wcStream + wcTaken = WcSegments * Len(wcFrames)
        BY WcAssumption DEF WcLink
      <4>2. WcSegments * (Len(wcFrames) + 1) = WcSegments * Len(wcFrames) + WcSegments
        BY <3>2, <4>1
      <4> QED BY <3>1, <3>2, <4>1, <4>2
    <3>4. Len(wcFrames') + Len(wcReplies') <= wcSplits' + (IF wcPc' = "wait" THEN 1 ELSE 0)
      <4>1. Len(wcFrames) + Len(wcReplies) <= wcSplits + 0
        BY <3>1 DEF WcLink
      <4>2. Len(wcReplies) \in Nat /\ wcSplits \in Nat
        BY WcAssumption DEF WcLink
      <4> QED BY <3>1, <3>2, <4>1, <4>2
    <3>5. wcStream' \in Nat
      BY <3>1, WcAssumption DEF WcLink
    <3> QED BY <3>1, <3>2, <3>3, <3>4, <3>5 DEF WcLink
  <2> QED BY <2>1, <2>2
<1> QED BY <1>1, <1>2 DEF WcInv

LEMMA ReplyKeeps == ASSUME WcInv, ApplyReply PROVE WcInv'
<1> WcControl /\ WcLink BY DEF WcInv
<1>1. /\ wcReplies \in Seq(BOOLEAN) /\ wcReplies # << >>
      /\ wcReplies' = Tail(wcReplies) /\ wcPc = "wait" /\ wcPc' = "build"
      /\ UNCHANGED <<wcSock, wcFrames, wcStream, wcTaken, wcSplits>>
  BY DEF ApplyReply, WcLink
<1>2. /\ Len(wcReplies') = Len(wcReplies) - 1 /\ wcReplies' \in Seq(BOOLEAN)
      /\ Head(wcReplies) \in BOOLEAN /\ Len(wcReplies) \in Nat
  BY <1>1
<1>3. wcVibrates' \in BOOLEAN
  BY <1>2, Zenon DEF ApplyReply, WcControl
<1>4. WcControl'
  BY <1>3 DEF ApplyReply, WcControl, slot, flags
<1>5. WcLink'
  BY <1>1, <1>2 DEF WcLink, WcEmpty
<1> QED BY <1>4, <1>5 DEF WcInv

LEMMA BreakKeeps == ASSUME WcInv, Breaks PROVE WcInv'
<1> WcControl /\ WcLink BY DEF WcInv
<1>1. WcControl'
  <2>1. wcPc' \in {"build", "send", "wait"} /\ wcChanges' \in 0..WcMaxChanges
    BY WcAssumption DEF Breaks, WcControl
  <2>2. wcAsked' \in BOOLEAN
    BY DEF Breaks
  <2> QED BY <2>1, <2>2 DEF Breaks, WcControl, slot, flags
<1>2. WcLink'
  BY EmptyLink DEF Breaks, Disconnected, WcControl, WcEmpty
<1> QED BY <1>1, <1>2 DEF WcInv

LEMMA Division ==
  ASSUME NEW a \in Nat, NEW b \in Nat \ {0}
  PROVE  a \div b \in Nat /\ a % b \in 0 .. (b - 1) /\ a = b * (a \div b) + (a % b)
OBVIOUS

(* What a read takes and leaves: q frames, and r segments of the next.     *)
LEMMA TakeCounts ==
  ASSUME NEW t \in Nat, NEW n \in Nat, NEW len \in Nat, NEW seg \in Nat \ {0}, NEW stream \in Nat,
         NEW q \in Nat, NEW r \in Nat, t + n = seg * q + r, stream + t = seg * len, n <= stream
  PROVE  q <= len /\ (stream - n) + r = seg * (len - q)
<1>1. seg * q <= seg * len
  OBVIOUS
<1>2. q <= len
  BY <1>1
<1>3. seg * (len - q) = seg * len - seg * q
  OBVIOUS
<1> QED BY <1>2, <1>3

LEMMA ReadKeeps == ASSUME WcInv, PcReads PROVE WcInv'
<1> WcControl /\ WcLink BY DEF WcInv
<1>1. PICK n \in 1..wcStream : Take(n) /\ wcReplies' = Append(wcReplies, wcAsked)
  BY DEF PcReads
<1> DEFINE whole == (wcTaken + n) \div WcSegments
           parsed == {i \in 1..whole : ~wcFrames[i].empty}
<1>2. /\ wcStream' = wcStream - n
      /\ wcTaken' = (wcTaken + n) % WcSegments
      /\ wcFrames' = SubSeq(wcFrames, whole + 1, Len(wcFrames))
      /\ wcSplits' = (IF whole = 0 THEN wcSplits + 1 ELSE wcSplits)
      /\ wcSplits' <= WcMaxSplits
      /\ UNCHANGED <<slot, flags, wcPc, wcRecord, wcSock, wcAsked, wcVibrates, wcChanges>>
  BY <1>1 DEF Take
<1>3. wcGyro' = wcGyro \/ \E i \in parsed : wcGyro' = GyroOf(wcFrames[i])
  BY <1>1, Zenon DEF Take
<1>4. /\ wcTaken \in Nat /\ n \in Nat /\ n <= wcStream /\ Len(wcFrames) \in Nat
      /\ WcSegments \in Nat \ {0} /\ wcStream \in Nat /\ wcStream # 0
      /\ wcStream + wcTaken = WcSegments * Len(wcFrames)
  BY WcAssumption DEF WcLink
<1>5. whole \in 0 .. Len(wcFrames) /\ wcTaken' \in 0 .. (WcSegments - 1)
      /\ wcStream' + wcTaken' = WcSegments * (Len(wcFrames) - whole)
  <2> DEFINE r == (wcTaken + n) % WcSegments
             l == Len(wcFrames)
  <2>1. wcTaken + n \in Nat
    BY <1>4
  <2>2. whole \in Nat /\ r \in 0 .. (WcSegments - 1) /\ wcTaken + n = WcSegments * whole + r
    BY <1>4, <2>1, Division
  <2>3. wcTaken' = r
    BY <1>2
  <2> HIDE DEF whole, r
  <2>4. whole <= l /\ (wcStream - n) + r = WcSegments * (l - whole)
    <3>1. l \in Nat /\ wcStream + wcTaken = WcSegments * l /\ r \in Nat
      BY <1>4, <2>2
    <3> HIDE DEF l
    <3> QED BY <1>4, <2>2, <3>1, TakeCounts
  <2>5. wcStream' = wcStream - n
    BY <1>2
  <2> QED BY <1>4, <2>2, <2>3, <2>4, <2>5
<1> HIDE DEF whole
<1>6. wcFrames' \in Seq(Records) /\ Len(wcFrames') = Len(wcFrames) - whole
  BY <1>2, <1>4, <1>5, SMTT(30) DEF WcLink
<1>7. wcGyro' \in {0, 0 - AtRest}
  <2>1. \A i \in parsed : wcFrames[i] \in Records
    BY <1>4, <1>5 DEF WcLink
  <2>2. \A r \in Records : GyroOf(r) \in {0, 0 - AtRest}
    BY DEF Records, GyroOf, AtRest
  <2> QED BY <1>3, <2>1, <2>2 DEF WcControl
<1>8. WcControl'
  BY <1>2, <1>7 DEF WcControl, slot, flags
<1>9. wcReplies' \in Seq(BOOLEAN) /\ Len(wcReplies') = Len(wcReplies) + 1 /\ Len(wcReplies) \in Nat
  BY <1>1 DEF WcLink, WcControl
<1>10. wcSplits' \in 0..WcMaxSplits
  BY <1>2, WcAssumption DEF WcLink
<1>11. Len(wcFrames') + Len(wcReplies') <= wcSplits' + (IF wcPc' = "wait" THEN 1 ELSE 0)
  <2>1. Len(wcFrames) + Len(wcReplies) <= wcSplits + (IF wcPc = "wait" THEN 1 ELSE 0)
        /\ wcSplits \in Nat /\ wcPc' = wcPc
    BY <1>2, WcAssumption DEF WcLink
  <2>2. wcSplits' = IF whole = 0 THEN wcSplits + 1 ELSE wcSplits
    BY <1>2
  <2>3. Len(wcFrames') = Len(wcFrames) - whole /\ whole \in Nat
    BY <1>4, <1>5, <1>6
  <2> HIDE DEF whole
  <2> QED BY <1>4, <1>9, <2>1, <2>2, <2>3, SMTT(30)
<1>12. wcSock /\ wcSock' /\ wcPc' = wcPc
  BY <1>2, <1>4 DEF WcLink, WcEmpty
<1>13. wcStream' \in Nat
  BY <1>2, <1>4
<1>14. WcLink'
  <2>1. wcStream' + wcTaken' = WcSegments * Len(wcFrames')
    BY <1>5, <1>6
  <2> QED BY <1>5, <1>6, <1>9, <1>10, <1>11, <1>12, <1>13, <2>1 DEF WcLink
<1> QED BY <1>8, <1>14 DEF WcInv

LEMMA AskedKeeps == ASSUME WcInv, SetRumble \/ User PROVE WcInv'
<1> WcControl /\ WcLink BY DEF WcInv
<1>1. WcLink'
  BY LinkStays DEF SetRumble, User
<1>2. CASE SetRumble
  <2>1. WcControl'
    BY <1>2, WcAssumption DEF SetRumble, WcControl, slot, flags
  <2> QED BY <1>1, <2>1 DEF WcInv
<1>3. CASE User
  <2>1. wcRemote' \in {"none", "bare", "plus"} /\ wcNunchuk' \in BOOLEAN /\ wcOn' \in BOOLEAN
    <3>1. CASE wcRemote = "none" /\ wcRemote' \in {"bare", "plus"} /\ wcNunchuk' \in BOOLEAN /\ wcOn' = FALSE
      BY <3>1
    <3>2. CASE wcRemote # "none" /\ wcRemote' = "none" /\ wcNunchuk' = FALSE /\ wcOn' = FALSE
      BY <3>2
    <3>3. CASE wcRemote # "none" /\ wcNunchuk' = ~wcNunchuk /\ UNCHANGED <<wcRemote, wcOn>>
      BY <3>3 DEF WcControl
    <3> QED BY <1>3, <3>1, <3>2, <3>3 DEF User
  <2>2. WcControl'
    BY <1>3, <2>1, WcAssumption DEF User, WcControl, flags
  <2> QED BY <1>1, <2>2 DEF WcInv
<1> QED BY <1>2, <1>3

LEMMA WcKeeps == WcInv /\ [WcNext]_wcVars => WcInv'
<1> SUFFICES ASSUME WcInv, [WcNext]_wcVars PROVE WcInv'
  OBVIOUS
<1>1. CASE UNCHANGED wcVars
  <2> WcControl /\ WcLink BY DEF WcInv
  <2>1. UNCHANGED <<wcRemote, wcNunchuk, wcOn, wcFormatSet, wcEnabled, wcUnsupported, wcPc,
                    wcRecord, wcAsked, wcVibrates, wcGyro, wcChanges>> /\ UNCHANGED link
    BY <1>1 DEF wcVars, slot, flags
  <2>2. WcControl'
    BY <2>1 DEF WcControl
  <2>3. WcLink'
    BY <2>1, LinkStays
  <2> QED BY <2>2, <2>3 DEF WcInv
<1> QED BY <1>1, BuildKeeps, SendKeeps, ReplyKeeps, BreakKeeps, ReadKeeps, AskedKeeps DEF WcNext

-----------------------------------------------------------------------------
(* The Wii forwarder.  The handlers of a console share its routes and its  *)
(* rumble bits and take both down when they end; what the next handler     *)
(* finds is right however many handlers, controllers and devices there     *)
(* are.  The invariant adds to what is promised that, while no connection  *)
(* overlapped another, there is one handler at most: its teardown is then  *)
(* nobody else's.                                                          *)

(* What the handlers share, and where they are. *)
WiiShape ==
  /\ wiiPc \in [WiiConns -> WiiPcs]
  /\ wiiFrame \in [WiiConns -> Seq(WiiIds)]
  /\ \A c \in WiiConns : wiiPc[c] \in {"lookup", "insert", "announce", "send", "drop"}
                           => wiiFrame[c] # <<>>
  /\ wiiCreated \in [WiiConns -> SUBSET WiiIds]
  /\ wiiRoute \in [WiiIds -> WiiDevs \cup {WiiNone}]
  /\ wiiRumble \in [WiiIds -> BOOLEAN] \cup {WiiNone}
  /\ wiiWanted \in [WiiIds -> BOOLEAN]

WiiRoutesOwned ==
  \A i \in WiiIds : wiiRoute[i] # WiiNone => \E c \in WiiConns : i \in wiiCreated[c]

WiiRumbleKept ==
  /\ wiiRumble # WiiNone => \E c \in WiiConns : wiiPc[c] # "closed"
  /\ ~wiiOverlap => \A c \in WiiConns : wiiPc[c] # "closed" =>
       /\ wiiRumble = wiiWanted
       /\ \A e \in WiiConns : wiiPc[e] # "closed" => e = c

WiiInv == WiiShape /\ WiiRoutesOwned /\ WiiRumbleKept

-----------------------------------------------------------------------------
(* A handler that goes from one place of its loop to another, and a device *)
(* that does what devices do, leave the rumble as it was promised.         *)
LEMMA RumbleStays ==
  ASSUME WiiShape, WiiRumbleKept,
         \A c \in WiiConns : wiiPc'[c] = "closed" <=> wiiPc[c] = "closed",
         UNCHANGED <<wiiRumble, wiiHistory>>
  PROVE  WiiRumbleKept'
BY DEF WiiRumbleKept, wiiHistory

LEMMA RoutesStay ==
  ASSUME WiiRoutesOwned, UNCHANGED <<wiiRoute, wiiCreated>>
  PROVE  WiiRoutesOwned'
BY DEF WiiRoutesOwned

(* What a step of a handler inside its loop is to the shared tables. *)
LEMMA GotoMoves ==
  ASSUME WiiShape, NEW c \in WiiConns, NEW pc \in WiiPcs, WiiGoto(c, pc)
  PROVE  /\ wiiPc' \in [WiiConns -> WiiPcs]
         /\ wiiPc'[c] = pc
         /\ \A e \in WiiConns \ {c} : wiiPc'[e] = wiiPc[e]
BY DEF WiiShape, WiiGoto

LEMMA AcceptKeeps ==
  ASSUME WiiInv, NEW c \in WiiConns, WiiAccept(c)
  PROVE  WiiInv'
<1> USE DEF WiiInv
<1>1. /\ wiiPc' \in [WiiConns -> WiiPcs]
      /\ wiiPc'[c] = "read"
      /\ \A e \in WiiConns \ {c} : wiiPc'[e] = wiiPc[e]
  BY GotoMoves DEF WiiAccept, WiiPcs
<1>2. WiiShape'
  BY <1>1 DEF WiiShape, WiiAccept, WiiOff
<1>3. WiiRoutesOwned'
  BY RoutesStay DEF WiiAccept
<1>4. WiiRumbleKept'
  <2>1. wiiRumble' # WiiNone => \E e \in WiiConns : wiiPc'[e] # "closed"
    BY <1>1
  <2>2. CASE WiiLive = {}
    <3>1. \A e \in WiiConns \ {c} : wiiPc'[e] = "closed"
      BY <1>1, <2>2 DEF WiiLive
    <3>2. wiiRumble = WiiNone
      BY <2>2 DEF WiiRumbleKept, WiiLive
    <3>3. wiiRumble' = wiiWanted'
      BY <2>2, <3>2 DEF WiiAccept
    <3> QED BY <2>1, <3>1, <3>3 DEF WiiRumbleKept
  <2>3. CASE WiiLive # {}
    <3>1. wiiOverlap'
      BY <2>3 DEF WiiAccept
    <3> QED BY <2>1, <3>1 DEF WiiRumbleKept
  <2> QED BY <2>2, <2>3
<1> QED BY <1>2, <1>3, <1>4

(* Waiting for the console: a read, its end, and the reply. *)
LEMMA WiiReadKeeps ==
  ASSUME WiiInv, NEW c \in WiiConns,
         \/ \E frame \in WiiFrames : WiiRead(c, frame)
         \/ WiiEof(c) \/ WiiReply(c, TRUE) \/ WiiReply(c, FALSE)
  PROVE  WiiInv'
<1> USE DEF WiiInv
<1>1. PICK pc \in {"reply", "lookup", "teardown", "read"} : WiiGoto(c, pc)
  BY DEF WiiRead, WiiEof, WiiReply
<1>2. /\ wiiPc' \in [WiiConns -> WiiPcs]
      /\ wiiPc'[c] = pc
      /\ \A e \in WiiConns \ {c} : wiiPc'[e] = wiiPc[e]
  BY <1>1, GotoMoves DEF WiiPcs
<1>3. /\ UNCHANGED <<wiiCreated, wiiRoute, wiiRumble, wiiHistory>>
      /\ wiiPc[c] # "closed"
  BY DEF WiiRead, WiiEof, WiiReply
<1>4. /\ wiiFrame' \in [WiiConns -> Seq(WiiIds)]
      /\ pc = "lookup" => wiiFrame'[c] # <<>>
      /\ \A e \in WiiConns \ {c} : wiiFrame'[e] = wiiFrame[e]
  <2>1. CASE \E frame \in WiiFrames : WiiRead(c, frame)
    <3>1. PICK frame \in WiiFrames : WiiRead(c, frame) BY <2>1
    <3>2. frame \in Seq(WiiIds)
      <4>1. PICK n \in 0 .. WiiBurst : frame \in [1 .. n -> WiiIds]
        BY DEF WiiFrames
      <4> QED BY <4>1, WiiAssumption
    <3>3. wiiPc' = [wiiPc EXCEPT ![c] = IF frame = <<>> THEN "reply" ELSE "lookup"]
      BY <3>1 DEF WiiRead, WiiGoto
    <3> QED BY <1>2, <3>1, <3>2, <3>3 DEF WiiRead, WiiShape
  <2>2. CASE WiiEof(c) \/ WiiReply(c, TRUE) \/ WiiReply(c, FALSE)
    <3>1. pc # "lookup"
      BY <1>2, <2>2 DEF WiiEof, WiiReply, WiiGoto, WiiShape
    <3> QED BY <2>2, <3>1 DEF WiiEof, WiiReply, WiiShape
  <2> QED BY <2>1, <2>2
<1>5. WiiShape'
  BY <1>2, <1>3, <1>4 DEF WiiShape, wiiHistory
<1>6. WiiRoutesOwned' /\ WiiRumbleKept'
  BY <1>2, <1>3, RoutesStay, RumbleStays
<1> QED BY <1>5, <1>6

(* The next packet of the frame, or none. *)
LEMMA NextPacketMoves ==
  ASSUME WiiShape, NEW c \in WiiConns, WiiNextPacket(c),
         wiiPc[c] \in {"send", "drop"}
  PROVE  /\ wiiPc' \in [WiiConns -> WiiPcs]
         /\ wiiPc'[c] \in {"reply", "lookup"}
         /\ \A e \in WiiConns \ {c} : wiiPc'[e] = wiiPc[e] /\ wiiFrame'[e] = wiiFrame[e]
         /\ wiiFrame' \in [WiiConns -> Seq(WiiIds)]
         /\ wiiPc'[c] = "lookup" => wiiFrame'[c] # <<>>
<1> DEFINE pc == IF Len(wiiFrame[c]) = 1 THEN "reply" ELSE "lookup"
<1>1. WiiGoto(c, pc) /\ pc \in WiiPcs
  BY DEF WiiNextPacket, WiiPcs
<1> HIDE DEF pc
<1>2. /\ wiiPc' \in [WiiConns -> WiiPcs]
      /\ wiiPc'[c] = pc
      /\ \A e \in WiiConns \ {c} : wiiPc'[e] = wiiPc[e]
  BY <1>1, GotoMoves
<1>3. wiiFrame[c] \in Seq(WiiIds) /\ wiiFrame[c] # <<>>
  BY DEF WiiShape
<1>4. Tail(wiiFrame[c]) \in Seq(WiiIds) /\ Len(Tail(wiiFrame[c])) = Len(wiiFrame[c]) - 1
  BY <1>3
<1>5. wiiFrame' = [wiiFrame EXCEPT ![c] = Tail(wiiFrame[c])]
  BY DEF WiiNextPacket
<1>6. wiiFrame' \in [WiiConns -> Seq(WiiIds)]
  BY <1>4, <1>5 DEF WiiShape
<1>7. wiiFrame'[c] = Tail(wiiFrame[c])
      /\ \A e \in WiiConns \ {c} : wiiFrame'[e] = wiiFrame[e]
  BY <1>5 DEF WiiShape
<1>8. pc = "lookup" => Tail(wiiFrame[c]) # <<>>
  <2> SUFFICES ASSUME Tail(wiiFrame[c]) = <<>>
               PROVE  pc # "lookup"
    OBVIOUS
  <2>1. Len(wiiFrame[c]) \in Nat
    BY <1>3
  <2>2. Len(<<>>) = 0
    OBVIOUS
  <2>3. Len(wiiFrame[c]) - 1 = 0
    BY <1>4, <2>2, Zenon
  <2>4. Len(wiiFrame[c]) = 1
    BY <2>1, <2>3
  <2> QED BY <2>4 DEF pc
<1> QED BY <1>2, <1>6, <1>7, <1>8 DEF pc

LEMMA LookupKeeps ==
  ASSUME WiiInv, NEW c \in WiiConns, WiiLookup(c)
  PROVE  WiiInv'
<1> USE DEF WiiInv
<1>1. PICK pc \in {"insert", "send"} : WiiGoto(c, pc)
  BY DEF WiiLookup
<1>2. /\ wiiPc' \in [WiiConns -> WiiPcs]
      /\ wiiPc'[c] = pc
      /\ \A e \in WiiConns \ {c} : wiiPc'[e] = wiiPc[e]
  BY <1>1, GotoMoves DEF WiiPcs
<1>3. /\ UNCHANGED <<wiiFrame, wiiCreated, wiiRoute, wiiRumble, wiiHistory>>
      /\ wiiPc[c] = "lookup"
  BY DEF WiiLookup
<1>4. WiiShape'
  BY <1>2, <1>3 DEF WiiShape, wiiHistory
<1> QED BY <1>2, <1>3, <1>4, RoutesStay, RumbleStays

(* Whatever route the handler writes, it keeps the key to remove it by.    *)
LEMMA InsertKeeps ==
  ASSUME WiiInv, NEW c \in WiiConns, NEW d \in WiiDevs, WiiInsert(c, d)
  PROVE  WiiInv'
<1> USE DEF WiiInv
<1>1. /\ wiiPc' \in [WiiConns -> WiiPcs]
      /\ wiiPc'[c] = "announce"
      /\ \A e \in WiiConns \ {c} : wiiPc'[e] = wiiPc[e]
  BY GotoMoves DEF WiiInsert, WiiPcs
<1>2. WiiId(c) \in WiiIds
  BY DEF WiiInsert, WiiShape, WiiId
<1>3. /\ UNCHANGED <<wiiFrame, wiiRumble, wiiHistory>>
      /\ wiiPc[c] = "insert"
      /\ wiiRoute' = [wiiRoute EXCEPT ![WiiId(c)] = d]
      /\ wiiCreated' = [wiiCreated EXCEPT ![c] = @ \cup {WiiId(c)}]
  BY DEF WiiInsert
<1>4. WiiShape'
  BY <1>1, <1>2, <1>3 DEF WiiShape, wiiHistory
<1>5. \A e \in WiiConns : wiiCreated[e] \subseteq wiiCreated'[e]
  BY <1>3 DEF WiiShape
<1>6. WiiId(c) \in wiiCreated'[c]
  BY <1>3 DEF WiiShape
<1>7. \A i \in WiiIds : i # WiiId(c) => wiiRoute'[i] = wiiRoute[i]
  BY <1>3 DEF WiiShape
<1>8. WiiRoutesOwned'
  BY <1>5, <1>6, <1>7 DEF WiiRoutesOwned
<1> QED BY <1>1, <1>3, <1>4, <1>8, RumbleStays

LEMMA WiiAnnounceKeeps ==
  ASSUME WiiInv, NEW c \in WiiConns, NEW ok \in BOOLEAN, WiiAnnounce(c, ok)
  PROVE  WiiInv'
<1> USE DEF WiiInv
<1>1. PICK pc \in {"send", "teardown"} : WiiGoto(c, pc)
  BY DEF WiiAnnounce
<1>2. /\ wiiPc' \in [WiiConns -> WiiPcs]
      /\ wiiPc'[c] = pc
      /\ \A e \in WiiConns \ {c} : wiiPc'[e] = wiiPc[e]
  BY <1>1, GotoMoves DEF WiiPcs
<1>3. /\ UNCHANGED <<wiiCreated, wiiRoute, wiiRumble, wiiHistory>>
      /\ wiiPc[c] = "announce"
  BY DEF WiiAnnounce
<1>4. /\ wiiFrame' \in [WiiConns -> Seq(WiiIds)]
      /\ pc = "send" => wiiFrame'[c] # <<>>
      /\ \A e \in WiiConns \ {c} : wiiFrame'[e] = wiiFrame[e]
  <2>1. CASE ok
    BY <1>3, <2>1 DEF WiiAnnounce, WiiShape
  <2>2. CASE ~ok
    <3>1. wiiFrame' = [wiiFrame EXCEPT ![c] = <<>>] /\ WiiGoto(c, "teardown")
      BY <2>2 DEF WiiAnnounce
    <3>2. pc = "teardown"
      BY <1>2, <3>1 DEF WiiGoto, WiiShape
    <3>3. <<>> \in Seq(WiiIds)
      OBVIOUS
    <3> QED BY <3>1, <3>2, <3>3 DEF WiiShape
  <2> QED BY <2>1, <2>2
<1>5. WiiShape'
  BY <1>2, <1>3, <1>4 DEF WiiShape, wiiHistory
<1> QED BY <1>2, <1>3, <1>5, RoutesStay, RumbleStays

LEMMA WiiSendKeeps ==
  ASSUME WiiInv, NEW c \in WiiConns, WiiSend(c)
  PROVE  WiiInv'
<1> USE DEF WiiInv
<1>1. /\ UNCHANGED <<wiiCreated, wiiRoute, wiiRumble, wiiHistory>>
      /\ wiiPc[c] = "send"
  BY DEF WiiSend
<1>2. CASE WiiNextPacket(c)
  <2>1. WiiShape'
    BY <1>1, <1>2, NextPacketMoves DEF WiiShape, wiiHistory
  <2>2. \A e \in WiiConns : wiiPc'[e] = "closed" <=> wiiPc[e] = "closed"
    BY <1>1, <1>2, NextPacketMoves
  <2> QED BY <1>1, <2>1, <2>2, RoutesStay, RumbleStays
<1>3. CASE WiiGoto(c, "drop") /\ UNCHANGED wiiFrame
  <2>1. /\ wiiPc' \in [WiiConns -> WiiPcs]
        /\ wiiPc'[c] = "drop"
        /\ \A e \in WiiConns \ {c} : wiiPc'[e] = wiiPc[e]
    BY <1>3, GotoMoves DEF WiiPcs
  <2>2. WiiShape'
    BY <1>1, <1>3, <2>1 DEF WiiShape, wiiHistory
  <2> QED BY <1>1, <2>1, <2>2, RoutesStay, RumbleStays
<1> QED BY <1>2, <1>3 DEF WiiSend

LEMMA DropKeeps ==
  ASSUME WiiInv, NEW c \in WiiConns, WiiDrop(c)
  PROVE  WiiInv'
<1> USE DEF WiiInv
<1>1. /\ UNCHANGED <<wiiCreated, wiiRumble, wiiHistory>>
      /\ wiiPc[c] = "drop" /\ WiiNextPacket(c)
      /\ wiiRoute' = [wiiRoute EXCEPT ![WiiId(c)] = WiiNone]
  BY DEF WiiDrop
<1>2. WiiShape'
  BY <1>1, NextPacketMoves DEF WiiShape, wiiHistory
<1>3. WiiRoutesOwned'
  BY <1>1 DEF WiiRoutesOwned, WiiShape
<1>4. \A e \in WiiConns : wiiPc'[e] = "closed" <=> wiiPc[e] = "closed"
  BY <1>1, NextPacketMoves
<1> QED BY <1>1, <1>2, <1>3, <1>4, RumbleStays

(* The teardown takes the routes with the keys.                            *)
LEMMA TeardownKeeps ==
  ASSUME WiiInv, NEW c \in WiiConns, WiiTeardown(c)
  PROVE  WiiInv'
<1> USE DEF WiiInv
<1>1. /\ wiiPc' \in [WiiConns -> WiiPcs]
      /\ wiiPc'[c] = "unrumble"
      /\ \A e \in WiiConns \ {c} : wiiPc'[e] = wiiPc[e]
  BY GotoMoves DEF WiiTeardown, WiiPcs
<1>2. /\ UNCHANGED <<wiiFrame, wiiRumble, wiiHistory>>
      /\ wiiPc[c] = "teardown"
      /\ wiiRoute' = [i \in WiiIds |-> IF i \in wiiCreated[c] THEN WiiNone ELSE wiiRoute[i]]
      /\ wiiCreated' = [wiiCreated EXCEPT ![c] = {}]
  BY DEF WiiTeardown
<1>3. WiiShape'
  BY <1>1, <1>2 DEF WiiShape, wiiHistory
<1>4. ASSUME NEW i \in WiiIds, wiiRoute'[i] # WiiNone
      PROVE  \E e \in WiiConns : i \in wiiCreated'[e]
  <2>1. i \notin wiiCreated[c] /\ wiiRoute[i] # WiiNone
    BY <1>2, <1>4
  <2>2. PICK e \in WiiConns : i \in wiiCreated[e]
    BY <2>1 DEF WiiRoutesOwned
  <2>3. i \in wiiCreated'[e]
    BY <1>2, <2>1, <2>2 DEF WiiShape
  <2> QED BY <2>3
<1>5. WiiRoutesOwned'
  BY <1>4 DEF WiiRoutesOwned
<1> QED BY <1>1, <1>2, <1>3, <1>5, RumbleStays

(* The bits are removed while another handler still needs them only if the *)
(* connections overlapped.                                                 *)
LEMMA UnrumbleKeeps ==
  ASSUME WiiInv, NEW c \in WiiConns, WiiUnrumble(c)
  PROVE  WiiInv'
<1> USE DEF WiiInv
<1>1. /\ wiiPc' \in [WiiConns -> WiiPcs]
      /\ wiiPc'[c] = "closed"
      /\ \A e \in WiiConns \ {c} : wiiPc'[e] = wiiPc[e]
  BY GotoMoves DEF WiiUnrumble, WiiPcs
<1>2. /\ UNCHANGED <<wiiFrame, wiiCreated, wiiRoute, wiiHistory>>
      /\ wiiPc[c] = "unrumble" /\ wiiRumble' = WiiNone
  BY DEF WiiUnrumble
<1>3. WiiShape'
  BY <1>1, <1>2 DEF WiiShape, wiiHistory
<1>4. WiiRumbleKept'
  BY <1>1, <1>2 DEF WiiRumbleKept, wiiHistory
<1> QED BY <1>2, <1>3, <1>4, RoutesStay

-----------------------------------------------------------------------------
(* The console closing its socket, and all a device does but set_rumble.   *)
LEMMA OthersKeep ==
  ASSUME WiiInv,
         UNCHANGED <<wiiPc, wiiFrame, wiiCreated, wiiRoute, wiiRumble, wiiHistory>>
  PROVE  WiiInv'
<1>1. WiiShape'
  BY DEF WiiInv, WiiShape, wiiHistory
<1> QED BY <1>1, RoutesStay, RumbleStays DEF WiiInv

(* set_rumble writes what was asked for where the handler reads it, unless *)
(* there is no handler to have made the entry.                             *)
LEMMA SetRumbleKeeps ==
  ASSUME WiiInv, NEW d \in WiiDevs, NEW on \in BOOLEAN, WiiSetRumble(d, on)
  PROVE  WiiInv'
<1> USE DEF WiiInv
<1>1. /\ UNCHANGED <<wiiPc, wiiFrame, wiiCreated, wiiRoute, wiiOverlap>>
      /\ wiiRumble' = IF wiiRumble = WiiNone THEN WiiNone
                      ELSE [wiiRumble EXCEPT ![wiiOwner[d]] = on]
      /\ wiiWanted' = [wiiWanted EXCEPT ![wiiOwner[d]] = on]
  BY DEF WiiSetRumble, wiiHandler
<1>2. wiiWanted' \in [WiiIds -> BOOLEAN]
  BY <1>1 DEF WiiShape
<1>3. wiiRumble' \in [WiiIds -> BOOLEAN] \cup {WiiNone}
  BY <1>1 DEF WiiShape
<1>4. WiiShape'
  BY <1>1, <1>2, <1>3 DEF WiiShape
<1>5. wiiRumble = wiiWanted => wiiRumble' = wiiWanted'
  BY <1>1, WiiAssumption DEF WiiShape
<1>6. WiiRumbleKept'
  BY <1>1, <1>5 DEF WiiRumbleKept
<1> QED BY <1>1, <1>4, <1>6, RoutesStay

LEMMA WiiInvHolds == WiiSpec => []WiiInv
<1>1. WiiInit => WiiInv
  BY DEF WiiInit, WiiInv, WiiShape, WiiRoutesOwned, WiiRumbleKept, WiiPcs, WiiOff
<1>2. ASSUME WiiInv, [WiiNext]_wiiVars
      PROVE  WiiInv'
  <2>1. ASSUME NEW c \in WiiConns, WiiAccept(c) \/ WiiClose(c) \/ WiiHandler(c)
        PROVE  WiiInv'
    <3>1. CASE WiiClose(c)
      BY <1>2, <3>1, OthersKeep DEF WiiClose
    <3> QED BY <1>2, <2>1, <3>1, AcceptKeeps, WiiReadKeeps, LookupKeeps, InsertKeeps,
               WiiAnnounceKeeps, WiiSendKeeps, DropKeeps, TeardownKeeps, UnrumbleKeeps
            DEF WiiHandler
  <2>2. ASSUME NEW c \in WiiConns,
               \/ WiiAnnounce(c, FALSE) \/ WiiReply(c, FALSE)
               \/ \E frame \in WiiFrames : WiiRead(c, frame)
        PROVE  WiiInv'
    BY <1>2, <2>2, WiiAnnounceKeeps, WiiReadKeeps
  <2>3. ASSUME NEW d \in WiiDevs,
               WiiStart(d) \/ WiiRecv(d) \/ WiiDisconnected(d) \/ WiiStop(d)
        PROVE  WiiInv'
    BY <1>2, <2>3, OthersKeep
    DEF WiiStart, WiiRecv, WiiDisconnected, WiiStop, wiiHandler
  <2>4. ASSUME NEW d \in WiiDevs, NEW on \in BOOLEAN, WiiSetRumble(d, on)
        PROVE  WiiInv'
    BY <1>2, <2>4, SetRumbleKeeps
  <2>5. CASE UNCHANGED wiiVars
    BY <1>2, <2>5, OthersKeep DEF wiiVars, wiiHandler, wiiDevice
  <2> QED BY <1>2, <2>1, <2>2, <2>3, <2>4, <2>5 DEF WiiNext
<1> QED BY <1>1, <1>2, PTL DEF WiiSpec

-----------------------------------------------------------------------------
(* However the handlers of a console interleave: no route and no rumble    *)
(* bits outlive them, and a handler that is alone replies with the rumble  *)
(* last asked for (factory.rs:83-113, device.rs:127-143).                  *)
THEOREM TablesKept == WiiSpec => []WiiTablesKept
<1>1. WiiInv => WiiTablesKept
  BY DEF WiiInv, WiiRoutesOwned, WiiRumbleKept, WiiTablesKept, WiiLive
<1> QED BY <1>1, WiiInvHolds, PTL

-----------------------------------------------------------------------------
(* All of them together *)

LEMMA NetworkKeeps ==
  /\ NetworkInit => HInv /\ UdpInv /\ WcInv
  /\ HInv /\ UdpInv /\ WcInv /\ [NetworkNext]_networkVars => (HInv /\ UdpInv /\ WcInv)'
<1>1. NetworkInit => HInv /\ UdpInv /\ WcInv
  BY InitCorrect, UdpInitTyped, WcInitTyped DEF NetworkInit
<1>2. [NetworkNext]_networkVars => [Next]_vars /\ [WcNext]_wcVars /\ [UdpNext]_udpVars
  BY DEF NetworkNext, Only, networkVars
<1> QED BY <1>1, <1>2, NextKeeps, UdpKeeps, WcKeeps

(* No channel of a hub or of a forwarder ever holds more than its          *)
(* capacity, whatever the devices and their supervisor do (remote          *)
(* factory.rs:199, 263-267; 3ds factory.rs:94; vita factory.rs:89), and    *)
(* the companion never has more frames unread than reads that split one,   *)
(* and one more (main.c:363-398).                                          *)
THEOREM NetworkTypeCorrect == NetworkSpec => []NetworkTypeOK
<1>1. HInv /\ UdpInv /\ WcInv => NetworkTypeOK
  BY WcTyped DEF HInv, UdpInv, NetworkTypeOK
<1> QED BY <1>1, NetworkKeeps, PTL DEF NetworkSpec

(* A hub's devices still share its rumble target.                          *)
THEOREM NetworkTargetShared == NetworkSpec => []OneTarget
<1>1. HInv => OneTarget
  BY DEF HInv
<1> QED BY <1>1, NetworkKeeps, PTL DEF NetworkSpec
=============================================================================
