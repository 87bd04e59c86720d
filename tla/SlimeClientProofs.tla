-------------------------- MODULE SlimeClientProofs --------------------------
(***************************************************************************)
(* Proofs about the client's two tasks: what they keep true of each other, *)
(* for every timeout, every number of silences and every schedule.         *)
(***************************************************************************)
EXTENDS SlimeClient, TLAPS

LEMMA OlderInAges ==
  ASSUME NEW a \in Ages
  PROVE  /\ Older(a) \in Ages
         /\ Lapsed(a) => Lapsed(Older(a))
BY TimeoutAssumption DEF Ages, Older, Lapsed, Never

(* The strengthened invariant holds initially: nothing was heard yet, so   *)
(* nothing can be reset.                                                   *)
LEMMA InitIInv == Init => IInv
<1> SUFFICES ASSUME Init PROVE IInv
  OBVIOUS
<1> USE DEF Init
<1>1. TypeOK
  BY DEF TypeOK, Ages, Inbound, NoMsg, Event
<1>2. ~(wd = "reset")
  OBVIOUS
<1>3. ResetsCountFalls /\ OneEventPerFlip
  BY DEF ResetsCountFalls, OneEventPerFlip, One
<1>4. falls + Credit <= 3 * lapses + stalls
  BY TimeoutAssumption DEF Credit, One, Lapsed, Never
<1>5. rx # "store" => rxAge = Never
  OBVIOUS
<1> QED BY <1>1, <1>2, <1>3, <1>4, <1>5 DEF IInv

(* receive_loop's steps. *)
LEMMA RxRecvIInv == ASSUME IInv, NEW m \in Inbound, RxRecv(m) PROVE IInv'
<1> USE DEF RxRecv, IInv, flags, wdVars, history
<1>1. TypeOK'
  BY TimeoutAssumption DEF TypeOK, Ages, Event
<1>2. wd' = "reset" => confirmed' /\ WdTimedOut'
  BY DEF WdTimedOut, Lapsed
<1>3. ResetsCountFalls' /\ OneEventPerFlip'
  BY DEF ResetsCountFalls, OneEventPerFlip, One, TypeOK
<1>4. falls' + Credit' <= 3 * lapses' + stalls'
  BY TimeoutAssumption DEF Credit, One, Lapsed, TypeOK
<1>5. rx' # "store" => rxAge' = Never
  OBVIOUS
<1> QED BY <1>1, <1>2, <1>3, <1>4, <1>5

(* The arrival is stored: what it brings with it, if it waited too long,   *)
(* is all the credit its stamp can have.                                   *)
LEMMA RxStoreIInv == ASSUME IInv, RxStore PROVE IInv'
<1> USE DEF RxStore, IInv, wdVars, history
<1>1. TypeOK'
  BY DEF TypeOK, Ages
<1>2. wd' = "reset" => confirmed' /\ WdTimedOut'
  BY DEF WdTimedOut, Lapsed
<1>3. ResetsCountFalls' /\ OneEventPerFlip'
  BY DEF ResetsCountFalls, OneEventPerFlip, One, TypeOK
<1>4. falls' + Credit' <= 3 * lapses' + stalls'
  BY TimeoutAssumption DEF Credit, One, Lapsed, Never, TypeOK
<1> QED BY <1>1, <1>2, <1>3, <1>4

LEMMA RxStepIInv == ASSUME IInv, RxStep PROVE IInv'
<1> USE DEF IInv, flags, wdVars, history
<1>1. CASE RxSwap
  BY <1>1 DEF RxSwap, TypeOK, WdTimedOut, Lapsed, ResetsCountFalls,
              OneEventPerFlip, One, Credit
<1>2. CASE RxLoad
  BY <1>2 DEF RxLoad, TypeOK, WdTimedOut, Lapsed, ResetsCountFalls,
              OneEventPerFlip, One, Credit
<1>3. CASE RxEmit
  BY <1>3 DEF RxEmit, TypeOK, Event, WdTimedOut, Lapsed, ResetsCountFalls,
              OneEventPerFlip, One, Credit
<1>4. CASE RxHandle
  <2> USE <1>4 DEF RxHandle
  <2>1. TypeOK'
    <3>1. bundle' \in BOOLEAN
      BY DEF TypeOK
    <3>2. rx' = "recv" /\ rxMsg' \in Inbound \cup {NoMsg}
      OBVIOUS
    <3> QED BY <3>1, <3>2 DEF TypeOK
  <2>2. ResetsCountFalls' /\ OneEventPerFlip' /\ (wd' = "reset" => confirmed' /\ WdTimedOut')
    BY DEF WdTimedOut, Lapsed, ResetsCountFalls, OneEventPerFlip, One, TypeOK
  <2>3. falls' + Credit' <= 3 * lapses' + stalls'
    BY DEF Credit, One, Lapsed, TypeOK
  <2> QED BY <2>1, <2>2, <2>3
<1>5. CASE RxStore
  BY <1>5, RxStoreIInv
<1> QED BY <1>1, <1>2, <1>3, <1>4, <1>5 DEF RxStep

(* handshake_watchdog's steps. *)
LEMMA WdStepIInv == ASSUME IInv, WdStep PROVE IInv'
<1> USE DEF IInv, flags, rxVars, history
<1>1. CASE WdLoad
  BY <1>1 DEF WdLoad, TypeOK, WdTimedOut, Lapsed, ResetsCountFalls,
              OneEventPerFlip, One, Credit
<1>8. CASE WdClock
  BY <1>8 DEF WdClock, TypeOK, WdTimedOut, Lapsed, ResetsCountFalls,
              OneEventPerFlip, One, Credit
<1>2. CASE WdDecide
  <2> USE DEF WdDecide, Never
  <2>1. CASE confirmed /\ WdTimedOut
    BY <1>2, <2>1 DEF TypeOK, WdTimedOut, Lapsed, ResetsCountFalls, OneEventPerFlip,
                      One, Credit
  <2>2. CASE ~(confirmed /\ WdTimedOut)
    <3>1. wd' = "check" /\ wdAge' = -1
      BY <1>2, <2>2
    <3>2. UNCHANGED <<confirmed, bundle, age, resets, rx, rxMsg, rxAge, rxCount, wdCount,
                      lastEvent, rises, falls, ups, downs, lapses, stalls>>
      BY <1>2
    <3>3. TypeOK'
      BY <3>1, <3>2 DEF TypeOK, Ages
    <3>4. ResetsCountFalls' /\ OneEventPerFlip'
      BY <1>2, <3>1, <3>2 DEF ResetsCountFalls, OneEventPerFlip, One
    <3>5. falls' + Credit' <= 3 * lapses' + stalls'
      BY <1>2, <3>1, <3>2 DEF Credit, One, Lapsed, TypeOK
    <3> QED BY <3>1, <3>2, <3>3, <3>4, <3>5
  <2> QED BY <2>1, <2>2
<1>3. CASE WdReset
  <2> USE <1>3 DEF WdReset
  <2>1. confirmed = TRUE /\ confirmed' = FALSE /\ falls' = falls + 1 /\ wd' = "clear"
    BY DEF TypeOK
  <2>2. TypeOK'
    <3>1. falls' \in Nat
      BY <2>1 DEF TypeOK
    <3>2. confirmed' \in BOOLEAN
      BY <2>1
    <3>3. wdAge' \in Ages
      BY DEF Ages
    <3>4. UNCHANGED <<bundle, age, resets, rx, rxMsg, rxAge, rxCount, wdCount,
                      lastEvent, rises, ups, downs, lapses, stalls>>
      OBVIOUS
    <3> QED BY <2>1, <3>1, <3>2, <3>3, <3>4 DEF TypeOK
  <2>3. ResetsCountFalls'
    BY <2>1 DEF ResetsCountFalls, One, TypeOK
  <2>4. OneEventPerFlip'
    BY <2>1 DEF OneEventPerFlip, One, TypeOK
  <2>5. falls' + Credit' <= 3 * lapses' + stalls'
    BY <2>1 DEF Credit, One, Lapsed, WdTimedOut, TypeOK
  <2> QED BY <2>1, <2>2, <2>3, <2>4, <2>5
<1>4. CASE WdClearBundle
  BY <1>4 DEF WdClearBundle, TypeOK, WdTimedOut, Lapsed, ResetsCountFalls,
              OneEventPerFlip, One, Credit
<1>5. CASE WdCount
  BY <1>5 DEF WdCount, TypeOK, WdTimedOut, Lapsed, ResetsCountFalls,
              OneEventPerFlip, One, Credit
<1>6. CASE WdEmit
  BY <1>6 DEF WdEmit, TypeOK, Event, WdTimedOut, Lapsed, ResetsCountFalls,
              OneEventPerFlip, One, Credit
<1>7. CASE WdCheck
  BY <1>7 DEF WdCheck, TypeOK, WdTimedOut, Lapsed, ResetsCountFalls,
              OneEventPerFlip, One, Credit
<1> QED BY <1>1, <1>2, <1>3, <1>4, <1>5, <1>6, <1>7, <1>8 DEF WdStep

(* Time: a stamp that crosses the timeout buys three resets, which is all  *)
(* the credit a lapsed silence can have; the stamp the watchdog has loaded *)
(* buys one, unless the stored one, younger or not, has lapsed as well.    *)
LEMMA TickIInv == ASSUME IInv, Tick PROVE IInv'
<1> USE DEF IInv, Tick
<1>1. /\ age' \in Ages /\ (Lapsed(age) => Lapsed(age'))
      /\ rxAge' \in Ages /\ (Lapsed(rxAge) => Lapsed(rxAge'))
      /\ wdAge' \in Ages /\ (Lapsed(wdAge) => Lapsed(wdAge'))
  BY OlderInAges DEF TypeOK
<1>2. wd' \in {wd, "load"} /\ (wd' # wd => wd = "sleep")
  OBVIOUS
<1>3. TypeOK'
  <2>1. lapses' \in Nat /\ stalls' \in Nat
    BY DEF TypeOK, One
  <2> QED BY <1>1, <1>2, <2>1 DEF TypeOK
<1>4. wd' = "reset" => confirmed' /\ WdTimedOut'
  BY <1>2 DEF WdTimedOut
<1>5. ResetsCountFalls' /\ OneEventPerFlip'
  BY <1>2 DEF ResetsCountFalls, OneEventPerFlip, One, TypeOK
<1>6. rx' # "store" => rxAge' = Never
  OBVIOUS
<1>7. falls' + Credit' <= 3 * lapses' + stalls'
  <2> DEFINE S == 3 * One(rx = "store" /\ Lapsed(rxAge))
             B == IF Lapsed(age)
                  THEN (IF confirmed THEN 2 ELSE 1) + One(rx = "swap")
                  ELSE One(wd \in {"clock", "decide", "reset"} /\ Lapsed(wdAge))
             X == One(Lapsed(age') /\ ~Lapsed(age))
             Y == One(Lapsed(rxAge') /\ ~Lapsed(rxAge))
             Z == One(Lapsed(wdAge') /\ ~Lapsed(wdAge) /\ ~Lapsed(age'))
  <2>1. S \in Nat /\ B \in Nat /\ X \in Nat /\ Y \in Nat /\ Z \in Nat
    BY DEF One
  <2>2. S' <= S + 3 * Y
    BY <1>1 DEF One
  <2>3. B' <= B + 3 * X + Z
    <3>1. CASE Lapsed(age)
      BY <1>1, <3>1 DEF One
    <3>2. CASE ~Lapsed(age) /\ Lapsed(age')
      BY <3>2 DEF One
    <3>3. CASE ~Lapsed(age) /\ ~Lapsed(age')
      BY <1>1, <1>2, <3>3 DEF One
    <3> QED BY <3>1, <3>2, <3>3
  <2>4. falls' = falls /\ lapses' = lapses + X + Y /\ stalls' = stalls + Z
    OBVIOUS
  <2>5. Credit = S + B /\ Credit' = S' + B'
    BY DEF Credit
  <2>6. S' \in Nat /\ B' \in Nat
    BY DEF One
  <2>7. falls \in Nat /\ lapses \in Nat /\ stalls \in Nat
    BY DEF TypeOK
  <2> HIDE DEF S, B, X, Y, Z
  <2> QED BY <2>1, <2>2, <2>3, <2>4, <2>5, <2>6, <2>7
<1> QED BY <1>3, <1>4, <1>5, <1>6, <1>7

LEMMA NextIInv == IInv /\ [Next]_clientVars => IInv'
<1> SUFFICES ASSUME IInv, [Next]_clientVars PROVE IInv'
  OBVIOUS
<1>1. CASE Next
  BY <1>1, RxRecvIInv, RxStepIInv, WdStepIInv, TickIInv DEF Next
<1>2. CASE UNCHANGED clientVars
  BY <1>2 DEF clientVars, flags, rxVars, wdVars, history, IInv, TypeOK, WdTimedOut,
              Lapsed, ResetsCountFalls, OneEventPerFlip, One, Credit
<1> QED BY <1>1, <1>2

THEOREM Invariance == Spec => []IInv
BY InitIInv, NextIInv, PTL DEF Spec

(* Every variable keeps its type, whatever the two tasks interleave. *)
THEOREM TypeCorrect == Spec => []TypeOK
<1>1. IInv => TypeOK  BY DEF IInv
<1> QED BY <1>1, Invariance, PTL

(* handshake_reset_count is exact: it counts the flips to FALSE            *)
(* (client.rs:604-608).                                                    *)
THEOREM ResetCountExact == Spec => []ResetsCountFalls
<1>1. IInv => ResetsCountFalls  BY DEF IInv
<1> QED BY <1>1, Invariance, PTL

(* The event stream is complete and free of duplicates in both directions  *)
(* (client.rs:523-533, 610-613).                                           *)
THEOREM EventsExact == Spec => []OneEventPerFlip
<1>1. IInv => OneEventPerFlip  BY DEF IInv
<1> QED BY <1>1, Invariance, PTL

(* However stale the watchdog's decision, a silence of the server costs at *)
(* most three resets and a stall of the watchdog one; there is no other    *)
(* way to lose the connection (client.rs:591-600).                         *)
THEOREM BoundedFlapping == Spec => []ResetsHaveCauses
<1>1. IInv => ResetsHaveCauses
  BY DEF IInv, ResetsHaveCauses, Credit, One, TypeOK
<1> QED BY <1>1, Invariance, PTL
=============================================================================
