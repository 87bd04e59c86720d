---------------------------- MODULE SlimeClient ----------------------------
(***************************************************************************)
(* The connection state of one SlimeVR UDP client,                         *)
(* crates/slime-tracker/src/client.rs.  Two tokio tasks share atomics:     *)
(*                                                                         *)
(*   receive_loop        stores the arrival time, swaps the confirmed flag *)
(*                       to TRUE and, on a flip, broadcasts an event;      *)
(*   handshake_watchdog  wakes every 500 ms, decides from values it has    *)
(*                       loaded whether the server went silent, and if so  *)
(*                       clears the flags, counts the reset and broadcasts.*)
(*                                                                         *)
(* Neither task holds a lock, so every atomic access is a step of its own. *)
(* One tick is the watchdog's period.  The datagrams that arrive are the   *)
(* environment's: any kind, at any time.  SlimeSession composes this       *)
(* module with the pipeline and a server.                                  *)
(***************************************************************************)
EXTENDS Integers

CONSTANTS
  Timeout,    \* silence, in ticks, that the watchdog tolerates (2000 ms = 4 ticks)
  MaxLapses,  \* bound for TLC: how many times the silence may exceed Timeout
  MaxStalls   \* bound for TLC: how many times it does so on a stamp already replaced

ASSUME TimeoutAssumption == Timeout \in Nat \ {0}
ASSUME MaxLapsesAssumption == MaxLapses \in Nat /\ MaxStalls \in Nat

VARIABLES
  confirmed,  \* handshake_confirmed
  bundle,     \* server_supports_bundle
  age,        \* time since last_inbound_ms_unix, Never while that is 0
  resets,     \* handshake_reset_count
  rx,         \* where receive_loop is
  rxMsg,      \* the datagram it is processing
  rxAge,      \* time since the clock read of its arrival, until that is stored
  rxCount,    \* the reset count it loaded for its event
  wd,         \* where handshake_watchdog is
  wdAge,      \* the stamp it loaded and, from its clock read on, the silence computed
  wdCount,    \* the reset count it is about to broadcast
  lastEvent,  \* the HandshakeEvent broadcast last
  rises,      \* history: FALSE -> TRUE flips of confirmed
  falls,      \* history: TRUE -> FALSE flips of confirmed
  ups,        \* history: events with confirmed = TRUE
  downs,      \* history: events with confirmed = FALSE
  lapses,     \* history: times the silence came to exceed Timeout
  stalls      \* history: times the stamp that the watchdog had loaded came to, while
              \* it was about to read the clock and a younger stamp was there

flags   == <<confirmed, bundle, age, resets>>
rxVars  == <<rx, rxMsg, rxAge, rxCount>>
wdVars  == <<wd, wdAge, wdCount>>
history == <<rises, falls, ups, downs, lapses, stalls>>
clientVars == <<flags, rxVars, wdVars, lastEvent, history>>

(***************************************************************************)
(* Times are kept relative: what is stored is how long ago the instant     *)
(* was, saturated just above Timeout, which is all the comparison          *)
(* now - last_inbound > 2000 can tell apart.                               *)
(***************************************************************************)
Never == -1
Ages == {Never} \cup 0 .. (Timeout + 1)
Older(a) == IF a = Never \/ a > Timeout THEN a ELSE a + 1
Lapsed(a) == a > Timeout
One(b) == IF b THEN 1 ELSE 0

(* What socket.recv returns: a datagram shorter than a tag, a PING, a      *)
(* FEATURE_FLAGS with or without the bundle bit, or any other tag.         *)
Inbound == {"short", "ping", "flagsOn", "flagsOff", "other"}
NoMsg == "none"

Event == [confirmed : BOOLEAN, resets : Nat]

TypeOK ==
  /\ confirmed \in BOOLEAN /\ bundle \in BOOLEAN
  /\ age \in Ages /\ rxAge \in Ages /\ wdAge \in Ages
  /\ resets \in Nat /\ rxCount \in Nat /\ wdCount \in Nat
  /\ rx \in {"recv", "store", "swap", "load", "emit", "handle"}
  /\ rxMsg \in Inbound \cup {NoMsg}
  /\ wd \in {"sleep", "load", "clock", "decide", "reset", "clear", "count", "emit", "check"}
  /\ lastEvent \in Event
  /\ rises \in Nat /\ falls \in Nat /\ ups \in Nat /\ downs \in Nat
  /\ lapses \in Nat /\ stalls \in Nat

Init ==
  /\ confirmed = FALSE /\ bundle = FALSE
  /\ age = Never /\ rxAge = Never /\ wdAge = Never
  /\ resets = 0 /\ rxCount = 0 /\ wdCount = 0
  /\ rx = "recv" /\ rxMsg = NoMsg
  /\ wd = "sleep"
  /\ lastEvent = [confirmed |-> FALSE, resets |-> 0]
  /\ rises = 0 /\ falls = 0 /\ ups = 0 /\ downs = 0 /\ lapses = 0 /\ stalls = 0

-----------------------------------------------------------------------------
(* receive_loop *)

(* recv returns m: too short to carry a tag, it is ignored; otherwise the  *)
(* clock is read for the arrival time.                                     *)
RxRecv(m) ==
  /\ rx = "recv"
  /\ IF m = "short"
     THEN UNCHANGED <<rx, rxMsg, rxAge>>
     ELSE rx' = "store" /\ rxMsg' = m /\ rxAge' = 0
  /\ UNCHANGED <<flags, rxCount, wdVars, lastEvent, history>>

(* The arrival time is stored, as old as it has become.                    *)
RxStore ==
  /\ rx = "store"
  /\ age' = rxAge
  /\ rx' = "swap" /\ rxAge' = Never
  /\ UNCHANGED <<confirmed, bundle, resets, rxMsg, rxCount, wdVars, lastEvent, history>>

(* Mutated form: every datagram is taken for a recovery. *)
RxSwapAlwaysEmits ==
  /\ rx = "swap"
  /\ confirmed' = TRUE
  /\ rx' = "load"
  /\ rises' = IF confirmed THEN rises ELSE rises + 1
  /\ UNCHANGED <<bundle, age, resets, rxMsg, rxAge, rxCount, wdVars, lastEvent,
                 falls, ups, downs, lapses, stalls>>

(* handshake_confirmed.swap(true): only a flip is announced. *)
RxSwap ==
  /\ rx = "swap"
  /\ confirmed' = TRUE
  /\ rx' = IF confirmed THEN "handle" ELSE "load"
  /\ rises' = IF confirmed THEN rises ELSE rises + 1
  /\ UNCHANGED <<bundle, age, resets, rxMsg, rxAge, rxCount, wdVars, lastEvent,
                 falls, ups, downs, lapses, stalls>>

(* The event's reset_count is loaded before the event is sent. *)
RxLoad ==
  /\ rx = "load"
  /\ rxCount' = resets
  /\ rx' = "emit"
  /\ UNCHANGED <<flags, rxMsg, rxAge, wdVars, lastEvent, history>>

RxEmit ==
  /\ rx = "emit"
  /\ lastEvent' = [confirmed |-> TRUE, resets |-> rxCount]
  /\ ups' = ups + 1
  /\ rx' = "handle" /\ rxCount' = 0
  /\ UNCHANGED <<flags, rxMsg, rxAge, wdVars, rises, falls, downs, lapses, stalls>>

(* handle_inbound: FEATURE_FLAGS sets the bundle flag, everything else     *)
(* leaves it alone (a PING is echoed, which SlimeSession's network sees).  *)
RxHandle ==
  /\ rx = "handle"
  /\ bundle' = IF rxMsg \in {"flagsOn", "flagsOff"} THEN rxMsg = "flagsOn" ELSE bundle
  /\ rx' = "recv" /\ rxMsg' = NoMsg
  /\ UNCHANGED <<confirmed, age, resets, rxAge, rxCount, wdVars, lastEvent, history>>

-----------------------------------------------------------------------------
(* handshake_watchdog *)

(* last_inbound_ms_unix is loaded.  Until the clock is read, time passes   *)
(* for the stamp loaded (Tick), also when receive_loop stores another.     *)
WdLoad ==
  /\ wd = "load"
  /\ wdAge' = age
  /\ wd' = "clock"
  /\ UNCHANGED <<flags, rxVars, wdCount, lastEvent, history>>

(* The clock is read: from here on the silence is a number.                *)
WdClock ==
  /\ wd = "clock"
  /\ wd' = "decide"
  /\ UNCHANGED <<flags, rxVars, wdAge, wdCount, lastEvent, history>>

(* Mutated form: last_inbound = 0 is taken for the epoch. *)
WdTimedOutSinceEpoch == wdAge = Never \/ Lapsed(wdAge)

(* last_inbound > 0 && now - last_inbound > 2000, on the loaded values. *)
WdTimedOut == wdAge # Never /\ Lapsed(wdAge)

(* handshake_confirmed is loaded on its own, and the decision made. *)
WdDecide ==
  /\ wd = "decide"
  /\ IF confirmed /\ WdTimedOut
     THEN wd' = "reset" /\ UNCHANGED wdAge
     ELSE wd' = "check" /\ wdAge' = Never
  /\ UNCHANGED <<flags, rxVars, wdCount, lastEvent, history>>

WdReset ==
  /\ wd = "reset"
  /\ confirmed' = FALSE
  /\ falls' = IF confirmed THEN falls + 1 ELSE falls
  /\ wd' = "clear" /\ wdAge' = Never
  /\ UNCHANGED <<bundle, age, resets, rxVars, wdCount, lastEvent,
                 rises, ups, downs, lapses, stalls>>

WdClearBundle ==
  /\ wd = "clear"
  /\ bundle' = FALSE
  /\ wd' = "count"
  /\ UNCHANGED <<confirmed, age, resets, rxVars, wdAge, wdCount, lastEvent, history>>

WdCount ==
  /\ wd = "count"
  /\ resets' = resets + 1
  /\ wdCount' = resets + 1
  /\ wd' = "emit"
  /\ UNCHANGED <<confirmed, bundle, age, rxVars, wdAge, lastEvent, history>>

WdEmit ==
  /\ wd = "emit"
  /\ lastEvent' = [confirmed |-> FALSE, resets |-> wdCount]
  /\ downs' = downs + 1
  /\ wd' = "check" /\ wdCount' = 0
  /\ UNCHANGED <<flags, rxVars, wdAge, rises, falls, ups, lapses, stalls>>

(* The tail of the loop body: re-send the handshake while unconfirmed      *)
(* (the datagram is SlimeSession's), then sleep.                           *)
WdCheck ==
  /\ wd = "check"
  /\ wd' = "sleep"
  /\ UNCHANGED <<flags, rxVars, wdAge, wdCount, lastEvent, history>>

-----------------------------------------------------------------------------
(* Half a second passes: the sleep of the watchdog ends, and every stamp   *)
(* still to be compared with the clock grows older: the one stored, the    *)
(* one receive_loop is about to store and the one the watchdog has loaded. *)
(* The last conjunct is the bounds MaxLapses and MaxStalls.                *)
Tick ==
  /\ age' = Older(age)
  /\ rxAge' = IF rx = "store" THEN Older(rxAge) ELSE rxAge
  /\ wdAge' = IF wd = "clock" THEN Older(wdAge) ELSE wdAge
  /\ wd' = IF wd = "sleep" THEN "load" ELSE wd
  /\ lapses' = lapses + One(Lapsed(age') /\ ~Lapsed(age))
                      + One(Lapsed(rxAge') /\ ~Lapsed(rxAge))
  /\ stalls' = stalls + One(Lapsed(wdAge') /\ ~Lapsed(wdAge) /\ ~Lapsed(age'))
  /\ UNCHANGED <<confirmed, bundle, resets, rx, rxMsg, rxCount, wdCount, lastEvent,
                 rises, falls, ups, downs>>
  /\ lapses' <= MaxLapses /\ stalls' <= MaxStalls

RxStep == RxStore \/ RxSwap \/ RxLoad \/ RxEmit \/ RxHandle
WdStep == \/ WdLoad \/ WdClock \/ WdDecide \/ WdReset \/ WdClearBundle
          \/ WdCount \/ WdEmit \/ WdCheck

Next == \/ \E m \in Inbound : RxRecv(m)
        \/ RxStep
        \/ WdStep
        \/ Tick

Spec == Init /\ [][Next]_clientVars

(* Both tasks at rest: waiting for a datagram, and asleep. *)
Quiet == rx = "recv" /\ wd = "sleep"

-----------------------------------------------------------------------------
(* Properties *)

(* Every loss of the connection is counted once, whatever receive_loop     *)
(* does meanwhile: handshake_reset_count is the number of flips to FALSE,  *)
(* short by one only while the watchdog is between clearing the flag and   *)
(* counting (client.rs:604-608).                                           *)
ResetsCountFalls == resets + One(wd \in {"clear", "count"}) = falls

(* Every flip of the flag is announced exactly once, in both directions,   *)
(* even when the two tasks' events overtake each other: a subscriber that  *)
(* counts events knows the flag once both tasks are idle (client.rs:24-28, *)
(* 523-533).                                                               *)
OneEventPerFlip ==
  /\ ups + One(rx \in {"load", "emit"}) = rises
  /\ downs + One(wd \in {"clear", "count", "emit"}) = falls
  /\ rises = falls + One(confirmed)

(* The watchdog acts on what it loaded, which may be stale.  A silence     *)
(* costs at most three resets: one it saw, one more if receive_loop was    *)
(* held up between storing the arrival and confirming it, and one for a    *)
(* recovery between the watchdog's loads.  A reset without a silence takes *)
(* a stall: the stamp loaded passes the timeout before the clock is read,  *)
(* a younger one being there.  Nothing else ends a connection              *)
(* (client.rs:522-527, 591-600).                                           *)
ResetsHaveCauses == falls <= 3 * lapses + stalls

(* How many more resets the silences and the stalls so far can still cause. *)
Credit ==
  3 * One(rx = "store" /\ Lapsed(rxAge)) +
  (IF Lapsed(age)
   THEN (IF confirmed THEN 2 ELSE 1) + One(rx = "swap")
   ELSE One(wd \in {"clock", "decide", "reset"} /\ Lapsed(wdAge)))

(* The inductive invariant behind the three properties above. *)
IInv ==
  /\ TypeOK
  /\ wd = "reset" => confirmed /\ WdTimedOut
  /\ ResetsCountFalls
  /\ OneEventPerFlip
  /\ rx # "store" => rxAge = Never
  /\ falls + Credit <= 3 * lapses + stalls

=============================================================================
