------------------------------- MODULE UiEvents -------------------------------
(***************************************************************************)
(* What the window learns of the registered devices.  A registration is    *)
(* broadcast and forwarded as an event; thirty times a second the trackers *)
(* are sent, once a second their biases and latencies.  The page asks for  *)
(* the list of devices as it is mounted, and registers its listeners at    *)
(* the same time; answers, events and registrations are calls of their own *)
(* and overtake each other, only events keep their order.                  *)
(***************************************************************************)
EXTENDS Naturals, Sequences

CONSTANTS
  UiDevs,
  UiBusCap,     \* registrations the broadcast channel keeps (16)
  UiQueueCap,   \* bound: events on their way to the page
  UiMaxChanges  \* bound: registrations and departures while the page is up

ASSUME UiAssumption ==
  UiBusCap \in Nat \ {0} /\ UiQueueCap \in Nat \ {0} /\ UiMaxChanges \in Nat

VARIABLES
  uiRegistry,   \* the devices AppState has
  uiBus,        \* registrations not forwarded yet
  uiMetas,      \* what the emitters took of the registry, in a step before they send
  uiEvents,     \* events on their way
  uiListens,    \* kinds of events the page has a listener for
  uiList,       \* list_devices: asked, answered or done
  uiAnswer,     \* and the answer
  uiDevices, uiTrackers, uiRates, \* the page's stores, the last of biases and latencies
  uiChanges

page == <<uiListens, uiList, uiAnswer, uiDevices, uiTrackers, uiRates>>
uiStateVars == <<uiRegistry, uiBus, uiMetas, uiEvents, page, uiChanges>>

Kinds == {"discovered", "trackers", "rates"}

Emitters == Kinds \ {"discovered"}

UiTypeOK ==
  /\ uiRegistry \subseteq UiDevs
  /\ uiBus \in Seq(UiDevs) /\ Len(uiBus) <= UiBusCap
  /\ uiMetas \in [Emitters -> SUBSET SUBSET UiDevs]
  /\ uiEvents \in Seq([kind : Kinds, devs : SUBSET UiDevs]) /\ Len(uiEvents) <= UiQueueCap
  /\ uiListens \subseteq Kinds
  /\ uiList \in {"asked", "answered", "done"} /\ uiAnswer \subseteq UiDevs
  /\ uiDevices \subseteq UiDevs /\ uiTrackers \subseteq UiDevs /\ uiRates \subseteq UiDevs
  /\ uiChanges \in 0..UiMaxChanges

UiInit ==
  /\ uiRegistry \in SUBSET UiDevs
  /\ uiBus = << >> /\ uiMetas = [e \in Emitters |-> {}] /\ uiEvents = << >>
  /\ uiListens = {} /\ uiList = "asked" /\ uiAnswer = {}
  /\ uiDevices = {} /\ uiTrackers = {} /\ uiRates = {}
  /\ uiChanges = 0

-----------------------------------------------------------------------------
(* The program *)
Change == uiChanges < UiMaxChanges /\ uiChanges' = uiChanges + 1

(* Where the receiver lags, the oldest registration is gone. *)
UiRegister(d) ==
  /\ Change
  /\ uiRegistry' = uiRegistry \cup {d}
  /\ uiBus' = Append(IF Len(uiBus) = UiBusCap THEN Tail(uiBus) ELSE uiBus, d)
  /\ UNCHANGED <<uiMetas, uiEvents, page>>

UiLeave(d) ==
  /\ d \in uiRegistry /\ Change
  /\ uiRegistry' = uiRegistry \ {d}
  /\ UNCHANGED <<uiBus, uiMetas, uiEvents, page>>

(* An event nobody listens to is not sent. *)
Emitted(kind, devs) ==
  /\ Len(uiEvents) < UiQueueCap
  /\ uiEvents' = IF kind \in uiListens THEN Append(uiEvents, [kind |-> kind, devs |-> devs])
                                       ELSE uiEvents

Forward ==
  /\ uiBus # << >>
  /\ Emitted("discovered", {Head(uiBus)})
  /\ uiBus' = Tail(uiBus)
  /\ UNCHANGED <<uiRegistry, uiMetas, page, uiChanges>>

(* device_metadata_snapshot, before the quaternions, rates and the rest.   *)
TakeMetas(e) ==
  /\ uiMetas[e] = {}
  /\ uiMetas' = [uiMetas EXCEPT ![e] = {uiRegistry}]
  /\ UNCHANGED <<uiRegistry, uiBus, uiEvents, page, uiChanges>>

(* A tracker that left since then is sent with nothing but defaults.       *)
EmitTrackers ==
  /\ \E metas \in uiMetas["trackers"] : Emitted("trackers", metas)
  /\ uiMetas' = [uiMetas EXCEPT !["trackers"] = {}]
  /\ UNCHANGED <<uiRegistry, uiBus, page, uiChanges>>

(* Biases and latencies of those that are still there, if there are any.   *)
EmitRates ==
  /\ \E metas \in uiMetas["rates"] :
       IF metas \cap uiRegistry = {} THEN UNCHANGED uiEvents
                                     ELSE Emitted("rates", metas \cap uiRegistry)
  /\ uiMetas' = [uiMetas EXCEPT !["rates"] = {}]
  /\ UNCHANGED <<uiRegistry, uiBus, page, uiChanges>>

ListDevices ==
  /\ uiList = "asked"
  /\ uiList' = "answered" /\ uiAnswer' = uiRegistry
  /\ UNCHANGED <<uiRegistry, uiBus, uiMetas, uiEvents, uiListens, uiDevices, uiTrackers,
                 uiRates, uiChanges>>

-----------------------------------------------------------------------------
(* The page *)
Listen(kind) ==
  /\ kind \notin uiListens
  /\ uiListens' = uiListens \cup {kind}
  /\ UNCHANGED <<uiRegistry, uiBus, uiMetas, uiEvents, uiList, uiAnswer, uiDevices,
                 uiTrackers, uiRates, uiChanges>>

SetAll ==
  /\ uiList = "answered"
  /\ uiList' = "done" /\ uiDevices' = uiAnswer
  /\ UNCHANGED <<uiRegistry, uiBus, uiMetas, uiEvents, uiListens, uiAnswer, uiTrackers,
                 uiRates, uiChanges>>

(* The store of trackers as those of biases and latencies. *)
ShownMerged(e) == IF e.kind = "trackers" THEN uiTrackers \cup e.devs ELSE uiTrackers

(* What the trackers' store holds after an event: what it says.            *)
Shown(e) == IF e.kind = "trackers" THEN e.devs ELSE uiTrackers

(* The other stores are added to.                                          *)
Added(e, kind, store) == IF e.kind = kind THEN store \cup e.devs ELSE store

PageReceives ==
  /\ uiEvents # << >>
  /\ uiEvents' = Tail(uiEvents)
  /\ uiTrackers' = Shown(Head(uiEvents))
  /\ uiDevices' = Added(Head(uiEvents), "discovered", uiDevices)
  /\ uiRates' = Added(Head(uiEvents), "rates", uiRates)
  /\ UNCHANGED <<uiRegistry, uiBus, uiMetas, uiListens, uiList, uiAnswer, uiChanges>>

TrackerTask == TakeMetas("trackers") \/ EmitTrackers
RatesTask   == TakeMetas("rates") \/ EmitRates
Calls       == ListDevices \/ SetAll \/ \E kind \in Kinds : Listen(kind)

UiNext ==
  \/ \E d \in UiDevs : UiRegister(d) \/ UiLeave(d)
  \/ Forward \/ TrackerTask \/ RatesTask \/ Calls \/ PageReceives

(* The tasks, the calls and the page go on; devices need not.  Emitting    *)
(* never waits, and only the bound on the queue disables it at times.      *)
UiFairness ==
  /\ SF_uiStateVars(Forward) /\ SF_uiStateVars(TrackerTask) /\ SF_uiStateVars(RatesTask)
  /\ WF_uiStateVars(Calls) /\ WF_uiStateVars(PageReceives)

UiSpec == UiInit /\ [][UiNext]_uiStateVars /\ UiFairness

-----------------------------------------------------------------------------
(* Once devices come and go no more, the trackers shown are those that are *)
(* registered: one that left before its data was read, or while an event   *)
(* was under way, does not stay on the page.                               *)
TrackersFollow == <>[](uiTrackers = uiRegistry)

(* supervisor_boot.rs:46-47: a registration that the page missed is made   *)
(* up for by list_devices.                                                 *)
DevicesMirrored == <>[](uiRegistry \subseteq uiDevices)
=============================================================================
