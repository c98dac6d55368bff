--------------------------- MODULE ActualTimeline ---------------------------
(***************************************************************************)
(* stockflow.py on the "actual" timeline: the event authority that an      *)
(* opening snapshot and every advance need, over the EventStore to which   *)
(* corrections keep being appended.  advance() is a pure function: nothing *)
(* remembers the newest snapshot, so a caller may advance any snapshot it  *)
(* holds, also twice.                                                      *)
(*                                                                         *)
(* What an order changes in the stock is StockFlow's; here an order is the *)
(* payload it must share with its authorising event.  A payload names the  *)
(* subject entity and everything else the code compares with the event     *)
(* (phase, recipe or route, site, quantity, priority).                     *)
(***************************************************************************)
EXTENDS EventStore

CONSTANTS EngineModel,  \* the economy model's version
          Modes,        \* simulation modes an entity may be assigned to
          MaxOrders,    \* bound: orders in one plan
          MaxSnapshots  \* bound: snapshots sealed

VARIABLES snapshots     \* actual snapshots sealed so far

timelineVars == <<events, reversed, snapshots>>

ASSUME ActualAssumption == EngineModel \in Models

OpeningType == "stock.opening"
OrderTypes == {"stock.production", "stock.shipment", "stock.consumption"}
Entities == {b.entity : b \in Bodies}

\* Needs may also be met for an entity that is only a cost center.
AllowedModes(type) ==
  IF type = "stock.consumption" THEN {"stock_flow", "cost_center"} ELSE {"stock_flow"}

\* An order as the caller submits it; equal orders differ in their tag.
Order == [tag : 1..MaxOrders, type : OrderTypes, body : Bodies, by : Ids]

\* A snapshot: its date, the events of applied_event_refs and, for the
\* properties, the orders executed on the way to it with their events.
Snapshot == [ordinal : Ordinals, opening : Bodies, applied : SUBSET Envelope,
             done : SUBSET [order : Order, event : Envelope]]

\* What both entry points ask of an event that is to change actual state.
Authorizes(e, ordinal) ==
  /\ ContainsActive(e)
  /\ MayMutateActual(e)
  /\ e.model = EngineModel
  /\ e.ordinal = ordinal

Distinct(S) == \A e, f \in S : Id(e) = Id(f) => e = f

\* initial_snapshot on the actual timeline.
Open(ordinal, body, bundle) ==
  /\ \A e \in bundle : Authorizes(e, ordinal)
  /\ Cardinality(bundle) = 1
  /\ \A e \in bundle : e.type = OpeningType /\ e.body = body
  /\ snapshots' = snapshots \cup
       {[ordinal |-> ordinal, opening |-> body, applied |-> bundle, done |-> {}]}
  /\ UNCHANGED storeVars

\* require_authority for one order.
Authority(order, bundle, modes) ==
  /\ order.by \in {Id(e) : e \in bundle}
  /\ \A e \in bundle : Id(e) = order.by =>
       /\ e.type = order.type
       /\ e.body = order.body
       /\ modes[e.body.entity] \in AllowedModes(order.type)

Executions(orders, bundle) ==
  {d \in [order : orders, event : bundle] : d.order.by = Id(d.event)}

ParentStands(s) == \A e \in s.applied : ContainsActive(e)

\* Mutant: the parent's events are only compared, not looked up again.
ContinuesStale(s, bundle) ==
  {Id(e) : e \in s.applied} \cap {Id(e) : e \in bundle} = {}

\* The parent's events still stand and none of them is spent again.
Continues(s, bundle) ==
  /\ {Id(e) : e \in s.applied} \cap {Id(e) : e \in bundle} = {}
  /\ ParentStands(s)

\* Mutant: one event may be cited by several orders.
EachCited(orders, bundle) == {Id(e) : e \in bundle} = {o.by : o \in orders}

\* Orders and events pair off: none is cited twice, none is left over.
PairOff(orders, bundle) ==
  /\ \A o, q \in orders : o.by = q.by => o = q
  /\ {Id(e) : e \in bundle} = {o.by : o \in orders}

\* advance of an actual snapshot with a plan of orders for a later date.
Advance(s, ordinal, orders, bundle, modes) ==
  /\ ordinal > s.ordinal
  /\ Distinct(bundle)
  /\ Continues(s, bundle)
  /\ \A e \in bundle : Authorizes(e, ordinal)
  /\ \A o \in orders : Authority(o, bundle, modes)
  /\ PairOff(orders, bundle)
  /\ snapshots' = snapshots \cup
       {[s EXCEPT !.ordinal = ordinal,
                  !.applied = @ \cup bundle,
                  !.done = @ \cup Executions(orders, bundle)]}
  /\ UNCHANGED storeVars

AcceptEvent(e) == AppendEvent(e) /\ UNCHANGED snapshots

AInit == StoreInit /\ snapshots = {}

\* Callers put any events of the store in a plan and order what they like of
\* the payloads these carry, also the same thing twice.
ANext ==
  \/ \E e \in Offered : AcceptEvent(e)
  \/ /\ Cardinality(snapshots) < MaxSnapshots
     /\ \E bundle \in {B \in SUBSET events : Cardinality(B) <= MaxOrders} :
          \/ \E n \in Ordinals, b \in Bodies : Open(n, b, bundle)
          \/ \E s \in snapshots, n \in Ordinals,
                modes \in [Entities -> Modes],
                orders \in SUBSET [tag : 1..MaxOrders, type : OrderTypes, body : Bodies,
                                   by : {Id(e) : e \in bundle}] :
               Cardinality(orders) <= MaxOrders /\ Advance(s, n, orders, bundle, modes)

ASpec == AInit /\ [][ANext]_timelineVars
-----------------------------------------------------------------------------
ATypeOK == TypeOK /\ snapshots \subseteq Snapshot

(* Along the history behind a snapshot every event is spent on exactly one  *)
(* order, and every order has an event of its own that describes it.        *)
OneEventPerMutation ==
  \A s \in snapshots :
    /\ \A d, m \in s.done : Id(d.event) = Id(m.event) => d = m
    /\ \A d \in s.done : d.event.body = d.order.body /\ d.event.type = d.order.type
    /\ \A e \in s.applied :
         e.type = OpeningType \/ \E d \in s.done : d.event = e

(* No source event of the campaign changes actual stock twice on the way to *)
(* a snapshot, neither as itself nor as a later correction of itself.       *)
SourceSpentOnce ==
  \A s \in snapshots : \A e, f \in s.applied : e.key = f.key => e = f

(* Once an event behind a snapshot has been corrected, that history is at   *)
(* its end: it is never extended, and no further event revives it.          *)
CorrectionEndsHistory ==
  [][\A s \in snapshots : ~ ParentStands(s) =>
       /\ \A t \in snapshots' \ snapshots : ~ (s.applied \subseteq t.applied)
       /\ ~ ParentStands(s)']_timelineVars
=============================================================================
