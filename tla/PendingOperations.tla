------------------------- MODULE PendingOperations --------------------------
(***************************************************************************)
(* whole_economy.py and the boot command of whole_economy_cli.py: campaign *)
(* operations that stay silent until the story that was played opens their *)
(* gate.  A boot is given a file of structured events, or none; it matches *)
(* the events against the operations sealed in the workspace and shows     *)
(* those whose gate is open, each with the events that opened it.          *)
(*                                                                         *)
(* An occurrence is what a gate names: subject, type and location.  The    *)
(* campaign records events, also ones that are only planned or not canon,  *)
(* and may record one anew, as played.  Which of them are in a file is the *)
(* caller's choice at every boot: a boot knows nothing of earlier ones.    *)
(* Decisions, briefings and texts are left out.                            *)
(***************************************************************************)
EXTENDS Naturals, FiniteSets

CONSTANTS Operations,
          Occurrences,
          Required,    \* operation |-> occurrences its gate asks for
          EventIds,
          MaxEvents    \* bound: events ever recorded

VARIABLES recorded,    \* events that are in some file of the campaign
          boots        \* boots that answered, each with what it was given
                       \* and showed; the code keeps no such record

operationVars == <<recorded, boots>>

\* validate_scenario: a gate asks for something.
OperationAccepted(o) == Required[o] # {} /\ Required[o] \subseteq Occurrences

ASSUME OperationAssumption ==
  /\ DOMAIN Required = Operations /\ \A o \in Operations : OperationAccepted(o)
  /\ EventIds \subseteq Nat
-----------------------------------------------------------------------------
Event == [id : EventIds, of : Occurrences, canonical : BOOLEAN, played : BOOLEAN]

\* validate_played_context: no identity is given to two events.
ContextAccepted(events) == \A e, f \in events : e.id = f.id => e = f

\* Mutant: an event that is planned but not played closes the gate again.
UnlessPlanned(events, r) ==
  {e \in events : /\ e.of = r /\ e.canonical /\ e.played
                  /\ \A f \in events : f.of = r => f.played}

\* _matching_gate_events: the events that count for an occurrence.
Candidates(events, r) == {e \in events : e.of = r /\ e.canonical /\ e.played}

\* Of several candidates the one with the least identity is shown.
Evidence(events, r) ==
  CHOOSE e \in Candidates(events, r) :
    \A f \in Candidates(events, r) : e.id <= f.id

\* surface_pending_operations: the open operations, with their evidence.
Surfaced(events) ==
  [o \in {o \in Operations : \A r \in Required[o] : Candidates(events, r) # {}}
     |-> [r \in Required[o] |-> Evidence(events, r)]]

\* The campaign records an event.
Record(e) ==
  /\ Cardinality(recorded) < MaxEvents
  /\ recorded' = recorded \cup {e}
  /\ UNCHANGED boots

\* A boot without a file is one with no events.
Boot(events) ==
  /\ ContextAccepted(events)
  /\ boots' = boots \cup {[given |-> events, shown |-> Surfaced(events)]}
  /\ UNCHANGED recorded

\* The file gives an identity twice: an error, and nothing is shown.
BootRefused(events) == ~ContextAccepted(events) /\ UNCHANGED operationVars

Init == recorded = {} /\ boots = {}

Next ==
  \/ \E e \in Event : Record(e)
  \/ \E events \in SUBSET recorded : Boot(events) \/ BootRefused(events)

Spec == Init /\ [][Next]_operationVars
-----------------------------------------------------------------------------
(* Whatever the campaign recorded and whichever events each boot was given,  *)
(* an operation is shown only on given events that were played, are canon    *)
(* and match its gate ("silent_until_matched"); and of two boots the one     *)
(* that was given all the events of the other, and perhaps more, hides       *)
(* nothing the other shows, and replaces evidence only by an event the other *)
(* was not given.                                                            *)
MoreEventsHideNothing ==
  \A a \in boots :
    /\ \A o \in DOMAIN a.shown : \A r \in Required[o] :
         LET e == a.shown[o][r]
         IN e \in a.given /\ e.played /\ e.canonical /\ e.of = r
    /\ \A b \in boots : a.given \subseteq b.given =>
         \A o \in DOMAIN a.shown :
           /\ o \in DOMAIN b.shown
           /\ \A r \in Required[o] :
                b.shown[o][r] \in a.given => b.shown[o][r] = a.shown[o][r]
=============================================================================
