----------------------------- MODULE EventStore -----------------------------
(***************************************************************************)
(* events.py: the typed economic-event envelope and the append-only        *)
(* EventStore, the gate every mutation of the actual timeline passes.      *)
(*                                                                         *)
(* An envelope's deterministic identity (a UUID over timeline, key,        *)
(* revision, type, campaign ordinal and sequence) is the tuple Id; two     *)
(* envelopes with one identity may still differ in model version, body or  *)
(* standing.  SHA-256 and UUIDv5 are taken to be injective, so an          *)
(* integrity hash is the envelope itself.  The store's two dictionaries,   *)
(* _events_by_id and _source_revisions, always hold the same envelopes and *)
(* are two lookups over the one set events.                                *)
(***************************************************************************)
EXTENDS Naturals, FiniteSets

CONSTANTS Keys,      \* source event keys
          Models,    \* model versions
          Types,     \* event types
          Ordinals,  \* campaign ordinals (with the sequence number folded in)
          Bodies,    \* canonical payloads, with the phase, subject and other fields
          Timelines, \* "actual" and the labels of what-if timelines
          Standings, \* "authoritative": current, resolved, and of canon, ruling
                     \* or campaign authority; others miss at least one of these
          MaxRev     \* bound: highest revision an envelope is created with

ASSUME MaxRevAssumption == MaxRev \in Nat \ {0}
ASSUME TimelinesAssumption == "actual" \in Timelines

VARIABLES events,    \* envelopes accepted so far
          reversed   \* identities named by an accepted correction

storeVars == <<events, reversed>>

None == <<>>
Ids == Timelines \X Keys \X (1..MaxRev) \X Types \X Ordinals

Envelope == [timeline : Timelines, model : Models, key : Keys, rev : 1..MaxRev,
             type : Types, ordinal : Ordinals, body : Bodies,
             standing : Standings, reverses : Ids \cup {None}]

Id(e) == <<e.timeline, e.key, e.rev, e.type, e.ordinal>>
\* The chain of revisions of one source event under one model version.
Chain(e) == <<e.timeline, e.model, e.key>>

\* Mutant: corrections may mutate like originals.
MayMutateCorrected(e) == e.timeline = "actual" /\ e.standing = "authoritative"

MayMutateActual(e) ==
  /\ e.timeline = "actual"
  /\ e.standing = "authoritative"
  /\ e.reverses = None

MayReverseActual(e) ==
  /\ e.timeline = "actual"
  /\ e.standing = "authoritative"
  /\ e.reverses # None

ContainsActive(e) == e \in events /\ Id(e) \notin reversed

\* Mutant: the predecessor is looked up without its model version.
PrecedesAnyModel(p, e) ==
  p.timeline = e.timeline /\ p.key = e.key /\ p.rev + 1 = e.rev

Precedes(p, e) == Chain(p) = Chain(e) /\ p.rev + 1 = e.rev

StoreInit ==
  /\ events = {}
  /\ reversed = {}

NewIdentity(e) == \A p \in events : Id(p) # Id(e)

\* Mutant: the slot of a revision includes its event type.
NewRevisionOfType(e) ==
  \A p \in events : Chain(p) = Chain(e) /\ p.type = e.type => p.rev # e.rev

NewRevision(e) == \A p \in events : Chain(p) = Chain(e) => p.rev # e.rev

\* An original reverses nothing; a correction names its predecessor.
Corrects(e) ==
  /\ e.rev = 1 => e.reverses = None
  /\ e.rev > 1 =>
       /\ \E p \in events : Precedes(p, e) /\ e.reverses = Id(p)
       /\ e.timeline = "actual" => MayReverseActual(e)

MarkReversed(e) ==
  reversed' = IF e.reverses = None THEN reversed ELSE reversed \cup {e.reverses}

\* A refused append raises and changes nothing.
AppendEvent(e) ==
  /\ NewIdentity(e) /\ NewRevision(e) /\ Corrects(e)
  /\ events' = events \cup {e}
  /\ MarkReversed(e)

\* A correction of an identity the store has never held is always refused, so
\* only corrections of held ones are offered.
Offered ==
  [timeline : Timelines, model : Models, key : Keys, rev : 1..MaxRev,
   type : Types, ordinal : Ordinals, body : Bodies, standing : Standings,
   reverses : {None} \cup {Id(p) : p \in events}]

StoreNext == \E e \in Offered : AppendEvent(e)

StoreSpec == StoreInit /\ [][StoreNext]_storeVars
-----------------------------------------------------------------------------
TypeOK ==
  /\ events \subseteq Envelope
  /\ reversed \subseteq Ids

Usable(e) == ContainsActive(e) /\ MayMutateActual(e)

(* In every chain of corrections exactly the newest revision is active:     *)
(* each older one was named by its successor and nothing else is switched   *)
(* off, whatever other chains share its key or identity fields.             *)
OnlyTipActive ==
  \A e \in events :
    Id(e) \in reversed <=> \E f \in events : Chain(f) = Chain(e) /\ f.rev > e.rev

(* One source event of the actual timeline can back at most one mutation    *)
(* under a model version: a correction never leaves both the original and   *)
(* its replacement usable (the 100 gp + 110 gp case of the ledger review).  *)
OneUsablePerSource ==
  \A e, f \in events :
    Usable(e) /\ Usable(f) /\ Chain(e) = Chain(f) => e = f

(* Actual history is switched off only by an authoritative correction.      *)
AuthoritativeReversal ==
  \A e \in events :
    e.timeline = "actual" /\ Id(e) \in reversed =>
      \E f \in events : f.reverses = Id(e) /\ MayReverseActual(f)

(* Once an accepted envelope has lost the power to mutate actual state it   *)
(* never gets it back, and no later revision of its chain acquires it.      *)
CorrectionIsFinal ==
  [][\A e \in events :
       ~ Usable(e) /\ e.timeline = "actual" =>
         \A f \in events' :
           Chain(f) = Chain(e) /\ f.rev >= e.rev => ~ Usable(f)']_storeVars
=============================================================================
