--------------------------- MODULE RecordsProofs ----------------------------
(***************************************************************************)
(* The records that only grow, for any values of their constants.          *)
(*                                                                         *)
(* The EventStore keeps one active tip per chain of corrections and a      *)
(* corrected event never becomes usable again.  The journal book and the   *)
(* actual timeline only append to it; for any chart, dates and plans the   *)
(* book holds one entry per source, the timeline spends a source once, and *)
(* a correction freezes the one and ends the other for good.               *)
(*                                                                         *)
(* For any number of processes, months, operations and events the months'  *)
(* directory keeps a complete history, the catalog keeps the rows it has   *)
(* reported, further events hide no operation from a boot, and a complete  *)
(* census never lacks a page that was in the collection all the time.      *)
(*                                                                         *)
(* For any number of processes, receipts, businesses and months the        *)
(* business store's rows are those of its receipts, and the store          *)
(* implements ArtifactLog.                                                 *)
(***************************************************************************)
EXTENDS JournalBook, ActualTimeline, Workspaces, BusinessStore,
        FiniteSetTheorems, WellFoundedInduction, TLAPS
-----------------------------------------------------------------------------
(* The event store, the journal book and the actual timeline.               *)

UniqueIds == \A e, f \in events : Id(e) = Id(f) => e = f

UniqueSlots == \A e, f \in events : Chain(e) = Chain(f) /\ e.rev = f.rev => e = f

\* An original reverses nothing; a correction reverses its predecessor, and
\* on the actual timeline has the authority to.
Linked ==
  \A e \in events :
    /\ e.rev = 1 => e.reverses = None
    /\ e.rev > 1 => /\ \E p \in events : Precedes(p, e) /\ e.reverses = Id(p)
                    /\ e.timeline = "actual" => MayReverseActual(e)

\* A chain has no gaps below any of its revisions.
NoGaps ==
  \A e \in events : \A r \in 1..e.rev :
    \E f \in events : Chain(f) = Chain(e) /\ f.rev = r

ReversedByLink == reversed = {e.reverses : e \in events} \ {None}

IInv ==
  /\ TypeOK /\ UniqueIds /\ UniqueSlots /\ Linked /\ NoGaps /\ ReversedByLink
  /\ OnlyTipActive

LEMMA IdIsAnId == \A e \in Envelope : Id(e) \in Ids /\ Id(e) # None
BY DEF Envelope, Id, Ids, None

LEMMA OfferedTyped ==
  ASSUME events \subseteq Envelope
  PROVE  Offered \subseteq Envelope
BY IdIsAnId DEF Offered, Envelope

LEMMA RevisionsNatural == \A e \in Envelope : e.rev \in Nat /\ e.rev >= 1
BY MaxRevAssumption DEF Envelope

(* The invariant holds of the empty store. *)
LEMMA InitIInv == StoreInit => IInv
<1> SUFFICES ASSUME StoreInit PROVE IInv
  OBVIOUS
<1>1. events = {} /\ reversed = {}
  BY DEF StoreInit
<1>2. QED
  BY <1>1 DEF IInv, TypeOK, UniqueIds, UniqueSlots, Linked, NoGaps, ReversedByLink,
              OnlyTipActive

(* Every accepted append keeps it. *)
LEMMA AppendIInv ==
  ASSUME IInv, NEW n \in Envelope, AppendEvent(n)
  PROVE  IInv'
<1> USE DEF IInv
<1>1. events' = events \cup {n}
  BY DEF AppendEvent, NewIdentity, NewRevision, Corrects, MarkReversed
<1>2. n \notin events /\ \A p \in events : Id(p) # Id(n)
  BY DEF AppendEvent, NewIdentity, NewRevision, Corrects, MarkReversed
<1>3. \A p \in events : Chain(p) = Chain(n) => p.rev # n.rev
  BY DEF AppendEvent, NewIdentity, NewRevision, Corrects, MarkReversed
<1>4. n.rev \in Nat /\ n.rev >= 1 /\ \A e \in events : e.rev \in Nat /\ e.rev >= 1
  BY RevisionsNatural DEF TypeOK
<1>5. CASE n.rev = 1
  <2>1. n.reverses = None /\ reversed' = reversed
    BY <1>5 DEF AppendEvent, NewIdentity, NewRevision, Corrects, MarkReversed
  <2>2. TypeOK'
    BY <1>1, <2>1 DEF TypeOK
  <2>3. UniqueIds'
    BY <1>1, <1>2 DEF UniqueIds
  <2>4. UniqueSlots'
    BY <1>1, <1>3 DEF UniqueSlots
  <2>5. Linked'
    BY <1>1, <1>5, <2>1 DEF Linked
  <2>6. NoGaps'
    BY <1>1, <1>4, <1>5 DEF NoGaps
  <2>7. ReversedByLink'
    BY <1>1, <2>1 DEF ReversedByLink
  <2>8. Id(n) \notin reversed
    <3>1. SUFFICES ASSUME NEW e \in events, e.reverses = Id(n) PROVE FALSE
      BY DEF ReversedByLink
    <3>2. e.rev > 1
      BY <3>1, <1>4, IdIsAnId DEF Linked
    <3>3. QED
      BY <3>1, <3>2, <1>2 DEF Linked
  <2>9. \A f \in events : Chain(f) = Chain(n) => ~ (f.rev > n.rev)
    BY <1>3, <1>4, <1>5 DEF NoGaps
  <2>10. OnlyTipActive'
    BY <1>1, <1>4, <1>5, <2>1, <2>8, <2>9 DEF OnlyTipActive
  <2>11. QED
    BY <2>2, <2>3, <2>4, <2>5, <2>6, <2>7, <2>10
<1>6. CASE n.rev > 1
  <2>1. PICK p \in events : Precedes(p, n) /\ n.reverses = Id(p)
    BY <1>6 DEF AppendEvent, NewIdentity, NewRevision, Corrects, MarkReversed
  <2>2. Id(p) \in Ids /\ Id(p) # None
    BY IdIsAnId DEF TypeOK
  <2>3. Chain(p) = Chain(n) /\ n.rev = p.rev + 1
    BY <2>1 DEF Precedes
  <2>4. reversed' = reversed \cup {Id(p)}
    BY <2>1, <2>2 DEF AppendEvent, NewIdentity, NewRevision, Corrects, MarkReversed
  <2>5. TypeOK'
    BY <1>1, <2>2, <2>4 DEF TypeOK
  <2>6. UniqueIds'
    BY <1>1, <1>2 DEF UniqueIds
  <2>7. UniqueSlots'
    BY <1>1, <1>3 DEF UniqueSlots
  <2>8. Linked'
    <3>1. n.timeline = "actual" => MayReverseActual(n)
      BY <1>6 DEF AppendEvent, NewIdentity, NewRevision, Corrects, MarkReversed
    <3>2. QED
      BY <1>1, <1>6, <2>1, <3>1 DEF Linked
  <2>9. NoGaps'
    <3>1. SUFFICES ASSUME NEW r \in 1..n.rev
                   PROVE  \E f \in events' : Chain(f) = Chain(n) /\ f.rev = r
      BY <1>1 DEF NoGaps
    <3>2. CASE r = n.rev
      BY <3>2, <1>1
    <3>3. CASE r # n.rev
      <4>1. r \in 1..p.rev
        BY <3>3, <2>3, <1>4
      <4>2. PICK f \in events : Chain(f) = Chain(p) /\ f.rev = r
        BY <4>1 DEF NoGaps
      <4>3. QED
        BY <4>2, <2>3, <1>1
    <3>4. QED
      BY <3>2, <3>3
  <2>10. ReversedByLink'
    BY <1>1, <2>1, <2>2, <2>4 DEF ReversedByLink
  <2>11. Id(n) \notin reversed'
    <3>1. Id(n) # Id(p)
      BY <1>2
    <3>2. SUFFICES ASSUME NEW e \in events, e.reverses = Id(n) PROVE FALSE
      BY <2>4, <3>1 DEF ReversedByLink
    <3>3. e.rev > 1
      BY <3>2, <1>4, IdIsAnId DEF Linked
    <3>4. QED
      BY <3>2, <3>3, <1>2 DEF Linked
  <2>12. \A f \in events : Chain(f) = Chain(n) => ~ (f.rev > n.rev)
    <3>1. SUFFICES ASSUME NEW f \in events, Chain(f) = Chain(n), f.rev > n.rev PROVE FALSE
      OBVIOUS
    <3>2. n.rev \in 1..f.rev
      BY <3>1, <1>4
    <3>3. QED
      BY <3>1, <3>2, <1>3 DEF NoGaps
  <2>13. OnlyTipActive'
    <3>1. SUFFICES ASSUME NEW e \in events'
                   PROVE  Id(e) \in reversed' <=>
                            \E f \in events' : Chain(f) = Chain(e) /\ f.rev > e.rev
      BY DEF OnlyTipActive
    <3>2. CASE e = n
      BY <3>2, <1>1, <1>4, <2>11, <2>12
    <3>3. CASE e \in events
      <4>1. CASE e = p
        BY <4>1, <1>1, <1>4, <2>3, <2>4
      <4>2. CASE e # p
        <5>1. Id(e) \in reversed' <=> Id(e) \in reversed
          BY <3>3, <4>2, <2>4 DEF UniqueIds
        <5>2. Chain(n) = Chain(e) /\ n.rev > e.rev => Chain(p) = Chain(e) /\ p.rev > e.rev
          BY <3>3, <4>2, <2>3, <1>4 DEF UniqueSlots
        <5>3. QED
          BY <3>3, <1>1, <5>1, <5>2 DEF OnlyTipActive
      <4>3. QED
        BY <4>1, <4>2
    <3>4. QED
      BY <3>2, <3>3, <1>1
  <2>14. QED
    BY <2>5, <2>6, <2>7, <2>8, <2>9, <2>10, <2>13
<1>7. QED
  BY <1>4, <1>5, <1>6

LEMMA NextIInv == IInv /\ [StoreNext]_storeVars => IInv'
<1> SUFFICES ASSUME IInv, [StoreNext]_storeVars PROVE IInv'
  OBVIOUS
<1>1. CASE StoreNext
  <2>1. PICK n \in Offered : AppendEvent(n)
    BY <1>1 DEF StoreNext
  <2>2. n \in Envelope
    BY OfferedTyped DEF IInv, TypeOK
  <2>3. QED
    BY <2>1, <2>2, AppendIInv
<1>2. CASE UNCHANGED storeVars
  BY <1>2 DEF storeVars, IInv, TypeOK, UniqueIds, UniqueSlots, Linked, NoGaps,
              ReversedByLink, OnlyTipActive
<1>3. QED
  BY <1>1, <1>2

(* The inductive invariant holds throughout. *)
THEOREM Invariant == StoreSpec => []IInv
<1>1. QED
  BY InitIInv, NextIInv, PTL DEF StoreSpec

(* TypeOK and OnlyTipActive are conjuncts of the inductive invariant: the   *)
(* store's contents are envelopes, and a chain's newest revision is its     *)
(* only active one.                                                         *)
THEOREM TypeCorrect == StoreSpec => []TypeOK
<1>1. IInv => TypeOK
  BY DEF IInv
<1>2. QED
  BY <1>1, Invariant, PTL

THEOREM TipActive == StoreSpec => []OnlyTipActive
<1>1. IInv => OnlyTipActive
  BY DEF IInv
<1>2. QED
  BY <1>1, Invariant, PTL

(* One source event backs at most one mutation: of two usable envelopes of  *)
(* a chain the older one would have been reversed.                          *)
THEOREM OneUsable == StoreSpec => []OneUsablePerSource
<1>1. IInv => OneUsablePerSource
  <2>1. SUFFICES ASSUME IInv, NEW e \in events, NEW f \in events,
                        Usable(e), Usable(f), Chain(e) = Chain(f)
                 PROVE  e = f
    BY DEF OneUsablePerSource
  <2>2. e.rev \in Nat /\ f.rev \in Nat
    BY <2>1, RevisionsNatural DEF IInv, TypeOK
  <2>3. ~ (e.rev > f.rev) /\ ~ (f.rev > e.rev)
    BY <2>1 DEF IInv, OnlyTipActive, Usable, ContainsActive
  <2>4. QED
    BY <2>1, <2>2, <2>3 DEF IInv, UniqueSlots
<1>2. QED
  BY <1>1, Invariant, PTL

(* What switches an actual event off is an authoritative correction of it.  *)
THEOREM ReversalAuthorised == StoreSpec => []AuthoritativeReversal
<1>1. IInv => AuthoritativeReversal
  <2>1. SUFFICES ASSUME IInv, NEW e \in events, e.timeline = "actual", Id(e) \in reversed
                 PROVE  \E f \in events : f.reverses = Id(e) /\ MayReverseActual(f)
    BY DEF AuthoritativeReversal
  <2>2. PICK f \in events : f.reverses = Id(e) /\ Id(e) # None
    BY <2>1 DEF IInv, ReversedByLink
  <2>3. f.rev > 1
    BY <2>1, <2>2, RevisionsNatural DEF IInv, TypeOK, Linked
  <2>4. PICK p \in events : Precedes(p, f) /\ f.reverses = Id(p)
    BY <2>1, <2>3 DEF IInv, Linked
  <2>5. p = e
    BY <2>1, <2>2, <2>4 DEF IInv, UniqueIds
  <2>6. f.timeline = "actual"
    BY <2>1, <2>4, <2>5 DEF Precedes, Chain
  <2>7. QED
    BY <2>1, <2>2, <2>3, <2>6 DEF IInv, Linked
<1>2. QED
  BY <1>1, Invariant, PTL

(* An actual envelope that cannot mutate now never can, nor can anything    *)
(* later in its chain.                                                      *)
THEOREM Final == StoreSpec => CorrectionIsFinal
<1> DEFINE Lost == \A e \in events :
       ~ Usable(e) /\ e.timeline = "actual" =>
         \A f \in events' : Chain(f) = Chain(e) /\ f.rev >= e.rev => ~ Usable(f)'
<1>1. IInv /\ IInv' /\ [StoreNext]_storeVars => [Lost]_storeVars
  <2>1. SUFFICES ASSUME IInv, IInv', StoreNext,
                        NEW e \in events, ~ Usable(e), e.timeline = "actual",
                        NEW f \in events', Chain(f) = Chain(e), f.rev >= e.rev
                 PROVE  ~ Usable(f)'
    BY DEF Lost
  <2>2. e \in events' /\ reversed \subseteq reversed'
    BY <2>1 DEF StoreNext, AppendEvent, NewIdentity, NewRevision, Corrects, MarkReversed
  <2>3. e.rev \in Nat /\ f.rev \in Nat /\ e.rev >= 1
    BY <2>1, <2>2, RevisionsNatural DEF IInv, TypeOK
  <2>4. CASE f.rev = e.rev
    <3>1. f = e
      BY <2>1, <2>2, <2>4 DEF IInv, UniqueSlots
    <3>2. QED
      BY <2>1, <2>2, <3>1 DEF Usable, ContainsActive
  <2>5. CASE f.rev > e.rev
    <3>1. f.rev > 1
      BY <2>3, <2>5
    <3>2. PICK p \in events' : f.reverses = Id(p)
      BY <2>1, <3>1 DEF IInv, Linked
    <3>3. f.reverses # None
      BY <2>1, <3>2, IdIsAnId DEF IInv, TypeOK
    <3>4. QED
      BY <3>3 DEF Usable, MayMutateActual
  <2>6. QED
    BY <2>1, <2>3, <2>4, <2>5
<1>2. QED
  BY <1>1, Invariant, PTL DEF StoreSpec, CorrectionIsFinal

-----------------------------------------------------------------------------
\* What every posted entry rests on.
Sourced ==
  \A j \in book :
    j.source \in events /\ MayMutateActual(j.source) /\ j.source.model = CurrentModel

OnePerIdentity == \A i, j \in book : Id(i.source) = Id(j.source) => i = j

BookInv == IInv /\ Sourced /\ OnePerIdentity

(* Seen from the store, the journal's steps are appends or nothing. *)
THEOREM BookKeepsStore == JSpec => StoreSpec
<1>1. JInit => StoreInit
  BY DEF JInit
<1>2. [JNext]_bookVars => [StoreNext]_storeVars
  <2>1. SUFFICES ASSUME [JNext]_bookVars PROVE [StoreNext]_storeVars
    OBVIOUS
  <2>2. CASE \E e \in Offered : Accept(e)
    BY <2>2 DEF Accept, StoreNext
  <2>3. CASE \E j \in Submissions : Post(j)
    BY <2>3 DEF Post, storeVars
  <2>4. CASE \E j \in book : Render(j)
    BY <2>4 DEF Render, storeVars
  <2>5. CASE UNCHANGED bookVars
    BY <2>5 DEF bookVars, storeVars
  <2>6. QED
    BY <2>1, <2>2, <2>3, <2>4, <2>5 DEF JNext
<1>3. QED
  BY <1>1, <1>2, PTL DEF JSpec, StoreSpec

LEMMA PostBookInv ==
  ASSUME BookInv, NEW j \in Submissions, Post(j)
  PROVE  Sourced' /\ OnePerIdentity'
<1>1. book' = book \cup {j} /\ UNCHANGED <<events, reversed>>
  BY DEF Post
<1>2. j.source \in events /\ MayMutateActual(j.source) /\ j.source.model = CurrentModel
  BY DEF Post, Valid, ContainsActive
<1>3. Sourced'
  BY <1>1, <1>2 DEF BookInv, Sourced
<1>4. OnePerIdentity'
  BY <1>1 DEF BookInv, OnePerIdentity, Post
<1>5. QED
  BY <1>3, <1>4

LEMMA NextBookInv == BookInv /\ IInv' /\ [JNext]_bookVars => BookInv'
<1> SUFFICES ASSUME BookInv, IInv', [JNext]_bookVars PROVE Sourced' /\ OnePerIdentity'
  BY DEF BookInv
<1>1. CASE \E e \in Offered : Accept(e)
  BY <1>1 DEF Accept, AppendEvent, NewIdentity, NewRevision, Corrects, MarkReversed, BookInv, Sourced, OnePerIdentity
<1>2. CASE \E j \in Submissions : Post(j)
  BY <1>2, PostBookInv
<1>3. CASE \E j \in book : Render(j)
  BY <1>3 DEF Render, BookInv, Sourced, OnePerIdentity
<1>4. CASE UNCHANGED bookVars
  BY <1>4 DEF bookVars, BookInv, Sourced, OnePerIdentity
<1>5. QED
  BY <1>1, <1>2, <1>3, <1>4 DEF JNext

(* The entries' inductive invariant, over the store's own. *)
THEOREM BookInvariant == JSpec => []BookInv
<1>1. JInit /\ IInv => BookInv
  BY DEF JInit, BookInv, Sourced, OnePerIdentity
<1>2. QED
  BY <1>1, NextBookInv, BookKeepsStore, Invariant, PTL DEF JSpec

(* One entry per source event: two entries of one key are revisions of one  *)
(* chain; the later of two revisions reverses something and cannot be       *)
(* posted, so they are the same revision, the same envelope and one entry.  *)
THEOREM OneEntry == JSpec => []OneEntryPerSource
<1>1. BookInv => OneEntryPerSource
  <2>1. SUFFICES ASSUME BookInv, NEW i \in book, NEW j \in book,
                        i.source.key = j.source.key
                 PROVE  i = j
    BY DEF OneEntryPerSource
  <2>2. Chain(i.source) = Chain(j.source)
    BY <2>1 DEF BookInv, Sourced, MayMutateActual, Chain
  <2>3. \A k \in book : k.source.rev = 1
    <3>1. SUFFICES ASSUME NEW k \in book, k.source.rev # 1 PROVE FALSE
      OBVIOUS
    <3>2. k.source \in events /\ k.source.reverses = None
      BY <2>1, <3>1 DEF BookInv, Sourced, MayMutateActual
    <3>3. k.source.rev > 1
      BY <2>1, <3>1, <3>2, RevisionsNatural DEF BookInv, IInv, TypeOK
    <3>4. PICK p \in events : k.source.reverses = Id(p)
      BY <2>1, <3>2, <3>3 DEF BookInv, IInv, Linked
    <3>5. QED
      BY <2>1, <3>2, <3>4, IdIsAnId DEF BookInv, IInv, TypeOK
  <2>4. i.source = j.source
    BY <2>1, <2>2, <2>3 DEF BookInv, Sourced, IInv, UniqueSlots
  <2>5. QED
    BY <2>1, <2>4 DEF BookInv, OnePerIdentity
<1>2. QED
  BY <1>1, BookInvariant, PTL

(* A book with a corrected source neither changes nor exports, and the      *)
(* correction cannot be taken back.                                         *)
THEOREM Freezes == JSpec => CorrectionFreezesBook
<1> DEFINE Frozen == ~ AllSourcesActive =>
                       UNCHANGED <<book, exported>> /\ ~ AllSourcesActive'
<1>1. BookInv /\ [JNext]_bookVars => [Frozen]_bookVars
  <2>1. SUFFICES ASSUME BookInv, JNext, ~ AllSourcesActive PROVE Frozen
    OBVIOUS
  <2>2. PICK e \in Offered : Accept(e)
    BY <2>1 DEF JNext, Post, Render
  <2>3. UNCHANGED <<book, exported>> /\ reversed \subseteq reversed'
    BY <2>2 DEF Accept, AppendEvent, NewIdentity, NewRevision, Corrects, MarkReversed
  <2>4. PICK j \in book : ~ ContainsActive(j.source)
    BY <2>1 DEF AllSourcesActive
  <2>5. Id(j.source) \in reversed
    BY <2>1, <2>4 DEF BookInv, Sourced, ContainsActive
  <2>6. ~ AllSourcesActive'
    BY <2>3, <2>5 DEF AllSourcesActive, ContainsActive
  <2>7. QED
    BY <2>3, <2>6
<1>2. QED
  BY <1>1, BookInvariant, PTL DEF JSpec, CorrectionFreezesBook

-----------------------------------------------------------------------------
\* The events behind a snapshot: accepted, fit to mutate actual state under
\* the engine's model, one per identity, none from after the snapshot.
Founded ==
  \A s \in snapshots :
    /\ \A e \in s.applied : e \in events /\ MayMutateActual(e) /\ e.model = EngineModel
    /\ Distinct(s.applied)

\* The orders behind a snapshot are executed by distinct events of it.
Executed ==
  \A s \in snapshots :
    /\ \A d \in s.done :
         /\ d.event \in s.applied
         /\ d.event.body = d.order.body /\ d.event.type = d.order.type
    /\ \A d, m \in s.done : Id(d.event) = Id(m.event) => d = m
    /\ \A e \in s.applied : e.type = OpeningType \/ \E d \in s.done : d.event = e

ActualInv == IInv /\ ATypeOK /\ Founded /\ Executed

LEMMA OnlyOriginals ==
  ASSUME IInv, NEW e \in events, MayMutateActual(e)
  PROVE  e.rev = 1
<1>1. SUFFICES ASSUME e.rev # 1 PROVE FALSE
  OBVIOUS
<1>2. e.rev > 1
  BY <1>1, RevisionsNatural DEF IInv, TypeOK
<1>3. PICK p \in events : e.reverses = Id(p)
  BY <1>2 DEF IInv, Linked
<1>4. QED
  BY <1>3, IdIsAnId DEF IInv, TypeOK, MayMutateActual

(* Seen from the store, the timeline's steps are appends or nothing. *)
THEOREM TimelineKeepsStore == ASpec => StoreSpec
<1>1. AInit => StoreInit
  BY DEF AInit
<1>2. [ANext]_timelineVars => [StoreNext]_storeVars
  BY DEF ANext, AcceptEvent, Open, Advance, Continues, PairOff, StoreNext, timelineVars, storeVars
<1>3. QED
  BY <1>1, <1>2, PTL DEF ASpec, StoreSpec

LEMMA OpenInv ==
  ASSUME ActualInv, NEW n \in Ordinals, NEW b \in Bodies, NEW bundle, Open(n, b, bundle)
  PROVE  ATypeOK' /\ Founded' /\ Executed'
<1> DEFINE t == [ordinal |-> n, opening |-> b, applied |-> bundle, done |-> {}]
<1>1. snapshots' = snapshots \cup {t} /\ UNCHANGED <<events, reversed>>
  BY DEF Open, storeVars
<1>2. \A e \in bundle : e \in events /\ MayMutateActual(e) /\ e.model = EngineModel
  BY DEF Open, Authorizes, ContainsActive
<1>3. Distinct(bundle)
  BY <1>2 DEF Distinct, ActualInv, IInv, UniqueIds
<1>4. \A e \in bundle : e.type = OpeningType
  BY DEF Open
<1>5. Founded'
  BY <1>1, <1>2, <1>3 DEF ActualInv, Founded, Distinct
<1>6. Executed'
  BY <1>1, <1>4 DEF ActualInv, Executed
<1>7. t \in Snapshot
  BY <1>2 DEF Snapshot, ActualInv, IInv, TypeOK
<1>8. QED
  BY <1>1, <1>5, <1>6, <1>7 DEF ActualInv, ATypeOK, TypeOK

LEMMA AdvanceInv ==
  ASSUME ActualInv, NEW s \in snapshots, NEW n \in Ordinals, NEW orders \in SUBSET Order,
         NEW bundle, NEW modes, Advance(s, n, orders, bundle, modes)
  PROVE  ATypeOK' /\ Founded' /\ Executed'
<1> DEFINE new == Executions(orders, bundle)
           t == [s EXCEPT !.ordinal = n, !.applied = @ \cup bundle, !.done = @ \cup new]
<1>1. snapshots' = snapshots \cup {t} /\ UNCHANGED <<events, reversed>>
  BY DEF Advance, Continues, PairOff, storeVars
<1>2. t.applied = s.applied \cup bundle /\ t.done = s.done \cup new
  BY DEF ActualInv, ATypeOK, Snapshot
<1>3. \A e \in bundle : e \in events /\ MayMutateActual(e) /\ e.model = EngineModel
  BY DEF Advance, Continues, PairOff, Authorizes, ContainsActive
<1>4. \A e \in s.applied, f \in bundle : Id(e) # Id(f)
  BY DEF Advance, Continues, PairOff
<1>5. Distinct(t.applied)
  BY <1>2, <1>4 DEF Advance, Continues, PairOff, Distinct, ActualInv, Founded
<1>6. Founded'
  BY <1>1, <1>2, <1>3, <1>5 DEF ActualInv, Founded, Distinct
<1>7. \A d \in new : /\ d.order \in orders /\ d.event \in bundle
                     /\ d.order.by = Id(d.event) /\ d = [order |-> d.order, event |-> d.event]
  BY DEF Executions
<1>8. \A d \in new : d.event.body = d.order.body /\ d.event.type = d.order.type
  BY <1>7 DEF Advance, Continues, PairOff, Authority
<1>9. \A d, m \in new : Id(d.event) = Id(m.event) => d = m
  <2>1. SUFFICES ASSUME NEW d \in new, NEW m \in new, Id(d.event) = Id(m.event)
                 PROVE  d = m
    OBVIOUS
  <2>2. d.event = m.event
    BY <1>7, <2>1 DEF Advance, Continues, PairOff, Distinct
  <2>3. d.order = m.order
    BY <1>7, <2>1 DEF Advance, Continues, PairOff
  <2>4. QED
    BY <1>7, <2>2, <2>3
<1>10. \A d \in s.done, m \in new : Id(d.event) # Id(m.event)
  BY <1>4, <1>7 DEF ActualInv, Executed
<1>11. \A e \in bundle : \E d \in new : d.event = e
  <2>1. SUFFICES ASSUME NEW e \in bundle PROVE \E d \in new : d.event = e
    OBVIOUS
  <2>2. PICK o \in orders : o.by = Id(e)
    BY DEF Advance, Continues, PairOff
  <2>3. [order |-> o, event |-> e] \in new
    BY <2>2 DEF Executions
  <2>4. QED
    BY <2>3
<1>12. Executed'
  <2>1. \A d \in t.done : /\ d.event \in t.applied
                          /\ d.event.body = d.order.body /\ d.event.type = d.order.type
    BY <1>2, <1>7, <1>8 DEF ActualInv, Executed
  <2>2. \A d, m \in t.done : Id(d.event) = Id(m.event) => d = m
    BY <1>2, <1>9, <1>10 DEF ActualInv, Executed
  <2>3. \A e \in t.applied : e.type = OpeningType \/ \E d \in t.done : d.event = e
    BY <1>2, <1>11 DEF ActualInv, Executed
  <2>4. QED
    BY <1>1, <2>1, <2>2, <2>3 DEF ActualInv, Executed
<1>13. t \in Snapshot
  <2>1. s \in Snapshot /\ bundle \subseteq Envelope
    BY <1>3 DEF ActualInv, ATypeOK, TypeOK
  <2>2. new \subseteq [order : Order, event : Envelope]
    BY <2>1 DEF Executions
  <2>3. QED
    BY <2>1, <2>2 DEF Snapshot
<1>14. QED
  BY <1>1, <1>6, <1>12, <1>13 DEF ActualInv, ATypeOK, TypeOK

LEMMA NextActualInv == ActualInv /\ IInv' /\ [ANext]_timelineVars => ActualInv'
<1> SUFFICES ASSUME ActualInv, IInv', [ANext]_timelineVars PROVE ATypeOK' /\ Founded' /\ Executed'
  BY DEF ActualInv
<1>1. CASE \E e \in Offered : AcceptEvent(e)
  BY <1>1 DEF AcceptEvent, AppendEvent, NewIdentity, NewRevision, Corrects, MarkReversed, ActualInv, ATypeOK, IInv, Founded, Executed
<1>2. ASSUME NEW bundle \in SUBSET events,
             \E n \in Ordinals, b \in Bodies : Open(n, b, bundle)
      PROVE  ATypeOK' /\ Founded' /\ Executed'
  BY <1>2, OpenInv
<1>3. ASSUME NEW bundle \in SUBSET events, NEW s \in snapshots, NEW n \in Ordinals,
             NEW modes,
             NEW orders \in SUBSET [tag : 1..MaxOrders, type : OrderTypes, body : Bodies,
                                   by : {Id(e) : e \in bundle}],
             Advance(s, n, orders, bundle, modes)
      PROVE  ATypeOK' /\ Founded' /\ Executed'
  <2>1. {Id(e) : e \in bundle} \subseteq Ids
    BY IdIsAnId DEF ActualInv, IInv, TypeOK
  <2>2. orders \in SUBSET Order
    BY <2>1 DEF Order
  <2>3. QED
    BY <1>3, <2>2, AdvanceInv
<1>4. CASE UNCHANGED timelineVars
  BY <1>4 DEF timelineVars, ActualInv, ATypeOK, IInv, Founded, Executed
<1>5. QED
  BY <1>1, <1>2, <1>3, <1>4 DEF ANext

(* The snapshots' inductive invariant, over the store's own. *)
THEOREM ActualInvariant == ASpec => []ActualInv
<1>1. AInit /\ IInv => ActualInv
  BY DEF AInit, ActualInv, ATypeOK, IInv, Founded, Executed
<1>2. QED
  BY <1>1, NextActualInv, TimelineKeepsStore, Invariant, PTL DEF ASpec

(* Every mutation behind a snapshot has an event of its own that describes  *)
(* it, and every event but the opening has been spent.                      *)
THEOREM OneEvent == ASpec => []OneEventPerMutation
<1>1. ActualInv => OneEventPerMutation
  BY DEF ActualInv, Executed, OneEventPerMutation
<1>2. QED
  BY <1>1, ActualInvariant, PTL

(* No source event is spent twice behind a snapshot: only originals are fit *)
(* to mutate actual state, and a chain has one original.                    *)
THEOREM SpentOnce == ASpec => []SourceSpentOnce
<1>1. ActualInv => SourceSpentOnce
  <2>1. SUFFICES ASSUME ActualInv, NEW s \in snapshots, NEW e \in s.applied,
                        NEW f \in s.applied, e.key = f.key
                 PROVE  e = f
    BY DEF SourceSpentOnce
  <2>2. e \in events /\ f \in events /\ MayMutateActual(e) /\ MayMutateActual(f)
    BY <2>1 DEF ActualInv, Founded
  <2>3. Chain(e) = Chain(f)
    BY <2>1, <2>2 DEF ActualInv, Founded, MayMutateActual, Chain
  <2>4. e.rev = f.rev
    BY <2>1, <2>2, OnlyOriginals DEF ActualInv
  <2>5. QED
    BY <2>1, <2>2, <2>3, <2>4 DEF ActualInv, IInv, UniqueSlots
<1>2. QED
  BY <1>1, ActualInvariant, PTL

(* A history one of whose events was corrected is never extended again: a   *)
(* child would have to rest on events that are all active.                  *)
THEOREM HistoryEnds == ASpec => CorrectionEndsHistory
<1> DEFINE Ended == \A s \in snapshots : ~ ParentStands(s) =>
       /\ \A t \in snapshots' \ snapshots : ~ (s.applied \subseteq t.applied)
       /\ ~ ParentStands(s)'
<1>1. ActualInv /\ [ANext]_timelineVars => [Ended]_timelineVars
  <2>1. SUFFICES ASSUME ActualInv, ANext, NEW s \in snapshots, ~ ParentStands(s)
                 PROVE  /\ \A t \in snapshots' \ snapshots : ~ (s.applied \subseteq t.applied)
                        /\ ~ ParentStands(s)'
    BY DEF Ended
  <2>2. PICK e \in s.applied : e \in events /\ Id(e) \in reversed
    BY <2>1 DEF ParentStands, ContainsActive, ActualInv, Founded
  <2>3. reversed \subseteq reversed'
    BY <2>1 DEF ANext, AcceptEvent, AppendEvent, NewIdentity, NewRevision, Corrects, MarkReversed, Open, Advance, Continues, PairOff, storeVars
  <2>4. ~ ParentStands(s)'
    BY <2>2, <2>3 DEF ParentStands, ContainsActive
  <2>5. ASSUME NEW t \in snapshots' \ snapshots PROVE e \notin t.applied
    <3>1. CASE \E f \in Offered : AcceptEvent(f)
      BY <3>1, <2>5 DEF AcceptEvent
    <3>2. ASSUME NEW n, NEW b, NEW bundle, Open(n, b, bundle) PROVE e \notin t.applied
      <4>1. t.applied = bundle
        BY <3>2, <2>5 DEF Open
      <4>2. QED
        BY <3>2, <4>1, <2>2 DEF Open, Authorizes, ContainsActive
    <3>3. ASSUME NEW p \in snapshots, NEW n, NEW orders, NEW bundle, NEW modes,
                 Advance(p, n, orders, bundle, modes)
          PROVE  e \notin t.applied
      <4>1. t.applied = p.applied \cup bundle
        BY <3>3, <2>1, <2>5 DEF Advance, Continues, PairOff, ActualInv, ATypeOK, Snapshot
      <4>2. QED
        BY <3>3, <4>1, <2>2 DEF Advance, Continues, PairOff, ParentStands, Authorizes, ContainsActive
    <3>4. QED
      BY <2>1, <3>1, <3>2, <3>3 DEF ANext
  <2>6. QED
    BY <2>2, <2>4, <2>5
<1>2. QED
  BY <1>1, ActualInvariant, PTL DEF ASpec, CorrectionEndsHistory
-----------------------------------------------------------------------------
(* The months' directory and catalog, the operations and the census.        *)

Receipt == [after : Nat, rows : SUBSET Urls, last : Nat]

\* Between its cursors a receipt holds every URL that was never gone.
Covers(r) == \A u \in Urls : r.after < u /\ u <= r.last /\ u \notin r.rows => u \in gone

\* Past a cursor there is no URL that was never gone.
NothingPast(cursor) == \A u \in Urls : cursor < u => u \in gone

Typed ==
  /\ method \in {"counted", "manifest"}
  /\ live \subseteq Urls
  /\ begun \in Nat
  /\ files \in Seq(Receipt)
  /\ attempt \in [stage : {"idle", "reading", "closing"}, limit : Nat,
                  start : SUBSET Urls, read : Seq(Receipt)]

\* Since the first attempt all that is missing was seen to be, and a running
\* attempt has filed all it has read.
Watched ==
  /\ begun = 0 => gone = {}
  /\ begun > 0 => Urls \ live \subseteq gone
  /\ attempt.stage # "idle" =>
       begun > 0 /\ attempt.limit > 0 /\ Len(attempt.read) <= Len(files)

FilesCover == \A i \in DOMAIN files : Covers(files[i])

\* A counting attempt that is about to close has read up to the end, and
\* evidence was taken of such an attempt.
EndReached ==
  /\ method = "counted" /\ attempt.stage = "closing" => NothingPast(Cursor(attempt.read))
  /\ method = "counted" /\ proof # NoProof => NothingPast(proof.after)
  /\ method = "manifest" /\ proof # NoProof => Urls \ proof.ids \subseteq gone

CensusInv == Typed /\ Watched /\ FilesCover /\ EndReached
-----------------------------------------------------------------------------
(* A nonempty set of positions has a least one. *)
LEMMA LeastPosition ==
  ASSUME NEW S \in SUBSET Nat, S # {}
  PROVE  \E i \in S : \A j \in S : i <= j
<1> DEFINE Less == {pair \in Nat \X Nat : pair[1] < pair[2]}
<1>1. IsWellFoundedOn(Less, Nat)
  BY NatLessThanWellFounded, Zenon DEF OpToRel
<1>2. PICK i \in S : \A j \in S : <<j, i>> \notin Less
  <2> HIDE DEF Less
  <2> QED  BY <1>1, WFMin
<1>3. \A j \in S : ~ (j < i)
  BY <1>2
<1> QED
  BY <1>3

(* The pages of a chain cover everything up to its cursor. *)
LEMMA ChainCovers ==
  ASSUME Typed, FilesCover, Chained(files),
         NEW u \in Urls, u <= Cursor(files), u \notin Rows(files)
  PROVE  u \in gone
<1> DEFINE S == {i \in DOMAIN files : u <= files[i].last}
<1>1. u \in Nat /\ u > 0
  BY CensusAssumption
<1>2. /\ Len(files) \in Nat /\ DOMAIN files = 1..Len(files)
      /\ \A i \in 1..Len(files) : files[i] \in Receipt
  BY DEF Typed
<1>3. Len(files) \in S
  BY <1>1, <1>2 DEF Cursor, CursorAt
<1>4. S \in SUBSET Nat /\ S # {}
  BY <1>2, <1>3
<1>5. PICK i \in S : \A j \in S : i <= j
  <2> HIDE DEF S
  <2> QED  BY <1>4, LeastPosition
<1>6. i \in 1..Len(files) /\ files[i] \in Receipt
  BY <1>2, <1>5
<1>7. files[i].after < u
  <2>1. CASE i = 1
    BY <2>1, <1>1, <1>2, <1>6 DEF Chained, CursorAt
  <2>2. CASE i # 1
    <3>1. i - 1 \in DOMAIN files /\ i - 1 \notin S
      BY <2>2, <1>2, <1>5, <1>6
    <3>2. files[i - 1].last \in Nat
      BY <3>1, <1>2 DEF Receipt
    <3> QED
      BY <3>1, <3>2, <2>2, <1>1, <1>2, <1>6 DEF Chained, CursorAt
  <2> QED
    BY <2>1, <2>2
<1>8. u \notin files[i].rows
  BY <1>2, <1>6 DEF Rows
<1> QED
  BY <1>2, <1>5, <1>6, <1>7, <1>8 DEF FilesCover, Covers
-----------------------------------------------------------------------------
\* What a query's answer, filed as a receipt, adds to the invariant.
ReceiptOf(rows, last) == [after |-> Cursor(attempt.read), rows |-> rows, last |-> last]

(* The cursor of a sequence of receipts is a number. *)
LEMMA CursorTyped ==
  ASSUME NEW receipts \in Seq(Receipt)
  PROVE  Cursor(receipts) \in Nat
<1> DEFINE n == Len(receipts)
<1>1. n \in Nat /\ \A i \in 1..n : receipts[i] \in Receipt
  OBVIOUS
<1>2. CASE n = 0
  BY <1>2 DEF Cursor, CursorAt
<1>3. CASE n # 0
  <2>1. receipts[n] \in Receipt
    BY <1>1, <1>3
  <2> QED
    BY <2>1, <1>1, <1>3 DEF Cursor, CursorAt, Receipt
<1> QED
  BY <1>2, <1>3

(* A page holds all of the collection between its cursors. *)
LEMMA PageCovers ==
  ASSUME Typed, Watched, attempt.stage = "reading",
         NEW rows \in SUBSET live, IsPage(rows, Cursor(attempt.read), attempt.limit),
         NEW last \in rows \cup {Cursor(attempt.read)}, \A u \in rows : u <= last
  PROVE  ReceiptOf(rows, last) \in Receipt /\ Covers(ReceiptOf(rows, last))
<1>1. Cursor(attempt.read) \in Nat
  BY CursorTyped DEF Typed
<1>2. rows \subseteq Urls /\ Urls \subseteq Nat
  BY CensusAssumption DEF Typed
<1>3. ReceiptOf(rows, last) \in Receipt
  BY <1>1, <1>2 DEF ReceiptOf, Receipt
<1>4. ASSUME NEW u \in Urls, Cursor(attempt.read) < u, u <= last, u \notin rows
      PROVE  u \in gone
  <2>1. last \in rows
    BY <1>1, <1>2, <1>4
  <2>2. u \notin live
    <3> SUFFICES ASSUME u \in live PROVE FALSE
      OBVIOUS
    <3>1. u \in Following(Cursor(attempt.read)) \ rows
      BY <1>4 DEF Following
    <3>2. last < u
      BY <2>1, <3>1 DEF IsPage
    <3> QED
      BY <3>2, <1>2, <1>4, <2>1
  <2> QED
    BY <2>2 DEF Watched
<1> QED
  BY <1>3, <1>4 DEF Covers, ReceiptOf

(* An empty page is the end of the collection. *)
LEMMA EmptyPageEnds ==
  ASSUME Typed, Watched, attempt.stage = "reading",
         IsPage({}, Cursor(attempt.read), attempt.limit)
  PROVE  NothingPast(Cursor(attempt.read))
<1>1. Cardinality({}) = 0
  BY FS_EmptySet
<1>2. Following(Cursor(attempt.read)) = {}
  BY <1>1 DEF IsPage, Watched
<1> QED
  BY <1>2 DEF Following, NothingPast, Watched

(* Filing a receipt under the next number keeps a sequence of receipts. *)
LEMMA FiledTyped ==
  ASSUME files \in Seq(Receipt), NEW r \in Receipt,
         NEW n \in Nat \ {0}, n <= Len(files) + 1
  PROVE  /\ Filed(r, n) \in Seq(Receipt)
         /\ Len(Filed(r, n)) >= n
         /\ \A i \in DOMAIN Filed(r, n) :
              Filed(r, n)[i] = r \/ (i \in DOMAIN files /\ Filed(r, n)[i] = files[i])
<1> DEFINE m == IF n > Len(files) THEN n ELSE Len(files)
<1>1. Len(files) \in Nat /\ DOMAIN files = 1..Len(files) /\ m \in Nat /\ m >= n
  OBVIOUS
<1>2. Filed(r, n) = [i \in 1..m |-> IF i = n THEN r ELSE files[i]]
  BY DEF Filed
<1>3. \A i \in 1..m : i # n => i \in DOMAIN files /\ files[i] \in Receipt
  BY <1>1
<1>4. Filed(r, n) \in [1..m -> Receipt]
  BY <1>2, <1>3
<1>5. Filed(r, n) \in Seq(Receipt) /\ Len(Filed(r, n)) = m
  BY <1>1, <1>4
<1>6. ASSUME NEW i \in 1..m
      PROVE  Filed(r, n)[i] = r \/ (i \in DOMAIN files /\ Filed(r, n)[i] = files[i])
  BY <1>2, <1>3
<1>7. DOMAIN Filed(r, n) = 1..m
  BY <1>2
<1> QED
  BY <1>1, <1>5, <1>6, <1>7
-----------------------------------------------------------------------------
\* An attempt ends, whether it leaves evidence or not.
Ended == attempt' = NoAttempt /\ UNCHANGED <<method, live, gone, begun, files>>

(* The end of an attempt disturbs at most what is known of the evidence. *)
LEMMA EndedKept ==
  ASSUME CensusInv, Ended, EndReached'
  PROVE  CensusInv'
<1>1. Typed' /\ Watched' /\ FilesCover'
  BY DEF CensusInv, Ended, NoAttempt, Typed, Watched, FilesCover, Covers
<1> QED
  BY <1>1 DEF CensusInv

LEMMA CensusStart == CensusInit => CensusInv
BY DEF CensusInit, CensusInv, Typed, Watched, FilesCover, EndReached, NoAttempt

(* Every step keeps the invariant. *)
LEMMA CensusStep == CensusInv /\ [CensusNext]_censusVars => CensusInv'
<1> SUFFICES ASSUME CensusInv, [CensusNext]_censusVars PROVE CensusInv'
  OBVIOUS
<1>1. ASSUME NEW u \in Urls, Edit(u) PROVE CensusInv'
  <2>1. gone \subseteq gone' /\ UNCHANGED <<method, attempt, begun, files, proof>>
    BY <1>1 DEF Edit
  <2>2. Typed'
    BY <1>1 DEF Edit, CensusInv, Typed
  <2>3. Watched'
    BY <1>1, <2>1 DEF Edit, CensusInv, Watched
  <2>4. FilesCover' /\ EndReached'
    BY <2>1 DEF CensusInv, FilesCover, Covers, EndReached, NothingPast, Cursor, CursorAt
  <2> QED
    BY <2>2, <2>3, <2>4 DEF CensusInv
<1>2. ASSUME NEW limit \in Limits, Begin(limit) PROVE CensusInv'
  <2>1. /\ attempt' = [stage |-> "reading", limit |-> limit, start |-> live, read |-> <<>>]
        /\ begun' = begun + 1
        /\ begun = 0 => gone' = Urls \ live
        /\ begun # 0 => gone' = gone
        /\ UNCHANGED <<method, live, files, proof>>
    BY <1>2 DEF Begin, NoAttempt
  <2>2. limit \in Nat /\ limit > 0
    BY CensusAssumption
  <2>3. Typed'
    BY <2>1, <2>2 DEF CensusInv, Typed
  <2>4. Watched'
    BY <2>1, <2>2 DEF CensusInv, Typed, Watched
  <2>5. gone \subseteq gone'
    BY <2>1 DEF CensusInv, Watched
  <2>6. FilesCover' /\ EndReached'
    BY <2>1, <2>5 DEF CensusInv, FilesCover, Covers, EndReached, NothingPast
  <2> QED
    BY <2>3, <2>4, <2>6 DEF CensusInv
<1>3. CASE ReadPage
  <2>1. PICK rows \in SUBSET live :
          /\ IsPage(rows, Cursor(attempt.read), attempt.limit)
          /\ \E last \in rows \cup {Cursor(attempt.read)} :
               /\ \A u \in rows : u <= last
               /\ last = Cursor(attempt.read) => rows = {}
               /\ files' = Filed(ReceiptOf(rows, last), Len(attempt.read) + 1)
               /\ attempt' = [attempt EXCEPT
                    !.read = Append(@, ReceiptOf(rows, last)),
                    !.stage = IF Exhausted(rows, Len(attempt.read) + 1)
                              THEN "closing" ELSE "reading"]
    BY <1>3, Zenon DEF ReadPage, ReceiptOf
  <2>2. PICK last \in rows \cup {Cursor(attempt.read)} :
          /\ \A u \in rows : u <= last
          /\ files' = Filed(ReceiptOf(rows, last), Len(attempt.read) + 1)
          /\ attempt' = [attempt EXCEPT
               !.read = Append(@, ReceiptOf(rows, last)),
               !.stage = IF Exhausted(rows, Len(attempt.read) + 1)
                         THEN "closing" ELSE "reading"]
    BY <2>1
  <2>3. attempt.stage = "reading" /\ UNCHANGED <<method, live, gone, begun, proof>>
    BY <1>3 DEF ReadPage
  <2> DEFINE receipt == ReceiptOf(rows, last)
             n == Len(attempt.read) + 1
  <2>4. receipt \in Receipt /\ Covers(receipt)
    BY <2>1, <2>2, <2>3, PageCovers DEF CensusInv
  <2>5. n \in Nat \ {0} /\ n <= Len(files) + 1 /\ attempt.read \in Seq(Receipt)
    BY <2>3 DEF CensusInv, Typed, Watched
  <2>6. /\ files' \in Seq(Receipt) /\ Len(files') >= n
        /\ \A i \in DOMAIN files' :
             files'[i] = receipt \/ (i \in DOMAIN files /\ files'[i] = files[i])
    <3> HIDE DEF receipt, n
    <3>1. files' = Filed(receipt, n)
      BY <2>2 DEF receipt, n
    <3> QED
      BY <3>1, <2>4, <2>5, FiledTyped DEF CensusInv, Typed
  <2>7. /\ attempt'.read = Append(attempt.read, receipt)
        /\ attempt'.read \in Seq(Receipt) /\ Len(attempt'.read) = n
        /\ attempt'.stage \in {"reading", "closing"}
        /\ attempt'.stage = "closing" => Exhausted(rows, n)
        /\ attempt' \in [stage : {"idle", "reading", "closing"}, limit : Nat,
                         start : SUBSET Urls, read : Seq(Receipt)]
        /\ attempt'.limit = attempt.limit
    <3> DEFINE next == IF Exhausted(rows, n) THEN "closing" ELSE "reading"
    <3>1. Append(attempt.read, receipt) \in Seq(Receipt)
          /\ Len(Append(attempt.read, receipt)) = n
      BY <2>4, <2>5
    <3>2. attempt' = [attempt EXCEPT !.read = Append(@, receipt), !.stage = next]
      BY <2>2
    <3>3. next \in {"reading", "closing"} /\ (next = "closing" => Exhausted(rows, n))
      OBVIOUS
    <3> HIDE DEF next, receipt, n
    <3> QED
      BY <3>1, <3>2, <3>3 DEF CensusInv, Typed
  <2>8. Typed'
    BY <2>3, <2>6, <2>7 DEF CensusInv, Typed
  <2>9. Watched'
    BY <2>3, <2>6, <2>7 DEF CensusInv, Watched
  <2>10. FilesCover'
    BY <2>3, <2>4, <2>6 DEF CensusInv, FilesCover, Covers
  <2>11. EndReached'
    <3>1. ASSUME method = "counted", attempt'.stage = "closing"
          PROVE  NothingPast(Cursor(attempt'.read))
      <4>1. rows = {} /\ last = Cursor(attempt.read)
        BY <3>1, <2>2, <2>7 DEF Exhausted
      <4>2. NothingPast(Cursor(attempt.read))
        BY <4>1, <2>1, <2>3, EmptyPageEnds DEF CensusInv
      <4>3. Cursor(attempt'.read) = receipt.last
        BY <2>4, <2>5, <2>7 DEF Cursor, CursorAt
      <4> QED
        BY <4>1, <4>2, <4>3 DEF ReceiptOf
    <3> QED
      BY <3>1, <2>3 DEF CensusInv, EndReached, NothingPast
  <2> QED
    BY <2>8, <2>9, <2>10, <2>11 DEF CensusInv
<1>4. CASE CloseByCount
  <2>1. /\ proof'.after = Cursor(attempt.read) /\ NothingPast(Cursor(attempt.read))
        /\ method = "counted"
    BY <1>4 DEF CloseByCount, CensusInv, EndReached
  <2>2. Ended
    BY <1>4 DEF CloseByCount, Ended
  <2>3. EndReached'
    BY <1>4, <2>1, <2>2 DEF Ended, EndReached, NothingPast, NoAttempt
  <2> QED
    BY <2>2, <2>3, EndedKept
<1>5. CASE CloseByManifest
  <2>1. proof'.ids = live /\ method = "manifest" /\ Urls \ live \subseteq gone
    BY <1>5 DEF CloseByManifest, CensusInv, Watched
  <2>2. Ended
    BY <1>5 DEF CloseByManifest, Ended
  <2>3. EndReached'
    BY <1>5, <2>1, <2>2 DEF Ended, EndReached, NothingPast, NoAttempt
  <2> QED
    BY <2>2, <2>3, EndedKept
<1>6. CASE Abandon
  <2>1. Ended /\ proof' = proof
    BY <1>6 DEF Abandon, Ended
  <2>2. EndReached'
    BY <2>1 DEF CensusInv, Ended, EndReached, NothingPast, NoAttempt
  <2> QED
    BY <2>1, <2>2, EndedKept
<1>7. CASE UNCHANGED censusVars
  BY <1>7 DEF censusVars, CensusInv, Typed, Watched, FilesCover, Covers, EndReached,
              NothingPast, Cursor, CursorAt
<1> QED
  BY <1>1, <1>2, <1>3, <1>4, <1>5, <1>6, <1>7 DEF CensusNext

LEMMA InvImpliesKept == CensusInv => LastingPagesKept
<1> SUFFICES ASSUME CensusInv, Made, Complete,
                    NEW u \in Urls, u \notin Rows(files)
             PROVE  u \in gone
  BY DEF LastingPagesKept, Removed
<1>1. CASE method = "counted"
  <2>1. proof # NoProof /\ proof.after = Cursor(files) /\ Chained(files)
    BY <1>1 DEF Made, Complete, CountsReconcile
  <2>2. NothingPast(Cursor(files))
    BY <1>1, <2>1 DEF CensusInv, EndReached
  <2>3. CASE Cursor(files) < u
    BY <2>2, <2>3 DEF NothingPast
  <2>4. CASE u <= Cursor(files)
    BY <2>1, <2>4, ChainCovers DEF CensusInv
  <2>5. Cursor(files) \in Nat /\ u \in Nat
    BY CursorTyped, CensusAssumption DEF CensusInv, Typed
  <2> QED
    BY <2>3, <2>4, <2>5
<1>2. CASE method = "manifest"
  BY <1>2 DEF Made, CensusInv, EndReached
<1> QED
  BY <1>1, <1>2 DEF CensusInv, Typed

(* A page that a complete census of any earlier census's pages calls        *)
(* removed was missing from the collection at some time since the first     *)
(* attempt.                                                                 *)
THEOREM NothingSkipped == CensusSpec => []LastingPagesKept
<1> QED
  BY CensusStart, CensusStep, InvImpliesKept, PTL DEF CensusSpec

-----------------------------------------------------------------------------
-----------------------------------------------------------------------------
\* The month number n of the history of the sealed input.
MonthOf(n) ==
  [number |-> n, input |-> workspace,
   files |-> IF n = 0 THEN {"opening"} ELSE {"state", "result", "report"}]

Through(n) == months = {MonthOf(k) : k \in 0..n} /\ reported \subseteq 0..n

\* The directory is empty, or a history up to some month.
HistoryKept ==
  /\ workspace \in Inputs \cup {Directory!Absent}
  /\ workspace = Directory!Absent => months = {} /\ reported = {}
  /\ workspace # Directory!Absent => \E n \in Nat : Through(n)
  /\ stray => died

\* What a command that writes is about: the opening of some input, or a month
\* that follows one in the directory.
Writing == {"resolved", "filling", "checked", "failed"}
Rest == {Directory!MonthFiles, <<"result", "report">>, <<"report">>, <<>>}
CommandOK(c) ==
  c.stage \in Writing =>
    /\ c.input \in Inputs /\ c.number \in Nat
    /\ c.number > 0 => /\ c.input = workspace
                       /\ \E d \in months : d.number = c.number - 1
                       /\ c.left \in Rest
    /\ c.stage = "resolved" => c.number > 0 /\ c.left = Directory!MonthFiles
    /\ c.stage = "checked" /\ c.number > 0 => c.left = <<>>

DirectoryInv ==
  /\ command = [p \in Processes |-> command[p]]
  /\ HistoryKept
  /\ \A p \in Processes : CommandOK(command[p])
(* The numbers of a history are those from 0 to its last month. *)
LEMMA HistoryNumbers ==
  ASSUME NEW n \in Nat, Through(n)
  PROVE  Directory!Numbers = 0..n /\ Directory!Latest = n
<1>1. \A k : MonthOf(k).number = k
  BY DEF MonthOf
<1>2. Directory!Numbers = 0..n
  BY <1>1 DEF Directory!Numbers, Through
<1>3. n \in 0..n /\ \A k \in 0..n : k <= n
  OBVIOUS
<1>4. \A m \in 0..n : (\A k \in 0..n : k <= m) => m = n
  OBVIOUS
<1> QED
  BY <1>2, <1>3, <1>4 DEF Directory!Latest

(* A command that writes no directory, at whatever place it leaves the      *)
(* process, keeps the history.                                              *)
LEMMA CommandStep ==
  ASSUME DirectoryInv, NEW p \in Processes, NEW c, Directory!Become(p, c), CommandOK(c),
         UNCHANGED <<workspace, months>>, stray' => died',
         workspace = Directory!Absent => reported' = {},
         \A n \in Nat : Through(n) => reported' \subseteq 0..n
  PROVE  DirectoryInv'
<1>1. command' = [q \in Processes |-> IF q = p THEN c ELSE command[q]]
  BY DEF Directory!Become, DirectoryInv
<1>2. \A n : Through(n) /\ reported' \subseteq 0..n => Through(n)'
  BY DEF Through, MonthOf
<1>3. HistoryKept'
  BY <1>2 DEF DirectoryInv, HistoryKept
<1>4. \A u : CommandOK(u)' <=> CommandOK(u)
  BY DEF CommandOK
<1> QED
  BY <1>1, <1>3, <1>4 DEF DirectoryInv

LEMMA IdleCommand == CommandOK(Directory!Idle)
BY DEF CommandOK, Directory!Idle, Writing

(* A month is computed as the successor of the newest one. *)
LEMMA OpenToRunStep ==
  ASSUME DirectoryInv, NEW p \in Processes, Directory!OpenToRun(p)
  PROVE  DirectoryInv'
<1>1. workspace \in Inputs /\ workspace # Directory!Absent
  BY InputAssumption DEF Directory!OpenToRun, Directory!Openable, Directory!Sealed
<1>2. PICK n \in Nat : Through(n)
  BY <1>1 DEF DirectoryInv, HistoryKept
<1>3. PICK c : /\ Directory!Become(p, c)
               /\ c = [stage |-> "resolved", number |-> n + 1, input |-> workspace,
                       left |-> Directory!MonthFiles]
  BY <1>2, HistoryNumbers DEF Directory!OpenToRun
<1>4. MonthOf(n) \in months /\ MonthOf(n).number = n
  <2>1. n \in 0..n
    OBVIOUS
  <2> QED
    BY <1>2, <2>1 DEF Through, MonthOf
<1>5. CommandOK(c)
  BY <1>1, <1>3, <1>4 DEF CommandOK, Writing, Rest
<1>6. UNCHANGED <<workspace, months, stray, died, reported>>
  BY DEF Directory!OpenToRun, Directory!OnDisk
<1> QED
  BY <1>3, <1>5, <1>6, CommandStep DEF DirectoryInv, HistoryKept, Through

(* Commands that read, or work on their own temporary directory. *)
LEMMA PrivateStep ==
  ASSUME DirectoryInv, NEW p \in Processes,
         \/ \E i \in Inputs : Directory!StartInit(p, i)
         \/ Directory!AnswerDryRun(p) \/ Directory!Stage(p) \/ Directory!Write(p)
         \/ Directory!Recheck(p) \/ Directory!Fail(p) \/ Directory!RemoveStaging(p)
  PROVE  DirectoryInv'
<1>1. UNCHANGED <<workspace, months, stray, died, reported>>
  BY DEF Directory!StartInit, Directory!AnswerDryRun, Directory!Stage, Directory!Write,
         Directory!Recheck, Directory!Fail, Directory!RemoveStaging, Directory!OnDisk
<1>2. ASSUME NEW c, Directory!Become(p, c), CommandOK(c) PROVE DirectoryInv'
  BY <1>1, <1>2, CommandStep DEF DirectoryInv, HistoryKept, Through
<1>3. CommandOK(command[p])
  BY DEF DirectoryInv
<1>4. CASE \E i \in Inputs : Directory!StartInit(p, i)
  <2>1. PICK c : /\ Directory!Become(p, c)
                 /\ \E i \in Inputs : c = [stage |-> "filling", number |-> 0, input |-> i,
                                           left |-> Directory!InitFiles]
    BY <1>4 DEF Directory!StartInit
  <2>2. CommandOK(c)
    BY <2>1 DEF CommandOK
  <2> QED
    BY <1>2, <2>1, <2>2
<1>5. CASE Directory!Become(p, Directory!Idle)
  BY <1>2, <1>5, IdleCommand
<1>6. CASE Directory!Stage(p) \/ Directory!Recheck(p) \/ Directory!Fail(p)
  <2>1. SUFFICES ASSUME ~ Directory!Become(p, Directory!Idle) PROVE DirectoryInv'
    BY <1>5
  <2>2. PICK c, place :
          /\ Directory!Become(p, c) /\ c = [command[p] EXCEPT !.stage = place]
          /\ command[p].stage \in Writing
          /\ \/ place = "filling" /\ command[p].stage = "resolved"
             \/ place = "checked" /\ command[p].left = <<>>
             \/ place = "failed"
    BY <1>6, <2>1 DEF Directory!Stage, Directory!Recheck, Directory!Fail, Directory!Written, Writing
  <2>3. /\ c.stage = place /\ c.number = command[p].number
        /\ c.input = command[p].input /\ c.left = command[p].left
    BY <2>2
  <2>4. CommandOK(c)
    BY <1>3, <2>2, <2>3 DEF CommandOK, Writing
  <2> QED
    BY <1>2, <2>2, <2>4
<1>7. CASE Directory!Write(p)
  <2>1. PICK c : /\ Directory!Become(p, c)
                 /\ c = [command[p] EXCEPT !.left = Tail(command[p].left)]
    BY <1>7 DEF Directory!Write
  <2>2. /\ c.stage = command[p].stage /\ c.number = command[p].number
        /\ c.input = command[p].input /\ c.left = Tail(command[p].left)
    BY <2>1
  <2>3. command[p].stage = "filling" /\ command[p].left # <<>>
    BY <1>7 DEF Directory!Write
  <2>4. \A s \in Rest : s # <<>> => Tail(s) \in Rest
    <3>1. /\ Tail(<<"state", "result", "report">>) = <<"result", "report">>
          /\ Tail(<<"result", "report">>) = <<"report">> /\ Tail(<<"report">>) = <<>>
      OBVIOUS
    <3> QED
      BY <3>1 DEF Rest, Directory!MonthFiles
  <2>5. CommandOK(c)
    BY <1>3, <2>2, <2>3, <2>4 DEF CommandOK, Writing
  <2> QED
    BY <1>2, <2>1, <2>5
<1> QED
  BY <1>4, <1>5, <1>6, <1>7 DEF Directory!AnswerDryRun, Directory!RemoveStaging
(* What a caller is told of is in the history that was opened. *)
LEMMA ReadingStep ==
  ASSUME DirectoryInv, NEW p \in Processes,
         Directory!Verify(p) \/ \E n \in 1..MaxMonth : Directory!Report(p, n)
  PROVE  DirectoryInv'
<1>1. /\ UNCHANGED <<workspace, months, stray, died, command>>
      /\ workspace # Directory!Absent
  BY InputAssumption DEF Directory!Verify, Directory!Report, Directory!Openable,
                         Directory!Sealed
<1>2. PICK n \in Nat : Through(n)
  BY <1>1 DEF DirectoryInv, HistoryKept
<1>3. PICK m \in 0..n : reported' = reported \cup {m}
  <2>1. n \in 0..n /\ Directory!Latest = n
    BY <1>2, HistoryNumbers
  <2> QED
    BY <2>1 DEF Directory!Verify, Directory!Report
<1>4. \A k \in Nat : Through(k) => k = n
  BY <1>2, HistoryNumbers
<1>5. Directory!Become(p, command[p]) /\ CommandOK(command[p])
  BY <1>1 DEF Directory!Become, DirectoryInv
<1> QED
  BY <1>1, <1>2, <1>3, <1>4, <1>5, CommandStep DEF DirectoryInv, HistoryKept, Through

(* What dies leaves at most a temporary directory. *)
LEMMA DieStep ==
  ASSUME DirectoryInv, NEW p \in Processes, Directory!Die(p)
  PROVE  DirectoryInv'
<1>1. /\ Directory!Become(p, Directory!Idle) /\ died'
      /\ UNCHANGED <<workspace, months, reported>>
  BY DEF Directory!Die
<1> QED
  BY <1>1, IdleCommand, CommandStep DEF DirectoryInv, HistoryKept, Through

(* The rename makes the opening, or the month after the newest one. *)
LEMMA PublishStep ==
  ASSUME DirectoryInv, NEW p \in Processes, Directory!Publish(p)
  PROVE  DirectoryInv'
<1>1. PICK c : c = command[p]
  OBVIOUS
<1>2. /\ CommandOK(c) /\ c.stage = "checked" /\ c.input \in Inputs /\ c.number \in Nat
      /\ ~ Directory!Taken(c)
  BY <1>1 DEF Directory!Publish, DirectoryInv, CommandOK, Writing
<1>3. /\ command' = [q \in Processes |-> IF q = p THEN Directory!Idle ELSE command[q]]
      /\ UNCHANGED <<stray, died>>
  BY DEF Directory!Publish, Directory!Become, DirectoryInv
<1>4. CASE c.number = 0
  <2>1. workspace = Directory!Absent /\ months = {} /\ reported = {}
    BY <1>2, <1>4 DEF Directory!Taken, DirectoryInv, HistoryKept
  <2>2. /\ workspace' = c.input /\ workspace' # Directory!Absent /\ reported' = {}
        /\ months' = {[number |-> 0, input |-> c.input, files |-> {"opening"}]}
    BY <1>1, <1>2, <1>4, <2>1, InputAssumption DEF Directory!Publish
  <2>3. Through(0)'
    <3>1. 0..0 = {0}
      OBVIOUS
    <3> QED
      BY <2>2, <3>1 DEF Through, MonthOf
  <2>4. HistoryKept'
    BY <1>2, <1>3, <2>2, <2>3 DEF DirectoryInv, HistoryKept
  <2>5. \A q \in Processes : CommandOK(command[q])'
    <3> SUFFICES ASSUME NEW q \in Processes PROVE CommandOK(command[q])'
      OBVIOUS
    <3>1. CASE q = p
      BY <1>3, <3>1 DEF CommandOK, Directory!Idle, Writing
    <3>2. CASE q # p
      <4>1. command'[q] = command[q] /\ CommandOK(command[q])
        BY <1>3, <3>2 DEF DirectoryInv
      <4> QED
        BY <2>1, <4>1 DEF CommandOK
    <3> QED
      BY <3>1, <3>2
  <2> QED
    BY <1>3, <2>4, <2>5 DEF DirectoryInv
<1>5. CASE c.number > 0
  <2>1. /\ c.input = workspace /\ workspace # Directory!Absent /\ c.left = <<>>
        /\ \E d \in months : d.number = c.number - 1
    BY <1>2, <1>5, InputAssumption DEF CommandOK, Writing
  <2>2. PICK n \in Nat : Through(n)
    BY <2>1 DEF DirectoryInv, HistoryKept
  <2>3. c.number = n + 1
    <3>1. c.number - 1 \in 0..n /\ c.number \notin 0..n
      BY <1>2, <1>5, <2>1, <2>2, HistoryNumbers DEF Directory!Taken, Directory!Numbers
    <3> QED
      BY <1>2, <3>1
  <2>4. {Directory!MonthFiles[k] : k \in 1..(Len(Directory!MonthFiles) - Len(c.left))}
          = {"state", "result", "report"}
    <3>1. Len(<<>>) = 0 /\ Len(Directory!MonthFiles) = 3 /\ 1..(3 - 0) = {1, 2, 3}
      BY DEF Directory!MonthFiles
    <3> QED
      BY <2>1, <3>1 DEF Directory!MonthFiles
  <2>5. /\ workspace' = workspace /\ reported' = reported \cup {n + 1}
        /\ months' = months \cup {[number |-> n + 1, input |-> workspace,
                                   files |-> {"state", "result", "report"}]}
    <3>1. c.number # 0 /\ c.number = n + 1 /\ c.input = workspace
      BY <1>2, <1>5, <2>1, <2>3
    <3>2. /\ workspace' = workspace /\ reported' = reported \cup {c.number}
          /\ months' = months \cup
               {[number |-> c.number, input |-> c.input,
                 files |-> {Directory!MonthFiles[k] :
                              k \in 1..(Len(Directory!MonthFiles) - Len(c.left))}]}
      BY <1>1, <3>1 DEF Directory!Publish
    <3> QED
      BY <2>4, <3>1, <3>2
  <2>6. Through(n + 1)'
    <3>1. 0..(n + 1) = 0..n \cup {n + 1} /\ n + 1 # 0
      OBVIOUS
    <3>2. \A k : MonthOf(k)' = MonthOf(k)
      BY <2>5 DEF MonthOf
    <3>3. MonthOf(n + 1) = [number |-> n + 1, input |-> workspace,
                            files |-> {"state", "result", "report"}]
      BY <3>1 DEF MonthOf
    <3> QED
      BY <2>2, <2>5, <3>1, <3>2, <3>3 DEF Through
  <2>7. HistoryKept'
    BY <1>3, <2>1, <2>5, <2>6 DEF DirectoryInv, HistoryKept
  <2>8. \A q \in Processes : CommandOK(command[q])'
    <3> SUFFICES ASSUME NEW q \in Processes PROVE CommandOK(command[q])'
      OBVIOUS
    <3>1. CASE q = p
      BY <1>3, <3>1 DEF CommandOK, Directory!Idle, Writing
    <3>2. CASE q # p
      <4>1. command'[q] = command[q] /\ CommandOK(command[q])
        BY <1>3, <3>2 DEF DirectoryInv
      <4> QED
        BY <2>5, <4>1 DEF CommandOK
    <3> QED
      BY <3>1, <3>2
  <2> QED
    BY <1>3, <2>7, <2>8 DEF DirectoryInv
<1> QED
  BY <1>2, <1>4, <1>5

LEMMA DirectoryInit == Directory!Init => DirectoryInv
<1> SUFFICES ASSUME Directory!Init PROVE DirectoryInv
  OBVIOUS
<1>1. \A p \in Processes : command[p] = Directory!Idle
  BY DEF Directory!Init
<1> QED
  BY <1>1, IdleCommand DEF Directory!Init, DirectoryInv, HistoryKept

LEMMA DirectoryNext == DirectoryInv /\ [Directory!Next]_workspaceVars => DirectoryInv'
<1> SUFFICES ASSUME DirectoryInv, [Directory!Next]_workspaceVars PROVE DirectoryInv'
  OBVIOUS
<1>1. CASE UNCHANGED workspaceVars
  BY <1>1 DEF workspaceVars, DirectoryInv, HistoryKept, Through, MonthOf, CommandOK
<1>2. ASSUME NEW p \in Processes, Directory!Step(p) \/ Directory!Die(p) PROVE DirectoryInv'
  BY <1>2, OpenToRunStep, PrivateStep, ReadingStep, PublishStep, DieStep DEF Directory!Step
<1> QED
  BY <1>1, <1>2 DEF Directory!Next
-----------------------------------------------------------------------------
(* A history has one directory for each of its months. *)
LEMMA OneDirectoryEach ==
  ASSUME NEW n \in Nat, Through(n)
  PROVE  Cardinality(months) = Cardinality(Directory!Numbers)
<1> DEFINE f == [k \in 0..n |-> MonthOf(k)]
<1>1. \A k : MonthOf(k).number = k
  BY DEF MonthOf
<1>2. f \in Bijection(0..n, months)
  <2>1. f \in [0..n -> months] /\ \A d \in months : \E k \in 0..n : f[k] = d
    BY DEF Through
  <2>2. \A j, k \in 0..n : f[j] = f[k] => j = k
    BY <1>1
  <2> HIDE DEF f
  <2> QED
    BY <2>1, <2>2 DEF Bijection, Injection, Surjection, IsInjective
<1>3. IsFiniteSet(0..n)
  BY FS_Interval
<1> HIDE DEF f
<1>4. Cardinality(months) = Cardinality(0..n)
  BY <1>2, <1>3, FS_Bijection DEF ExistsBijection
<1> QED
  BY <1>4, HistoryNumbers

(* Each directory of a history is complete and of the sealed input. *)
LEMMA MonthsReproduced ==
  ASSUME NEW n \in Nat, Through(n), NEW d \in months
  PROVE  Directory!Reproduced(d)
<1>1. PICK k \in 0..n : d = MonthOf(k)
  BY DEF Through
<1>2. Directory!ToSet(Directory!MonthFiles) = {"state", "result", "report"}
  BY DEF Directory!MonthFiles, Directory!ToSet
<1> QED
  BY <1>1, <1>2 DEF MonthOf, Directory!Reproduced, Directory!Filled

\* The directory's module counts as the library does.
LEMMA SameCount == \A S : Directory!Cardinality(S) = Cardinality(S)
BY DEF Directory!Cardinality, Cardinality

LEMMA InvImpliesSealed == DirectoryInv => SealedHistory
<1> SUFFICES ASSUME DirectoryInv, workspace # Directory!Absent
             PROVE  /\ Directory!Numbers = 0..Directory!Latest
                    /\ Directory!Cardinality(months)
                         = Directory!Cardinality(Directory!Numbers)
                    /\ \A d \in months : Directory!Reproduced(d)
                    /\ reported \subseteq Directory!Numbers
  BY DEF SealedHistory, Directory!SealedHistory
<1>1. PICK n \in Nat : Through(n)
  BY DEF DirectoryInv, HistoryKept
<1> QED
  BY <1>1, HistoryNumbers, OneDirectoryEach, MonthsReproduced, SameCount DEF Through

LEMMA InvImpliesOpens == DirectoryInv => OpensUnlessDeath
<1> SUFFICES ASSUME DirectoryInv, workspace # Directory!Absent, Directory!Committing = {},
                    ~ died
             PROVE  Directory!Openable
  BY DEF OpensUnlessDeath, Directory!OpensUnlessDeath
<1>1. workspace \in Inputs /\ ~ stray
  BY DEF DirectoryInv, HistoryKept
<1>2. PICK n \in Nat : Through(n)
  BY DEF DirectoryInv, HistoryKept
<1> QED
  BY <1>1, <1>2, HistoryNumbers, MonthsReproduced DEF Directory!Openable, Directory!Sealed
-----------------------------------------------------------------------------
\* Jobs bound to a database file, and to rows they have inserted.
Bound == {"schema", "computed", "insert", "files", "undo", "unlink"}
Holding == {"files", "undo"}
AllFiles(n) == IF n = 0 THEN Catalog!OpeningFiles ELSE Catalog!FilesOf(n)

JobOK(j) ==
  /\ j.stage \in Bound => j.file \in 1..made /\ j.period \in Nat
  /\ j.stage = "schema" => j.period = 0 /\ j.left = Catalog!OpeningFiles
  /\ j.stage \in {"computed", "insert"} =>
       j.period > 0 /\ j.left = Catalog!FilesOf(j.period)

CatalogTyped ==
  /\ job = [p \in Processes |-> job[p]]
  /\ made \in Nat
  /\ database \in [number : 0..made, periods : SUBSET Nat]
  /\ \E last \in Nat : \A n \in database.periods : n <= last
  /\ database.number = 0 => database.periods = {}
  /\ committed \subseteq (1..made) \X Nat

\* A file without rows has one job, the one that gives it its schema.
Fresh ==
  \A p \in Processes : job[p].stage = "schema" =>
    /\ database.number = job[p].file => database.periods = {}
    /\ \A q \in Processes \ {p} : job[q].stage \in Bound => job[q].file # job[p].file
    /\ \A c \in committed : c[1] # job[p].file

\* Rows that can still be taken back are those of one job, and not reported.
Held ==
  \A p \in Processes : job[p].stage \in Holding =>
    /\ <<job[p].file, job[p].period>> \notin committed
    /\ database.number = job[p].file => job[p].period \in database.periods
    /\ \A q \in Processes \ {p} : job[q].stage \in Holding =>
         job[q].file # job[p].file \/ job[q].period # job[p].period

\* Without a fault nothing is taken back.
Finished(n) ==
  /\ AllFiles(n) \subseteq artifacts
  /\ n > 0 => <<"report", n>> \in artifacts
Undisturbed ==
  /\ \A p \in Processes :
       /\ job[p].stage \notin {"abandon", "undo", "unlink"}
       /\ job[p].stage \in Bound => database.number = job[p].file
       /\ job[p].stage \in {"computed", "insert"} => job[p].period - 1 \in database.periods
       /\ job[p].stage = "files" => AllFiles(job[p].period) \ job[p].left \subseteq artifacts
  /\ database.periods = {} \/ \E n \in Nat : database.periods = 0..n
  /\ database.number # 0 /\ database.periods = {} =>
       \E p \in Processes : job[p].stage = "schema"
  /\ \A n \in database.periods :
       \/ \E p \in Processes : job[p].stage = "files" /\ job[p].period = n
       \/ Finished(n)

Kept ==
  CatalogTyped /\ (\A p \in Processes : JobOK(job[p]))
    /\ Fresh /\ Held /\ Catalog!ReportedRowsStay

CatalogInv == Kept /\ (~ faulty => Undisturbed)

(* A bounded set of numbers has a greatest one. *)
LEMMA GreatestIn ==
  ASSUME NEW S \in SUBSET Nat, S # {}, NEW b \in Nat, \A k \in S : k <= b
  PROVE  \E m \in S : \A k \in S : k <= m
<1> DEFINE D == {b - k : k \in S}
<1>1. D \in SUBSET Nat /\ D # {}
  <2>1. \A k \in S : b - k \in Nat
    OBVIOUS
  <2>2. PICK k : k \in S
    OBVIOUS
  <2>3. b - k \in D
    BY <2>2
  <2> QED
    BY <2>1, <2>3
<1>2. PICK i \in D : \A j \in D : i <= j
  <2> HIDE DEF D
  <2> QED  BY <1>1, LeastPosition
<1>3. PICK m \in S : i = b - m
  BY <1>2
<1>4. ASSUME NEW k \in S PROVE k <= m
  <2>1. b - k \in D
    OBVIOUS
  <2>2. b - m <= b - k
    BY <1>2, <1>3, <2>1
  <2> QED
    BY <2>2
<1> QED
  BY <1>4

(* A catalog with rows has a newest month. *)
LEMMA NewestRow ==
  ASSUME CatalogTyped, database.periods # {}
  PROVE  /\ Catalog!Newest \in database.periods /\ Catalog!Newest \in Nat
         /\ \A k \in database.periods : k <= Catalog!Newest
<1>1. database.periods \in SUBSET Nat
  BY DEF CatalogTyped
<1>2. PICK last \in Nat : \A n \in database.periods : n <= last
  BY DEF CatalogTyped
<1>3. \E m \in database.periods : \A k \in database.periods : k <= m
  BY <1>1, <1>2, GreatestIn
<1> QED
  BY <1>1, <1>3 DEF Catalog!Newest

(* A process goes on with its rows, or leaves them, or takes up a month of  *)
(* a catalog that has some.                                                 *)
LEMMA KeptMove ==
  ASSUME Kept, NEW p \in Processes, NEW j, Catalog!Become(p, j), JobOK(j),
         UNCHANGED <<database, made, committed>>,
         j.stage # "schema",
         j.stage \in Bound => \A q \in Processes \ {p} :
                                job[q].stage = "schema" => job[q].file # j.file,
         j.stage \in Holding =>
           /\ job[p].stage \in Holding
           /\ j.file = job[p].file /\ j.period = job[p].period
  PROVE  Kept'
<1>1. job' = [q \in Processes |-> IF q = p THEN j ELSE job[q]]
  BY DEF Catalog!Become, Kept, CatalogTyped
<1>2. job'[p] = j /\ \A q \in Processes \ {p} : job'[q] = job[q]
  BY <1>1
<1>3. CatalogTyped'
  BY <1>1 DEF Kept, CatalogTyped
<1>4. \A q \in Processes : JobOK(job[q])'
  BY <1>2 DEF Kept, JobOK
<1>5. Fresh'
  <2> SUFFICES ASSUME NEW q \in Processes, job'[q].stage = "schema"
               PROVE  /\ database.number = job'[q].file => database.periods = {}
                      /\ \A r \in Processes \ {q} :
                           job'[r].stage \in Bound => job'[r].file # job'[q].file
                      /\ \A c \in committed : c[1] # job'[q].file
    BY DEF Fresh
  <2>1. q # p /\ job'[q] = job[q]
    BY <1>2
  <2> QED
    BY <1>2, <2>1 DEF Kept, Fresh
<1>6. Held'
  <2> SUFFICES ASSUME NEW q \in Processes, job'[q].stage \in Holding
               PROVE  /\ <<job'[q].file, job'[q].period>> \notin committed
                      /\ database.number = job'[q].file =>
                           job'[q].period \in database.periods
                      /\ \A r \in Processes \ {q} : job'[r].stage \in Holding =>
                           job'[r].file # job'[q].file \/ job'[r].period # job'[q].period
    BY DEF Held
  <2>1. \A r \in Processes : job'[r].stage \in Holding =>
          /\ job[r].stage \in Holding
          /\ job'[r].file = job[r].file /\ job'[r].period = job[r].period
    BY <1>2
  <2> QED
    BY <2>1 DEF Kept, Held
<1>7. Catalog!ReportedRowsStay'
  BY DEF Kept, Catalog!ReportedRowsStay, Catalog!Exists
<1> QED
  BY <1>3, <1>4, <1>5, <1>6, <1>7 DEF Kept

(* And without a fault it leaves no row unfinished. *)
LEMMA CalmMove ==
  ASSUME Kept, Undisturbed, NEW p \in Processes, NEW j, Catalog!Become(p, j),
         UNCHANGED database, artifacts \subseteq artifacts',
         j.stage \notin {"abandon", "undo", "unlink"},
         j.stage \in Bound => database.number = j.file,
         j.stage \in {"computed", "insert"} => j.period - 1 \in database.periods,
         j.stage = "files" => AllFiles(j.period) \ j.left \subseteq artifacts',
         job[p].stage # "schema",
         job[p].stage = "files" =>
           \/ j.stage = "files" /\ j.period = job[p].period
           \/ \A n \in {job[p].period} : Finished(n)'
  PROVE  Undisturbed'
<1>1. job'[p] = j /\ \A q \in Processes \ {p} : job'[q] = job[q]
  BY DEF Catalog!Become, Kept, CatalogTyped
<1>2. \A n : AllFiles(n)' = AllFiles(n)
  BY DEF AllFiles, Catalog!OpeningFiles, Catalog!FilesOf
<1>3. \A n : Finished(n) => Finished(n)'
  BY <1>2 DEF Finished
<1>4. ASSUME NEW q \in Processes
      PROVE /\ job'[q].stage \notin {"abandon", "undo", "unlink"}
            /\ job'[q].stage \in Bound => database.number = job'[q].file
            /\ job'[q].stage \in {"computed", "insert"} =>
                 job'[q].period - 1 \in database.periods
            /\ job'[q].stage = "files" =>
                 AllFiles(job'[q].period) \ job'[q].left \subseteq artifacts'
  BY <1>1, <1>4 DEF Undisturbed
<1>5. database.number # 0 /\ database.periods = {} =>
        \E q \in Processes : job'[q].stage = "schema"
  BY <1>1 DEF Undisturbed
<1>6. ASSUME NEW n \in database.periods
      PROVE \/ \E q \in Processes : job'[q].stage = "files" /\ job'[q].period = n
            \/ Finished(n)'
  <2>1. CASE Finished(n)
    BY <2>1, <1>3
  <2>2. ASSUME NEW q \in Processes, job[q].stage = "files", job[q].period = n
        PROVE  \/ \E r \in Processes : job'[r].stage = "files" /\ job'[r].period = n
               \/ Finished(n)'
    <3>1. CASE q # p
      <4>1. job'[q] = job[q]
        BY <1>1, <3>1
      <4> QED
        BY <2>2, <4>1
    <3>2. CASE q = p /\ j.stage = "files" /\ j.period = n
      BY <1>1, <3>2
    <3>3. CASE q = p /\ Finished(n)'
      BY <3>3
    <3> QED
      BY <2>2, <3>1, <3>2, <3>3
  <2> QED
    BY <2>1, <2>2 DEF Undisturbed
<1>7. database.periods = {} \/ \E n \in Nat : database.periods = 0..n
  BY DEF Undisturbed
<1> QED
  BY <1>2, <1>4, <1>5, <1>6, <1>7 DEF Undisturbed

(* A process that leaves its rows as they are, unless it or another failed. *)
LEMMA RestStep ==
  ASSUME CatalogInv, NEW p \in Processes, NEW j, Catalog!Become(p, j), j.stage \notin Bound,
         UNCHANGED <<database, made, artifacts, committed>>, faulty => faulty',
         ~ faulty' => job[p].stage \notin {"schema", "files"} /\ j.stage # "abandon"
  PROVE  CatalogInv'
<1>1. JobOK(j) /\ j.stage # "schema" /\ j.stage \notin Holding
  BY DEF JobOK, Bound, Holding
<1>2. Kept'
  BY <1>1, KeptMove DEF CatalogInv
<1>3. ASSUME ~ faulty' PROVE Undisturbed'
  <2>1. j.stage \notin {"abandon", "undo", "unlink", "computed", "insert", "files"}
    BY <1>3 DEF Bound
  <2> QED
    BY <1>3, <2>1, CalmMove DEF CatalogInv
<1> QED
  BY <1>2, <1>3 DEF CatalogInv

LEMMA IdleJob == Catalog!Idle.stage = "idle" /\ "idle" \notin Bound
BY DEF Catalog!Idle, Bound

(* Everything that ends a command or looks before it begins. *)
LEMMA LookStep ==
  ASSUME CatalogInv, NEW p \in Processes,
         \/ Catalog!StartInit(p) \/ Catalog!LookForOpening(p) \/ Catalog!SchemaExists(p)
         \/ Catalog!FailFill(p) \/ Catalog!AnswerDryRun(p) \/ Catalog!RefuseInsert(p)
         \/ Catalog!FailReport(p) \/ Catalog!Die(p)
  PROVE  CatalogInv'
<1>1. UNCHANGED <<database, made, artifacts, committed>> /\ (faulty => faulty')
  BY DEF Catalog!StartInit, Catalog!LookForOpening, Catalog!SchemaExists, Catalog!FailFill,
         Catalog!AnswerDryRun, Catalog!RefuseInsert, Catalog!FailReport, Catalog!Die,
         Catalog!Stored
<1>2. ASSUME NEW j, Catalog!Become(p, j), j.stage \notin Bound,
             ~ faulty' => job[p].stage \notin {"schema", "files"} /\ j.stage # "abandon"
      PROVE  CatalogInv'
  BY <1>1, <1>2, RestStep
<1>3. CASE Catalog!StartInit(p)
  <2>1. PICK j : Catalog!Become(p, j) /\ j = [stage |-> "new"]
    BY <1>3 DEF Catalog!StartInit
  <2>2. j.stage = "new" /\ job[p].stage = "idle"
    BY <1>3, <2>1, IdleJob DEF Catalog!StartInit
  <2> QED
    BY <1>2, <2>1, <2>2 DEF Bound
<1>4. CASE Catalog!LookForOpening(p)
  <2>1. PICK j : /\ Catalog!Become(p, j)
                 /\ j = [job[p] EXCEPT !.stage = "connect"] \/ j = Catalog!Idle
    BY <1>4 DEF Catalog!LookForOpening, Catalog!Goto
  <2>2. j.stage \in {"connect", "idle"} /\ job[p].stage = "new"
    <3>1. CASE j = [job[p] EXCEPT !.stage = "connect"]
      BY <1>4, <3>1 DEF Catalog!LookForOpening
    <3>2. CASE j = Catalog!Idle
      BY <1>4, <3>2, IdleJob DEF Catalog!LookForOpening
    <3> QED
      BY <2>1, <3>1, <3>2
  <2> QED
    BY <1>2, <2>1, <2>2 DEF Bound
<1>5. CASE Catalog!SchemaExists(p) \/ Catalog!FailFill(p)
  <2>1. PICK j : Catalog!Become(p, j) /\ j = [job[p] EXCEPT !.stage = "abandon"]
    BY <1>5 DEF Catalog!SchemaExists, Catalog!FailFill, Catalog!Goto
  <2>2. j.stage = "abandon"
    BY <2>1
  <2>3. faulty'
    <3>1. CASE Catalog!SchemaExists(p)
      BY <3>1 DEF Catalog!SchemaExists
    <3>2. CASE Catalog!FailFill(p)
      <4>1. job[p].stage = "schema" /\ ~ Catalog!Same(p) /\ faulty' = faulty
        BY <3>2 DEF Catalog!FailFill
      <4>2. job[p].file # 0
        BY <4>1 DEF CatalogInv, Kept, JobOK, Bound
      <4>3. database.number # job[p].file
        BY <4>1, <4>2 DEF Catalog!Same, Catalog!Exists, Catalog!NoDatabase
      <4> QED
        BY <4>1, <4>3 DEF CatalogInv, Undisturbed, Bound
    <3> QED
      BY <1>5, <3>1, <3>2
  <2> QED
    BY <1>2, <2>1, <2>2, <2>3 DEF Bound
<1>6. CASE /\ Catalog!Become(p, Catalog!Idle)
           /\ ~ faulty' => job[p].stage \notin {"schema", "files"}
  BY <1>2, <1>6, IdleJob
<1>7. CASE Catalog!AnswerDryRun(p) \/ Catalog!RefuseInsert(p)
  BY <1>6, <1>7 DEF Catalog!AnswerDryRun, Catalog!RefuseInsert
<1>8. CASE Catalog!FailReport(p) \/ Catalog!Die(p)
  BY <1>6, <1>8 DEF Catalog!FailReport, Catalog!Die
<1> QED
  BY <1>3, <1>4, <1>5, <1>7, <1>8

(* What a run is computed from has rows; what it writes it looks for first. *)
LEMMA RunStep ==
  ASSUME CatalogInv, NEW p \in Processes, Catalog!ReadNewest(p) \/ Catalog!LookForFiles(p)
  PROVE  CatalogInv'
<1>1. UNCHANGED <<database, made, artifacts, committed, faulty>>
  BY DEF Catalog!ReadNewest, Catalog!LookForFiles, Catalog!Stored
<1>2. job[p].stage \in {"idle", "computed"}
  BY IdleJob DEF Catalog!ReadNewest, Catalog!LookForFiles
<1>3. ASSUME NEW j, Catalog!Become(p, j), JobOK(j), j.stage \in {"computed", "insert"},
             \A q \in Processes \ {p} : job[q].stage = "schema" => job[q].file # j.file,
             ~ faulty => database.number = j.file /\ j.period - 1 \in database.periods
      PROVE  CatalogInv'
  <2>1. j.stage \notin Holding
    BY <1>3 DEF Holding
  <2>2. Kept'
    BY <1>1, <1>3, <2>1, KeptMove DEF CatalogInv
  <2>3. ASSUME ~ faulty' PROVE Undisturbed'
    <3>1. Undisturbed /\ database.number = j.file /\ j.period - 1 \in database.periods
      BY <1>1, <1>3, <2>3 DEF CatalogInv
    <3>2. /\ j.stage \notin {"abandon", "undo", "unlink"} /\ j.stage # "files"
          /\ job[p].stage # "schema" /\ job[p].stage # "files"
      BY <1>2, <1>3
    <3> QED
      BY <1>1, <1>3, <3>1, <3>2, CalmMove DEF CatalogInv
  <2> QED
    BY <2>2, <2>3 DEF CatalogInv
<1>4. CASE Catalog!Become(p, Catalog!Idle)
  BY <1>1, <1>2, <1>4, IdleJob, RestStep
<1>5. CASE Catalog!ReadNewest(p)
  <2> SUFFICES ASSUME ~ Catalog!Become(p, Catalog!Idle) PROVE CatalogInv'
    BY <1>4
  <2> DEFINE n == Catalog!Newest
  <2>1. /\ Catalog!Exists /\ database.periods # {}
        /\ Catalog!Become(p, [stage |-> "computed", file |-> database.number,
                              period |-> n + 1, left |-> Catalog!FilesOf(n + 1)])
    BY <1>5 DEF Catalog!ReadNewest
  <2>2. n \in database.periods /\ n \in Nat
    BY <2>1, NewestRow DEF CatalogInv, Kept
  <2>3. database.number \in 1..made
    <3>1. database.number \in 0..made /\ made \in Nat /\ database.number # 0
      BY <2>1 DEF CatalogInv, Kept, CatalogTyped
    <3> QED
      BY <3>1
  <2> HIDE DEF n
  <2>4. PICK j : /\ Catalog!Become(p, j)
                 /\ j = [stage |-> "computed", file |-> database.number,
                         period |-> n + 1, left |-> Catalog!FilesOf(n + 1)]
    BY <2>1
  <2>5. n + 1 \in Nat /\ n + 1 > 0 /\ n + 1 - 1 = n
    BY <2>2
  <2>6. /\ j.stage = "computed" /\ j.file = database.number /\ j.period = n + 1
        /\ j.left = Catalog!FilesOf(j.period)
    BY <2>4
  <2>7. JobOK(j)
    BY <2>3, <2>5, <2>6 DEF JobOK
  <2>8. \A q \in Processes \ {p} : job[q].stage = "schema" => job[q].file # j.file
    BY <2>1, <2>6 DEF CatalogInv, Kept, Fresh
  <2> QED
    BY <1>3, <2>2, <2>4, <2>5, <2>6, <2>7, <2>8
<1>6. CASE Catalog!LookForFiles(p)
  <2> SUFFICES ASSUME ~ Catalog!Become(p, Catalog!Idle) PROVE CatalogInv'
    BY <1>4
  <2>1. /\ job[p].stage = "computed"
        /\ Catalog!Become(p, [job[p] EXCEPT !.stage = "insert"])
    BY <1>6 DEF Catalog!LookForFiles, Catalog!Goto
  <2>2. PICK j : Catalog!Become(p, j) /\ j = [job[p] EXCEPT !.stage = "insert"]
    BY <2>1
  <2>3. /\ j.stage = "insert" /\ j.file = job[p].file /\ j.period = job[p].period
        /\ j.left = job[p].left
    BY <2>2
  <2>4. JobOK(j)
    BY <2>1, <2>3 DEF CatalogInv, Kept, JobOK, Bound
  <2>5. \A q \in Processes \ {p} : job[q].stage = "schema" => job[q].file # j.file
    BY <2>1, <2>3 DEF CatalogInv, Kept, Fresh, Bound
  <2>6. ~ faulty => database.number = j.file /\ j.period - 1 \in database.periods
    BY <2>1, <2>3 DEF CatalogInv, Undisturbed, Bound
  <2> QED
    BY <1>3, <2>2, <2>3, <2>4, <2>5, <2>6
<1> QED
  BY <1>5, <1>6

(* Whoever holds rows writes their files, or starts to take the rows back.  *)
LEMMA FileStep ==
  ASSUME CatalogInv, NEW p \in Processes, Catalog!WriteFile(p) \/ Catalog!FailFile(p)
  PROVE  CatalogInv'
<1>1. job[p].stage = "files" /\ UNCHANGED <<database, made, committed>>
  BY DEF Catalog!WriteFile, Catalog!FailFile, Catalog!Stored
<1>2. ASSUME NEW j, Catalog!Become(p, j), j.stage \in Holding,
             j.file = job[p].file, j.period = job[p].period
      PROVE  Kept'
  <2>1. JobOK(j) /\ j.stage # "schema"
    BY <1>1, <1>2 DEF CatalogInv, Kept, JobOK, Bound, Holding
  <2>2. \A q \in Processes \ {p} : job[q].stage = "schema" => job[q].file # j.file
    BY <1>1, <1>2 DEF CatalogInv, Kept, Fresh, Bound
  <2>3. job[p].stage \in Holding
    BY <1>1 DEF Holding
  <2> QED
    BY <1>1, <1>2, <2>1, <2>2, <2>3, KeptMove DEF CatalogInv
<1>3. CASE Catalog!WriteFile(p)
  <2>1. PICK f \in job[p].left :
          /\ artifacts' = artifacts \cup {f}
          /\ Catalog!Become(p, [job[p] EXCEPT !.left = job[p].left \ {f}])
    BY <1>3 DEF Catalog!WriteFile
  <2>2. PICK j : Catalog!Become(p, j) /\ j = [job[p] EXCEPT !.left = job[p].left \ {f}]
    BY <2>1
  <2>3. /\ j.stage = "files" /\ j.file = job[p].file /\ j.period = job[p].period
        /\ j.left = job[p].left \ {f}
    BY <1>1, <2>2
  <2>4. Kept'
    BY <1>2, <2>2, <2>3 DEF Holding
  <2>5. faulty' = faulty
    BY <1>3 DEF Catalog!WriteFile
  <2>6. ASSUME ~ faulty PROVE Undisturbed'
    <3>1. /\ Undisturbed /\ database.number = j.file
          /\ AllFiles(j.period) \ job[p].left \subseteq artifacts
      BY <1>1, <2>3, <2>6 DEF CatalogInv, Undisturbed, Bound
    <3>2. AllFiles(j.period) \ j.left \subseteq artifacts' /\ artifacts \subseteq artifacts'
      BY <2>1, <2>3, <3>1
    <3>3. /\ j.stage \notin {"abandon", "undo", "unlink"}
          /\ j.stage \notin {"computed", "insert"} /\ job[p].stage # "schema"
      BY <1>1, <2>3
    <3> QED
      BY <1>1, <2>2, <2>3, <3>1, <3>2, <3>3, CalmMove DEF CatalogInv
  <2> QED
    BY <2>4, <2>5, <2>6 DEF CatalogInv
<1>4. CASE Catalog!FailFile(p)
  <2>1. UNCHANGED artifacts /\ faulty'
    BY <1>4 DEF Catalog!FailFile, Catalog!Stored
  <2>2. CASE job[p].period = 0
    <3>1. PICK j : Catalog!Become(p, j) /\ j = [job[p] EXCEPT !.stage = "abandon"]
      BY <1>4, <2>2 DEF Catalog!FailFile, Catalog!Goto
    <3>2. j.stage = "abandon"
      BY <3>1
    <3> QED
      BY <1>1, <2>1, <3>1, <3>2, RestStep DEF Bound
  <2>3. CASE job[p].period # 0
    <3>1. PICK j : Catalog!Become(p, j) /\ j = [job[p] EXCEPT !.stage = "undo"]
      BY <1>4, <2>3 DEF Catalog!FailFile, Catalog!Goto
    <3>2. j.stage = "undo" /\ j.file = job[p].file /\ j.period = job[p].period
      BY <3>1
    <3> QED
      BY <1>2, <2>1, <3>1, <3>2 DEF Holding, CatalogInv
  <2> QED
    BY <2>2, <2>3
<1> QED
  BY <1>3, <1>4

(* A report that is written again adds a file to those of a month.          *)
LEMMA ReportStep ==
  ASSUME CatalogInv, NEW p \in Processes, NEW n, Catalog!Report(p, n)
  PROVE  CatalogInv'
<1>1. /\ job[p] = Catalog!Idle /\ UNCHANGED <<database, made, committed, faulty, job>>
      /\ artifacts \subseteq artifacts'
  BY DEF Catalog!Report
<1>2. PICK j : j = job[p] /\ j.stage = "idle"
  BY <1>1, IdleJob
<1>3. Catalog!Become(p, j)
  BY <1>1, <1>2 DEF Catalog!Become, CatalogInv, Kept, CatalogTyped
<1>4. JobOK(j) /\ j.stage \notin Bound /\ j.stage \notin Holding
  BY <1>2 DEF JobOK, Bound, Holding
<1>5. Kept'
  BY <1>1, <1>2, <1>3, <1>4, KeptMove DEF CatalogInv
<1>6. ASSUME ~ faulty PROVE Undisturbed'
  BY <1>1, <1>2, <1>3, <1>4, <1>6, CalmMove DEF CatalogInv
<1> QED
  BY <1>1, <1>5, <1>6 DEF CatalogInv

(* A new file is one that no other job and no report knows of.              *)
LEMMA CreateStep ==
  ASSUME CatalogInv, NEW p \in Processes, Catalog!CreateSchema(p)
  PROVE  CatalogInv'
<1>1. PICK j :
        /\ job' = [q \in Processes |-> IF q = p THEN j ELSE job[q]]
        /\ j.stage = "schema" /\ j.file = made + 1 /\ j.period = 0
        /\ j.left = Catalog!OpeningFiles
  <2>1. PICK j : /\ Catalog!Become(p, j)
                 /\ j = [stage |-> "schema", file |-> made + 1, period |-> 0,
                         left |-> Catalog!OpeningFiles]
    BY DEF Catalog!CreateSchema
  <2>2. /\ j.stage = "schema" /\ j.file = made + 1 /\ j.period = 0
        /\ j.left = Catalog!OpeningFiles
    BY <2>1
  <2> QED
    BY <2>1, <2>2 DEF Catalog!Become, CatalogInv, Kept, CatalogTyped
<1>2. /\ ~ Catalog!Exists /\ made' = made + 1
      /\ UNCHANGED <<artifacts, committed, faulty>>
      /\ database' = [number |-> made + 1, periods |-> {}]
  BY DEF Catalog!CreateSchema
<1>3. database.number = 0 /\ made \in Nat
  BY <1>2 DEF CatalogInv, Kept, CatalogTyped, Catalog!Exists, Catalog!NoDatabase
<1>4. job'[p] = j /\ \A q \in Processes \ {p} : job'[q] = job[q]
  BY <1>1
<1>5. CatalogTyped'
  <2>1. made + 1 \in Nat /\ made + 1 \in 0..(made + 1) /\ 1..made \subseteq 1..(made + 1)
    BY <1>3
  <2>2. job' = [q \in Processes |-> job'[q]]
    BY <1>1
  <2>3. database'.periods = {} /\ database' \in [number : 0..made', periods : SUBSET Nat]
    BY <1>2, <2>1
  <2> QED
    BY <1>2, <2>1, <2>2, <2>3 DEF CatalogInv, Kept, CatalogTyped
<1>6. \A q \in Processes : JobOK(job[q])'
  <2> SUFFICES ASSUME NEW q \in Processes PROVE JobOK(job[q])'
    OBVIOUS
  <2>1. CASE q = p
    BY <1>1, <1>2, <1>3, <1>4, <2>1 DEF JobOK, Bound
  <2>2. CASE q # p
    BY <1>2, <1>3, <1>4, <2>2 DEF CatalogInv, Kept, JobOK
  <2> QED
    BY <2>1, <2>2
<1>7. \A q \in Processes : job[q].stage \in Bound => job[q].file # made + 1
  BY <1>3 DEF CatalogInv, Kept, JobOK
<1>8. \A c \in committed : c[1] # made + 1
  BY <1>3 DEF CatalogInv, Kept, CatalogTyped
<1>9. database'.number = made + 1 /\ database'.periods = {}
  BY <1>2
<1>10. Fresh'
  <2> SUFFICES ASSUME NEW q \in Processes, job'[q].stage = "schema"
               PROVE  /\ \A r \in Processes \ {q} :
                           job'[r].stage \in Bound => job'[r].file # job'[q].file
                      /\ \A c \in committed : c[1] # job'[q].file
    BY <1>2, <1>9 DEF Fresh
  <2>1. CASE q = p
    BY <1>1, <1>4, <1>7, <1>8, <2>1
  <2>2. CASE q # p
    BY <1>1, <1>4, <1>7, <2>2 DEF CatalogInv, Kept, Fresh, Bound
  <2> QED
    BY <2>1, <2>2
<1>11. Held'
  <2>1. \A q \in Processes : job'[q].stage \in Holding =>
          job'[q] = job[q] /\ job[q].stage \in Bound
    BY <1>1, <1>4 DEF Holding, Bound
  <2> QED
    BY <1>2, <1>7, <1>9, <2>1 DEF CatalogInv, Kept, Held
<1>12. Catalog!ReportedRowsStay'
  BY <1>2, <1>8, <1>9 DEF Catalog!ReportedRowsStay
<1>13. ASSUME ~ faulty PROVE Undisturbed'
  <2>1. \A q \in Processes : job[q].stage \notin Bound
    BY <1>3, <1>13 DEF CatalogInv, Kept, JobOK, Undisturbed
  <2>2. \A q \in Processes :
          /\ job'[q].stage \notin {"abandon", "undo", "unlink"}
          /\ job'[q].stage \in Bound => q = p
    BY <1>1, <1>4, <1>13, <2>1 DEF CatalogInv, Undisturbed
  <2>3. ASSUME NEW q \in Processes
        PROVE  /\ job'[q].stage \notin {"abandon", "undo", "unlink"}
               /\ job'[q].stage \notin {"computed", "insert", "files"}
               /\ job'[q].stage \in Bound => database'.number = job'[q].file
    <3>1. CASE q = p
      BY <1>1, <1>4, <1>9, <3>1
    <3>2. CASE q # p
      <4>1. job'[q].stage \notin Bound
        BY <2>2, <3>2
      <4> QED
        BY <2>2, <4>1 DEF Bound
    <3> QED
      BY <3>1, <3>2
  <2>5. \E q \in Processes : job'[q].stage = "schema"
    BY <1>1, <1>4
  <2> QED
    BY <1>9, <2>3, <2>5 DEF Undisturbed
<1> QED
  BY <1>2, <1>5, <1>6, <1>10, <1>11, <1>12, <1>13 DEF CatalogInv, Kept

(* The opening goes into a file without rows, a run's month into one that   *)
(* does not have it.                                                        *)
LEMMA RowStep ==
  ASSUME CatalogInv, NEW p \in Processes, Catalog!FillOpening(p) \/ Catalog!Insert(p)
  PROVE  CatalogInv'
<1>1. PICK j : Catalog!Become(p, j) /\ j = [job[p] EXCEPT !.stage = "files"]
  BY DEF Catalog!FillOpening, Catalog!Insert, Catalog!Goto
<1>2. /\ j.stage = "files" /\ j.file = job[p].file /\ j.period = job[p].period
      /\ j.left = job[p].left
  BY <1>1
<1>3. /\ job' = [q \in Processes |-> IF q = p THEN j ELSE job[q]]
      /\ job'[p] = j /\ \A q \in Processes \ {p} : job'[q] = job[q]
  BY <1>1 DEF Catalog!Become, CatalogInv, Kept, CatalogTyped
<1>4. /\ job[p].stage \in {"schema", "insert"}
      /\ database.number = job[p].file /\ database.number # 0
      /\ UNCHANGED <<made, artifacts, committed, faulty>>
  BY DEF Catalog!FillOpening, Catalog!Insert, Catalog!Same, CatalogInv, Kept, JobOK, Bound
<1>5. /\ job[p].period \in Nat /\ job[p].period \notin database.periods
      /\ job[p].stage = "schema" => database.periods = {} /\ job[p].period = 0
      /\ database' = [database EXCEPT !.periods = database.periods \cup {job[p].period}]
  <2>1. CASE Catalog!FillOpening(p)
    <3>1. /\ job[p].stage = "schema" /\ database.periods = {}
          /\ job[p].period = 0 /\ database' = [database EXCEPT !.periods = {0}]
      BY <1>4, <2>1 DEF Catalog!FillOpening, CatalogInv, Kept, Fresh, JobOK
    <3> QED
      BY <3>1
  <2>2. CASE Catalog!Insert(p)
    BY <2>2 DEF Catalog!Insert, CatalogInv, Kept, JobOK, Bound
  <2> QED
    BY <2>1, <2>2
<1>6. /\ database'.number = database.number
      /\ database'.periods = database.periods \cup {job[p].period}
  BY <1>5 DEF CatalogInv, Kept, CatalogTyped
<1>7. CatalogTyped'
  <2>1. PICK last \in Nat : \A n \in database.periods : n <= last
    BY DEF CatalogInv, Kept, CatalogTyped
  <2>2. database.periods \in SUBSET Nat
    BY DEF CatalogInv, Kept, CatalogTyped
  <2>3. /\ last + job[p].period \in Nat
        /\ \A n \in database'.periods : n <= last + job[p].period
    BY <1>5, <1>6, <2>1, <2>2
  <2>4. database' \in [number : 0..made', periods : SUBSET Nat]
    BY <1>4, <1>5 DEF CatalogInv, Kept, CatalogTyped
  <2>5. job' = [q \in Processes |-> job'[q]]
    BY <1>3
  <2> QED
    BY <1>4, <1>6, <2>3, <2>4, <2>5 DEF CatalogInv, Kept, CatalogTyped
<1>8. \A q \in Processes : JobOK(job[q])'
  BY <1>2, <1>3, <1>4 DEF CatalogInv, Kept, JobOK, Bound
<1>9. \A q \in Processes \ {p} : job[q].stage = "schema" => database.number # job[q].file
  BY <1>4 DEF CatalogInv, Kept, Fresh, Bound
<1>10. Fresh'
  <2> SUFFICES ASSUME NEW q \in Processes, job'[q].stage = "schema"
               PROVE  /\ database'.number # job'[q].file
                      /\ \A r \in Processes \ {q} :
                           job'[r].stage \in Bound => job'[r].file # job'[q].file
                      /\ \A c \in committed : c[1] # job'[q].file
    BY <1>4 DEF Fresh
  <2>1. q # p /\ job'[q] = job[q]
    BY <1>2, <1>3
  <2>2. ASSUME NEW r \in Processes \ {q}, job'[r].stage \in Bound
        PROVE  job'[r].file # job'[q].file
    <3>1. job[r].stage \in Bound /\ job'[r].file = job[r].file
      BY <1>2, <1>3, <1>4, <2>2 DEF Bound
    <3> QED
      BY <2>1, <2>2, <3>1 DEF CatalogInv, Kept, Fresh
  <2> QED
    BY <1>6, <1>9, <2>1, <2>2 DEF CatalogInv, Kept, Fresh
<1>11. /\ <<job[p].file, job[p].period>> \notin committed
       /\ \A q \in Processes \ {p} : job[q].stage \in Holding =>
            job[q].file # job[p].file \/ job[q].period # job[p].period
  <2>1. Catalog!Exists
    BY <1>4 DEF Catalog!Exists, Catalog!NoDatabase
  <2> QED
    BY <1>4, <1>5, <2>1 DEF CatalogInv, Kept, Held, Catalog!ReportedRowsStay
<1>12. Held'
  <2> SUFFICES ASSUME NEW q \in Processes, job'[q].stage \in Holding
               PROVE  /\ <<job'[q].file, job'[q].period>> \notin committed
                      /\ database'.number = job'[q].file =>
                           job'[q].period \in database'.periods
                      /\ \A r \in Processes \ {q} : job'[r].stage \in Holding =>
                           job'[r].file # job'[q].file \/ job'[r].period # job'[q].period
    BY <1>4 DEF Held
  <2>1. CASE q = p
    BY <1>2, <1>3, <1>6, <1>11, <2>1
  <2>2. CASE q # p
    <3>1. job'[q] = job[q] /\ job[q].stage \in Holding
      BY <1>3, <2>2
    <3>2. /\ <<job[q].file, job[q].period>> \notin committed
          /\ database.number = job[q].file => job[q].period \in database.periods
      BY <3>1 DEF CatalogInv, Kept, Held
    <3>3. ASSUME NEW r \in Processes \ {q}, job'[r].stage \in Holding
          PROVE  job'[r].file # job'[q].file \/ job'[r].period # job'[q].period
      <4>1. CASE r = p
        BY <1>2, <1>3, <1>11, <3>1, <4>1, <2>2
      <4>2. CASE r # p
        BY <1>3, <3>1, <3>3, <4>2 DEF CatalogInv, Kept, Held
      <4> QED
        BY <4>1, <4>2
    <3> QED
      BY <1>6, <3>1, <3>2, <3>3
  <2> QED
    BY <2>1, <2>2
<1>13. Catalog!ReportedRowsStay'
  <2> SUFFICES ASSUME NEW c \in committed, database.number = c[1]
               PROVE  c[2] \in database'.periods
    BY <1>4, <1>6 DEF Catalog!ReportedRowsStay
  <2>1. Catalog!Exists
    BY <1>4 DEF Catalog!Exists, Catalog!NoDatabase
  <2> QED
    BY <1>6, <2>1 DEF CatalogInv, Kept, Catalog!ReportedRowsStay
<1>14. ASSUME ~ faulty PROVE Undisturbed'
  <2>1. Undisturbed
    BY <1>14 DEF CatalogInv
  <2>2. \E n \in Nat : database'.periods = 0..n
    <3>1. CASE job[p].stage = "schema"
      <4>1. 0..0 = {0} /\ 0 \in Nat
        OBVIOUS
      <4> QED
        BY <1>5, <1>6, <3>1, <4>1
    <3>2. CASE job[p].stage = "insert"
      <4>1. job[p].period - 1 \in database.periods
        BY <2>1, <3>2 DEF Undisturbed
      <4>2. PICK n \in Nat : database.periods = 0..n
        BY <2>1, <4>1 DEF Undisturbed
      <4>3. job[p].period = n + 1
        BY <1>5, <4>1, <4>2
      <4>4. n + 1 \in Nat /\ 0..(n + 1) = 0..n \cup {n + 1}
        BY <4>2
      <4> QED
        BY <1>6, <4>2, <4>3, <4>4
    <3> QED
      BY <1>4, <3>1, <3>2
  <2>3. AllFiles(j.period) \ j.left = {}
    <3>1. j.left = AllFiles(j.period)
      BY <1>2, <1>4 DEF CatalogInv, Kept, JobOK, AllFiles
    <3> QED
      BY <3>1
  <2>4. \A n : /\ AllFiles(n)' = AllFiles(n) /\ Finished(n)' = Finished(n)
    BY <1>4 DEF AllFiles, Finished, Catalog!OpeningFiles, Catalog!FilesOf
  <2>5. ASSUME NEW q \in Processes
        PROVE  /\ job'[q].stage \notin {"abandon", "undo", "unlink"}
               /\ job'[q].stage \in Bound => database'.number = job'[q].file
               /\ job'[q].stage \in {"computed", "insert"} =>
                    job'[q].period - 1 \in database'.periods
               /\ job'[q].stage = "files" =>
                    AllFiles(job'[q].period) \ job'[q].left \subseteq artifacts'
    <3>1. CASE q = p
      BY <1>2, <1>3, <1>4, <1>6, <2>3, <3>1
    <3>2. CASE q # p
      BY <1>3, <1>4, <1>6, <2>1, <3>2 DEF Undisturbed
    <3> QED
      BY <3>1, <3>2
  <2>6. ASSUME NEW n \in database'.periods
        PROVE  \/ \E q \in Processes : job'[q].stage = "files" /\ job'[q].period = n
               \/ Finished(n)'
    <3>1. CASE n = job[p].period
      BY <1>2, <1>3, <3>1
    <3>2. CASE n \in database.periods /\ Finished(n)
      BY <2>4, <3>2
    <3>3. ASSUME NEW q \in Processes, job[q].stage = "files", job[q].period = n
          PROVE  job'[q].stage = "files" /\ job'[q].period = n
      BY <1>2, <1>3, <3>3
    <3> QED
      BY <1>6, <2>1, <3>1, <3>2, <3>3 DEF Undisturbed
  <2>7. database'.periods # {}
    BY <1>6
  <2> QED
    BY <2>2, <2>4, <2>5, <2>6, <2>7 DEF Undisturbed
<1> QED
  BY <1>4, <1>7, <1>8, <1>10, <1>12, <1>13, <1>14 DEF CatalogInv, Kept

(* Taking back: only a command that failed does it, and what it takes back  *)
(* is its own, or the whole file.                                           *)
LEMMA UndoStep ==
  ASSUME CatalogInv, NEW p \in Processes,
         Catalog!Abandon(p) \/ Catalog!DeleteRows(p) \/ Catalog!UnlinkFiles(p)
  PROVE  CatalogInv'
<1>1. job[p].stage \in {"abandon", "undo", "unlink"}
  BY DEF Catalog!Abandon, Catalog!DeleteRows, Catalog!UnlinkFiles
<1>2. faulty /\ faulty' = faulty /\ UNCHANGED <<made, committed>>
  BY <1>1 DEF Catalog!Abandon, Catalog!DeleteRows, Catalog!UnlinkFiles, CatalogInv, Undisturbed
<1>3. PICK j :
        /\ Catalog!Become(p, j)
        /\ \/ j.stage = "idle"
           \/ /\ job[p].stage = "undo" /\ j.stage = "unlink"
              /\ j.file = job[p].file /\ j.period = job[p].period
  <2>1. CASE Catalog!Become(p, Catalog!Idle)
    BY <2>1, IdleJob
  <2>2. CASE job[p].stage = "undo" /\ Catalog!Become(p, [job[p] EXCEPT !.stage = "unlink"])
    <3>1. PICK j : Catalog!Become(p, j) /\ j = [job[p] EXCEPT !.stage = "unlink"]
      BY <2>2
    <3>2. j.stage = "unlink" /\ j.file = job[p].file /\ j.period = job[p].period
      BY <3>1
    <3> QED
      BY <2>2, <3>1, <3>2
  <2> QED
    BY <2>1, <2>2 DEF Catalog!Abandon, Catalog!DeleteRows, Catalog!UnlinkFiles, Catalog!Goto
<1>4. JobOK(j) /\ j.stage \notin Holding /\ j.stage # "schema"
  BY <1>3 DEF CatalogInv, Kept, JobOK, Bound, Holding
<1>5. j.stage \in Bound => \A q \in Processes \ {p} :
                            job[q].stage = "schema" => job[q].file # j.file
  BY <1>3 DEF CatalogInv, Kept, Fresh, Bound
<1>6. CASE UNCHANGED database
  <2>1. Kept'
    BY <1>2, <1>3, <1>4, <1>5, <1>6, KeptMove DEF CatalogInv
  <2> QED
    BY <1>2, <2>1 DEF CatalogInv
<1>7. CASE ~ UNCHANGED database
  <2>1. /\ job' = [q \in Processes |-> IF q = p THEN j ELSE job[q]]
        /\ job'[p] = j /\ \A q \in Processes \ {p} : job'[q] = job[q]
    BY <1>3 DEF Catalog!Become, CatalogInv, Kept, CatalogTyped
  <2>2. \/ database' = [number |-> 0, periods |-> {}]
        \/ /\ job[p].stage = "undo" /\ database.number = job[p].file
           /\ database' = [database EXCEPT !.periods = database.periods \ {job[p].period}]
    BY <1>7 DEF Catalog!Abandon, Catalog!NoDatabase, Catalog!DeleteRows, Catalog!UnlinkFiles,
                Catalog!Same
  <2>3. /\ database' \in [number : 0..made, periods : SUBSET Nat]
        /\ database'.number = 0 => database'.periods = {}
        /\ database'.periods \subseteq database.periods
    BY <2>2 DEF CatalogInv, Kept, CatalogTyped
  <2>4. \/ database'.number = 0
        \/ /\ job[p].stage = "undo" /\ database.number = job[p].file
           /\ database'.number = database.number
           /\ database'.periods = database.periods \ {job[p].period}
    BY <2>2 DEF CatalogInv, Kept, CatalogTyped
  <2>5. CatalogTyped'
    <3>1. job' = [q \in Processes |-> job'[q]]
      BY <2>1
    <3> QED
      BY <1>2, <2>3, <3>1 DEF CatalogInv, Kept, CatalogTyped
  <2>6. \A q \in Processes : JobOK(job[q])'
    BY <1>2, <1>4, <2>1 DEF CatalogInv, Kept, JobOK
  <2>7. \A q \in Processes :
          job'[q].stage \in Holding \cup {"schema"} => job'[q] = job[q] /\ q # p
    BY <1>4, <2>1
  <2>8. Fresh'
    <3> SUFFICES ASSUME NEW q \in Processes, job'[q].stage = "schema"
                 PROVE  /\ database'.number = job'[q].file => database'.periods = {}
                        /\ \A r \in Processes \ {q} :
                             job'[r].stage \in Bound => job'[r].file # job'[q].file
                        /\ \A c \in committed : c[1] # job'[q].file
      BY <1>2 DEF Fresh
    <3>1. job'[q] = job[q] /\ q # p /\ job[q].stage = "schema"
      BY <2>7
    <3>2. database'.number = job[q].file => database'.periods = {}
      BY <2>3, <2>4, <3>1 DEF CatalogInv, Kept, Fresh, JobOK, Bound
    <3>3. ASSUME NEW r \in Processes \ {q}, job'[r].stage \in Bound
          PROVE  job'[r].file # job[q].file
      BY <1>5, <2>1, <3>1, <3>3 DEF CatalogInv, Kept, Fresh
    <3> QED
      BY <3>1, <3>2, <3>3 DEF CatalogInv, Kept, Fresh
  <2>9. Held'
    <3> SUFFICES ASSUME NEW q \in Processes, job'[q].stage \in Holding
                 PROVE  /\ <<job'[q].file, job'[q].period>> \notin committed
                        /\ database'.number = job'[q].file =>
                             job'[q].period \in database'.periods
                        /\ \A r \in Processes \ {q} : job'[r].stage \in Holding =>
                             job'[r].file # job'[q].file \/ job'[r].period # job'[q].period
      BY <1>2 DEF Held
    <3>1. job'[q] = job[q] /\ q # p /\ job[q].stage \in Holding
      BY <2>7
    <3>2. database'.number = job[q].file => job[q].period \in database'.periods
      <4>1. /\ job[q].file # 0
            /\ database.number = job[q].file => job[q].period \in database.periods
        <5>1. job[q].file \in 1..made /\ made \in Nat
          BY <3>1 DEF CatalogInv, Kept, CatalogTyped, JobOK, Holding, Bound
        <5>2. job[q].file # 0
          BY <5>1
        <5>3. database.number = job[q].file => job[q].period \in database.periods
          <6>1. Held /\ q \in Processes /\ job[q].stage \in Holding
            BY <3>1 DEF CatalogInv, Kept
          <6> QED
            BY <6>1 DEF Held
        <5> QED
          BY <5>2, <5>3
      <4>2. job[p].stage = "undo" => job[q].file # job[p].file \/ job[q].period # job[p].period
        BY <3>1 DEF CatalogInv, Kept, Held, Holding
      <4> QED
        BY <2>4, <4>1, <4>2
    <3>3. \A r \in Processes \ {q} : job'[r].stage \in Holding =>
            job'[r].file # job[q].file \/ job'[r].period # job[q].period
      BY <2>7, <3>1 DEF CatalogInv, Kept, Held
    <3> QED
      BY <3>1, <3>2, <3>3 DEF CatalogInv, Kept, Held
  <2>10. Catalog!ReportedRowsStay'
    <3> SUFFICES ASSUME NEW c \in committed, database'.number = c[1]
                 PROVE  c[2] \in database'.periods
      BY <1>2 DEF Catalog!ReportedRowsStay
    <3>1. c = <<c[1], c[2]>> /\ c[1] # 0
      BY DEF CatalogInv, Kept, CatalogTyped
    <3>2. /\ job[p].stage = "undo" /\ database.number = job[p].file
          /\ database.number = c[1]
          /\ database'.periods = database.periods \ {job[p].period}
      BY <2>4, <3>1
    <3>3. c[2] # job[p].period
      <4>1. <<job[p].file, job[p].period>> \notin committed
        BY <3>2 DEF CatalogInv, Kept, Held, Holding
      <4> QED
        BY <3>1, <3>2, <4>1
    <3>4. Catalog!Exists
      BY <3>1, <3>2 DEF Catalog!Exists, Catalog!NoDatabase
    <3> QED
      BY <3>2, <3>3, <3>4 DEF CatalogInv, Kept, Catalog!ReportedRowsStay
  <2> QED
    BY <1>2, <2>5, <2>6, <2>8, <2>9, <2>10 DEF CatalogInv, Kept
<1> QED
  BY <1>6, <1>7

(* A command answers for rows that it still holds, and lets go of them.     *)
LEMMA AnswerStep ==
  ASSUME CatalogInv, NEW p \in Processes, Catalog!Answer(p)
  PROVE  CatalogInv'
<1>1. /\ job' = [q \in Processes |-> IF q = p THEN Catalog!Idle ELSE job[q]]
      /\ job'[p] = Catalog!Idle /\ \A q \in Processes \ {p} : job'[q] = job[q]
  BY DEF Catalog!Answer, Catalog!Become, CatalogInv, Kept, CatalogTyped
<1>2. /\ job[p].stage = "files" /\ job[p].left = {}
      /\ UNCHANGED <<database, made, faulty>> /\ artifacts \subseteq artifacts'
      /\ job[p].period > 0 => <<"report", job[p].period>> \in artifacts'
      /\ committed' = committed \cup {<<job[p].file, job[p].period>>}
  BY DEF Catalog!Answer
<1>3. /\ job[p].file \in 1..made /\ job[p].period \in Nat
      /\ database.number = job[p].file => job[p].period \in database.periods
  BY <1>2 DEF CatalogInv, Kept, JobOK, Held, Bound, Holding
<1>4. \A q \in Processes : job'[q].stage \in Bound => q # p /\ job'[q] = job[q]
  BY <1>1, IdleJob
<1>5. CatalogTyped'
  <2>1. job' = [q \in Processes |-> job'[q]]
    BY <1>1
  <2> QED
    BY <1>2, <1>3, <2>1 DEF CatalogInv, Kept, CatalogTyped
<1>6. \A q \in Processes : JobOK(job[q])'
  BY <1>1, <1>2, IdleJob DEF CatalogInv, Kept, JobOK, Bound
<1>7. Fresh'
  <2> SUFFICES ASSUME NEW q \in Processes, job'[q].stage = "schema"
               PROVE  /\ database.number = job'[q].file => database.periods = {}
                      /\ \A r \in Processes \ {q} :
                           job'[r].stage \in Bound => job'[r].file # job'[q].file
                      /\ \A c \in committed' : c[1] # job'[q].file
    BY <1>2 DEF Fresh
  <2>1. job'[q] = job[q] /\ q # p /\ job[q].stage = "schema"
    BY <1>4 DEF Bound
  <2>2. job[p].file # job[q].file
    BY <1>2, <2>1 DEF CatalogInv, Kept, Fresh, Bound
  <2> QED
    BY <1>2, <1>4, <2>1, <2>2 DEF CatalogInv, Kept, Fresh
<1>8. Held'
  <2> SUFFICES ASSUME NEW q \in Processes, job'[q].stage \in Holding
               PROVE  /\ <<job'[q].file, job'[q].period>> \notin committed'
                      /\ database.number = job'[q].file =>
                           job'[q].period \in database.periods
                      /\ \A r \in Processes \ {q} : job'[r].stage \in Holding =>
                           job'[r].file # job'[q].file \/ job'[r].period # job'[q].period
    BY <1>2 DEF Held
  <2>1. job'[q] = job[q] /\ q # p /\ job[q].stage \in Holding
    BY <1>4 DEF Bound, Holding
  <2>2. job[q].file # job[p].file \/ job[q].period # job[p].period
    BY <1>2, <2>1 DEF CatalogInv, Kept, Held, Holding
  <2>3. \A r \in Processes : job'[r].stage \in Holding =>
          job'[r] = job[r] /\ job[r].stage \in Holding
    BY <1>4 DEF Bound, Holding
  <2> QED
    BY <1>2, <2>1, <2>2, <2>3 DEF CatalogInv, Kept, Held
<1>9. Catalog!ReportedRowsStay'
  BY <1>2, <1>3 DEF CatalogInv, Kept, Catalog!ReportedRowsStay, Catalog!Exists
<1>10. Kept'
  BY <1>5, <1>6, <1>7, <1>8, <1>9 DEF Kept
<1>11. ASSUME ~ faulty PROVE Undisturbed'
  <2>1. AllFiles(job[p].period) \subseteq artifacts
    BY <1>2, <1>11 DEF CatalogInv, Undisturbed
  <2>2. \A n \in {job[p].period} : Finished(n)'
    BY <1>2, <2>1 DEF Finished, AllFiles, Catalog!OpeningFiles, Catalog!FilesOf
  <2>3. PICK j : j = Catalog!Idle /\ Catalog!Become(p, j)
    BY DEF Catalog!Answer
  <2>4. j.stage = "idle" /\ j.stage \notin Bound
    BY <2>3, IdleJob
  <2>5. /\ j.stage \notin {"abandon", "undo", "unlink"} /\ j.stage # "files"
        /\ j.stage \notin {"computed", "insert"} /\ job[p].stage # "schema"
    BY <1>2, <2>4
  <2> QED
    BY <1>2, <1>11, <2>2, <2>3, <2>4, <2>5, CalmMove DEF CatalogInv
<1> QED
  BY <1>2, <1>10, <1>11 DEF CatalogInv

LEMMA CatalogInit == Catalog!Init => CatalogInv
<1> SUFFICES ASSUME Catalog!Init PROVE CatalogInv
  OBVIOUS
<1>1. \A p \in Processes : job[p].stage = "idle"
  BY IdleJob DEF Catalog!Init
<1>2. database.number = 0 /\ database.periods = {} /\ made = 0 /\ committed = {}
  BY DEF Catalog!Init, Catalog!NoDatabase
<1>3. CatalogTyped
  <2>1. database \in [number : 0..made, periods : SUBSET Nat]
    BY <1>2 DEF Catalog!Init, Catalog!NoDatabase
  <2>2. job = [p \in Processes |-> job[p]]
    BY DEF Catalog!Init
  <2>3. \A n \in database.periods : n <= 0
    BY <1>2
  <2> QED
    BY <1>2, <2>1, <2>2, <2>3 DEF CatalogTyped
<1>4. Kept
  BY <1>1, <1>2, <1>3 DEF Kept, JobOK, Fresh, Held, Bound, Holding,
                          Catalog!ReportedRowsStay
<1>5. Undisturbed
  BY <1>1, <1>2 DEF Undisturbed, Bound
<1> QED
  BY <1>4, <1>5 DEF CatalogInv

LEMMA CatalogNext == CatalogInv /\ [Catalog!Next]_catalogVars => CatalogInv'
<1> SUFFICES ASSUME CatalogInv, [Catalog!Next]_catalogVars PROVE CatalogInv'
  OBVIOUS
<1>1. CASE UNCHANGED catalogVars
  BY <1>1 DEF catalogVars, CatalogInv, Kept, CatalogTyped, JobOK, Fresh, Held, Undisturbed,
              Finished, AllFiles, Catalog!ReportedRowsStay, Catalog!Exists, Catalog!FilesOf,
              Catalog!OpeningFiles
<1>2. ASSUME NEW p \in Processes, Catalog!Step(p) \/ Catalog!Die(p) PROVE CatalogInv'
  <2>1. ASSUME NEW n, Catalog!Report(p, n) PROVE CatalogInv'
    BY <2>1, ReportStep
  <2> QED
    BY <1>2, <2>1, LookStep, RunStep, FileStep, CreateStep, RowStep, UndoStep, AnswerStep
    DEF Catalog!Step
<1> QED
  BY <1>1, <1>2 DEF Catalog!Next

LEMMA InvImpliesCatalog == CatalogInv => CatalogSound
<1> SUFFICES ASSUME CatalogInv, Catalog!Exists, ~ faulty,
                    \A p \in Processes : job[p] = Catalog!Idle
             PROVE  Catalog!Valid
  BY DEF CatalogSound, Catalog!CatalogSound, Catalog!ValidUnlessFault, CatalogInv, Kept
<1>1. \A p \in Processes : job[p].stage = "idle"
  BY IdleJob
<1>2. database.number # 0
  BY DEF CatalogInv, Kept, CatalogTyped, Catalog!Exists, Catalog!NoDatabase
<1>3. PICK n \in Nat : database.periods = 0..n
  BY <1>1, <1>2 DEF CatalogInv, Undisturbed
<1>4. \A m \in 0..n : Finished(m)
  BY <1>1, <1>3 DEF CatalogInv, Undisturbed
<1>5. Catalog!Newest = n
  <2>1. n \in 0..n /\ 0 \in 0..n
    OBVIOUS
  <2>2. /\ Catalog!Newest \in 0..n /\ \A k \in 0..n : k <= Catalog!Newest
    BY <1>3, <2>1, NewestRow DEF CatalogInv, Kept
  <2> QED
    BY <2>1, <2>2
<1>6. Catalog!OpeningFiles \subseteq artifacts
  <2>1. 0 \in 0..n
    OBVIOUS
  <2> QED
    BY <1>4, <2>1 DEF Finished, AllFiles
<1>7. ASSUME NEW m \in 1..n
      PROVE  Catalog!FilesOf(m) \cup {<<"report", m>>} \subseteq artifacts
  <2>1. m \in 0..n /\ m > 0 /\ m # 0
    OBVIOUS
  <2> QED
    BY <1>4, <2>1 DEF Finished, AllFiles
<1> QED
  BY <1>3, <1>5, <1>6, <1>7 DEF Catalog!Valid
-----------------------------------------------------------------------------
(* The evidence shown for an occurrence is the least of the events that count. *)
LEMMA EvidenceLeast ==
  ASSUME NEW Given \in SUBSET Event, NEW r, Candidates(Given, r) # {}
  PROVE  /\ Evidence(Given, r) \in Candidates(Given, r)
         /\ \A f \in Candidates(Given, r) : Evidence(Given, r).id <= f.id
<1> DEFINE ids == {e.id : e \in Candidates(Given, r)}
<1>1. Candidates(Given, r) \subseteq Event
  BY DEF Candidates
<1>2. ids \in SUBSET Nat /\ ids # {}
  BY <1>1, OperationAssumption DEF Event
<1>3. PICK i \in ids : \A j \in ids : i <= j
  <2> HIDE DEF ids
  <2> QED  BY <1>2, LeastPosition
<1>4. PICK e \in Candidates(Given, r) : e.id = i
  BY <1>3
<1>5. \A f \in Candidates(Given, r) : e.id <= f.id
  BY <1>3, <1>4
<1> QED
  BY <1>5 DEF Evidence

(* More events only add candidates; the evidence, when it is one of the     *)
(* fewer events, was the least of those too.                                *)
LEMMA MoreEvents ==
  ASSUME NEW few \in SUBSET Event, NEW many \in SUBSET Event, few \subseteq many,
         ContextAccepted(few), NEW r, Candidates(few, r) # {}
  PROVE  /\ Candidates(many, r) # {}
         /\ Evidence(many, r) \in few => Evidence(many, r) = Evidence(few, r)
<1>1. Candidates(few, r) \subseteq Candidates(many, r)
  BY DEF Candidates
<1>2. /\ Evidence(few, r) \in Candidates(few, r)
      /\ \A f \in Candidates(few, r) : Evidence(few, r).id <= f.id
  BY EvidenceLeast
<1>3. /\ Evidence(many, r) \in Candidates(many, r)
      /\ \A f \in Candidates(many, r) : Evidence(many, r).id <= f.id
  BY <1>1, EvidenceLeast
<1>4. ASSUME Evidence(many, r) \in few
      PROVE  Evidence(many, r) = Evidence(few, r)
  <2>1. Evidence(many, r) \in Candidates(few, r)
    BY <1>3, <1>4 DEF Candidates
  <2>2. /\ Evidence(few, r).id <= Evidence(many, r).id
        /\ Evidence(many, r).id <= Evidence(few, r).id
    BY <2>1, <1>1, <1>2, <1>3
  <2>3. Evidence(few, r) \in few
    BY <1>2 DEF Candidates
  <2>4. Evidence(few, r).id \in Nat /\ Evidence(many, r).id \in Nat
    BY <2>3, <1>4, OperationAssumption DEF Event
  <2>5. Evidence(few, r).id = Evidence(many, r).id
    BY <2>2, <2>4
  <2> QED
    BY <2>3, <2>5, <1>4 DEF ContextAccepted
<1> QED
  BY <1>1, <1>3, <1>4

\* Every boot was given some of the recorded events, no identity twice, and
\* showed what follows from them alone.
Shows ==
  /\ recorded \subseteq Event
  /\ \A b \in boots : /\ b.given \subseteq recorded
                      /\ ContextAccepted(b.given)
                      /\ b.shown = Surfaced(b.given)

LEMMA ShowsInit == Init => Shows
BY DEF Init, Shows

LEMMA ShowsNext == Shows /\ [Next]_operationVars => Shows'
<1> SUFFICES ASSUME Shows, [Next]_operationVars PROVE Shows'
  OBVIOUS
<1>1. ASSUME NEW e \in Event, Record(e) PROVE Shows'
  BY <1>1 DEF Record, Shows
<1>2. ASSUME NEW Given \in SUBSET recorded, Boot(Given) PROVE Shows'
  <2>1. /\ boots' = boots \cup {[given |-> Given, shown |-> Surfaced(Given)]}
        /\ recorded' = recorded /\ ContextAccepted(Given)
    BY <1>2 DEF Boot
  <2> QED
    BY <2>1 DEF Shows
<1>3. CASE UNCHANGED operationVars
  BY <1>3 DEF operationVars, Shows
<1> QED
  BY <1>1, <1>2, <1>3 DEF Next, BootRefused

LEMMA InvImpliesNothingHidden == Shows => MoreEventsHideNothing
<1> SUFFICES ASSUME Shows, NEW a \in boots, NEW o \in DOMAIN a.shown
             PROVE  /\ \A r \in Required[o] :
                         /\ a.shown[o][r] \in a.given
                         /\ a.shown[o][r].played /\ a.shown[o][r].canonical
                         /\ a.shown[o][r].of = r
                    /\ \A b \in boots : a.given \subseteq b.given =>
                         /\ o \in DOMAIN b.shown
                         /\ \A r \in Required[o] :
                              b.shown[o][r] \in a.given => b.shown[o][r] = a.shown[o][r]
  BY DEF MoreEventsHideNothing
<1>1. \A b \in boots : /\ b.given \in SUBSET Event /\ ContextAccepted(b.given)
                      /\ b.shown = Surfaced(b.given)
  BY DEF Shows
<1>2. /\ o \in Operations
      /\ \A r \in Required[o] : /\ Candidates(a.given, r) # {}
                               /\ a.shown[o][r] = Evidence(a.given, r)
  <2>1. a.shown = Surfaced(a.given)
    BY <1>1
  <2> QED
    BY <2>1 DEF Surfaced
<1>3. ASSUME NEW r \in Required[o]
      PROVE  a.shown[o][r] \in Candidates(a.given, r)
  BY <1>1, <1>2, EvidenceLeast
<1>4. ASSUME NEW b \in boots, a.given \subseteq b.given
      PROVE  /\ o \in DOMAIN b.shown
             /\ \A r \in Required[o] :
                  b.shown[o][r] \in a.given => b.shown[o][r] = a.shown[o][r]
  <2>1. ASSUME NEW r \in Required[o]
        PROVE  /\ Candidates(b.given, r) # {}
               /\ Evidence(b.given, r) \in a.given
                    => Evidence(b.given, r) = Evidence(a.given, r)
    BY <1>1, <1>2, <1>4, MoreEvents
  <2>2. /\ o \in DOMAIN b.shown
        /\ \A r \in Required[o] : b.shown[o][r] = Evidence(b.given, r)
    <3>1. b.shown = Surfaced(b.given)
      BY <1>1
    <3>2. o \in Operations /\ \A r \in Required[o] : Candidates(b.given, r) # {}
      BY <1>2, <2>1
    <3> QED
      BY <3>1, <3>2 DEF Surfaced
  <2> QED
    BY <1>2, <2>1, <2>2
<1> QED
  BY <1>3, <1>4 DEF Candidates

(* Every operation shown rests on given events that were played, are canon  *)
(* and match its gate, and a boot that is given all the events of another,  *)
(* and more, hides nothing the other showed and keeps its evidence unless a *)
(* further event replaces it.                                               *)
THEOREM NothingHiddenByMore == Spec => []MoreEventsHideNothing
<1> QED
  BY ShowsInit, ShowsNext, InvImpliesNothingHidden, PTL DEF Spec
-----------------------------------------------------------------------------
PreviewInv == DirectoryInv /\ CatalogInv /\ Shows /\ CensusInv

(* What a behaviour is not about it leaves as it was in the first state.    *)
LEMMA PreviewInductive == PreviewSpec => []PreviewInv
<1>1. PreviewInit => PreviewInv
  BY DirectoryInit, CatalogInit, ShowsInit, CensusStart
  DEF PreviewInit, CensusUnused, PreviewInv
<1>2. PreviewInv /\ [PreviewNext]_<<kind, workspaceVars, catalogVars, operationVars, censusVars>>
        => PreviewInv'
  <2> SUFFICES ASSUME PreviewInv,
                      [PreviewNext]_<<kind, workspaceVars, catalogVars, operationVars,
                                      censusVars>>
               PROVE  PreviewInv'
    OBVIOUS
  <2>1. /\ [Directory!Next]_workspaceVars /\ [Catalog!Next]_catalogVars
        /\ [Next]_operationVars /\ [CensusNext]_censusVars
    BY DEF PreviewNext
  <2> QED
    BY <2>1, DirectoryNext, CatalogNext, ShowsNext, CensusStep DEF PreviewInv
<1> QED
  BY <1>1, <1>2, PTL DEF PreviewSpec

(* Whatever processes race, fail or die, the directory shows a complete     *)
(* history of the sealed input, with every month a caller was told of.      *)
THEOREM AlwaysSealed == PreviewSpec => []SealedHistory
<1>1. PreviewInv => SealedHistory
  BY InvImpliesSealed DEF PreviewInv
<1> QED
  BY <1>1, PreviewInductive, PTL

(* A directory refuses to open only during a commit or after a death: a     *)
(* failed commit, or one that lost its month, leaves nothing behind.        *)
THEOREM AlwaysOpens == PreviewSpec => []OpensUnlessDeath
<1>1. PreviewInv => OpensUnlessDeath
  BY InvImpliesOpens DEF PreviewInv
<1> QED
  BY <1>1, PreviewInductive, PTL

(* A month reported as committed keeps its rows while its database file     *)
(* exists, and commands that only race leave a catalog that verify accepts. *)
THEOREM AlwaysSound == PreviewSpec => []CatalogSound
<1>1. PreviewInv => CatalogSound
  BY InvImpliesCatalog DEF PreviewInv
<1> QED
  BY <1>1, PreviewInductive, PTL

(* In the same behaviours further events hide no operation, and a complete  *)
(* census lacks no page that lasted.                                        *)
THEOREM AlwaysKept == PreviewSpec => [](MoreEventsHideNothing /\ LastingPagesKept)
<1>1. PreviewInv => MoreEventsHideNothing /\ LastingPagesKept
  BY InvImpliesNothingHidden, InvImpliesKept DEF PreviewInv
<1> QED
  BY <1>1, PreviewInductive, PTL
-----------------------------------------------------------------------------
(* The business store: its file, its receipts and its runs.                 *)

\* A run that can be stored: its receipt is there.
WithReceipt(run) == run \in Run /\ run.export \in exports
IsTrue(x) == x = Nothing \/ \E r \in runs : x = <<r>>

\* What a process knows about the database where it is.
LocalOK(t) ==
  /\ t.at = "schema" => file = "reserved"
  /\ t.at = "metadata" => file = "schema"
  /\ t.at \notin {"idle", "schema", "metadata"} => file = "ready"
  /\ t.at \in {"schema", "metadata", "import", "insert"} => t.export \in Exports
  /\ t.at = "begin" => \/ t.next = "import" /\ t.export \in Exports
                       \/ t.next = "check" /\ WithReceipt(t.run)
  /\ t.at = "insert" => Fits(t.export)
  /\ t.at = "choose" => t.command \in Command
  /\ t.at \in {"check", "commit", "answer"} => WithReceipt(t.run)
  /\ t.at = "commit" => SamePeriod(t.run) = {}
  /\ t.at = "answer" => t.run \in runs

Functions == /\ proc = [p \in Procs |-> proc[p]]
             /\ said = [p \in Procs |-> said[p]]

\* One receipt of a capture, with its rows; one run of a receipt, entity and
\* month, with its receipt.
FileKept ==
  /\ file \in {"absent", "reserved", "schema", "ready"}
  /\ exports \subseteq Exports /\ snapshotRows = {SnapshotOf[e] : e \in exports}
  /\ \A e, f \in exports : CapturedAt[e] = CapturedAt[f] => e = f
  /\ \A r \in runs : WithReceipt(r)
  /\ \A r, s \in runs : Period(r) = Period(s) => r = s
  /\ file # "ready" => exports = {} /\ runs = {}

Creating(p) == proc[p].at \in {"schema", "metadata"}
OneCreator == \A p, q \in Procs : Creating(p) /\ Creating(q) => p = q

Locked ==
  /\ writer \in Procs \cup {NoProc}
  /\ \A p \in Procs : proc[p].at \in {"import", "insert", "check", "commit"} <=> writer = p

Located == \A p \in Procs : LocalOK(proc[p])
Honest == \A p \in Procs : IsTrue(said[p])

StoreInv == Functions /\ FileKept /\ OneCreator /\ Locked /\ Located /\ Honest
-----------------------------------------------------------------------------
LEMMA InitHolds == BInit => StoreInv
<1> SUFFICES ASSUME BInit PROVE StoreInv
  OBVIOUS
<1>1. \A p \in Procs : proc[p] = Idle /\ Idle.at = "idle" /\ said[p] = Nothing
  BY DEF BInit, Idle
<1>2. Functions /\ FileKept /\ OneCreator
  BY <1>1 DEF BInit, Functions, FileKept, OneCreator, Creating
<1>3. Locked /\ Located /\ Honest
  BY <1>1, MarkAssumption DEF BInit, Locked, Located, LocalOK, Honest, IsTrue
<1> QED
  BY <1>2, <1>3 DEF StoreInv

(* A step that leaves the tables alone keeps the invariant if it leaves the *)
(* process where it may be, with something true said.                       *)
LEMMA LocalStep ==
  ASSUME StoreInv, NEW p \in Procs, NEW t, Become(p, t), UNCHANGED <<file, tables>>,
         NEW x, said' = [said EXCEPT ![p] = x], IsTrue(x),
         LocalOK(t), t.at \notin {"schema", "metadata"},
         writer' \in Procs \cup {NoProc},
         t.at \in {"import", "insert", "check", "commit"} <=> writer' = p,
         \A q \in Procs \ {p} : writer' = q <=> writer = q
  PROVE  StoreInv'
<1>1. /\ proc' = [q \in Procs |-> IF q = p THEN t ELSE proc[q]]
      /\ said' = [q \in Procs |-> IF q = p THEN x ELSE said[q]]
  BY DEF Become, StoreInv, Functions
<1>2. UNCHANGED <<file, exports, snapshotRows, runs>>
  BY DEF tables
<1>3. Functions' /\ FileKept'
  BY <1>1, <1>2 DEF StoreInv, Functions, FileKept, WithReceipt
<1>4. OneCreator' /\ Locked'
  BY <1>1 DEF StoreInv, OneCreator, Creating, Locked
<1>5. \A u : LocalOK(u)' <=> LocalOK(u)
  BY <1>2 DEF LocalOK, WithReceipt, Fits, SamePeriod
<1>6. \A u : IsTrue(u)' <=> IsTrue(u)
  BY <1>2 DEF IsTrue
<1>7. Located' /\ Honest'
  BY <1>1, <1>5, <1>6 DEF StoreInv, Located, Honest
<1> QED
  BY <1>3, <1>4, <1>7 DEF StoreInv

(* The same of a step that says nothing. *)
LEMMA SilentStep ==
  ASSUME StoreInv, NEW p \in Procs, NEW t, Become(p, t), UNCHANGED <<file, tables, said>>,
         LocalOK(t), t.at \notin {"schema", "metadata"},
         writer' \in Procs \cup {NoProc},
         t.at \in {"import", "insert", "check", "commit"} <=> writer' = p,
         \A q \in Procs \ {p} : writer' = q <=> writer = q
  PROVE  StoreInv'
<1>1. said' = [said EXCEPT ![p] = said[p]] /\ IsTrue(said[p])
  BY DEF StoreInv, Functions, Honest
<1> QED
  BY <1>1, LocalStep

(* A command that ends without a run gives up the lock it may hold. *)
LEMMA FinishStep ==
  ASSUME StoreInv, NEW p \in Procs, Finish(p), UNCHANGED <<file, tables, said>>,
         writer' = IF writer = p THEN NoProc ELSE writer
  PROVE  StoreInv'
<1>1. LocalOK(Idle) /\ Idle.at = "idle"
  BY DEF LocalOK, Idle
<1> QED
  BY <1>1, SilentStep, MarkAssumption DEF Finish, StoreInv, Locked
-----------------------------------------------------------------------------
(* Reserving the file, its schema, the first receipt, and a failure. *)
LEMMA CreatingStep ==
  ASSUME StoreInv, NEW p \in Procs,
         \/ \E e \in Exports : Reserve(p, e)
         \/ WriteSchema(p) \/ WriteMetadata(p) \/ FailCreate(p)
  PROVE  StoreInv' /\ UNCHANGED <<runs, said>>
<1>1. /\ file # "ready" /\ exports = {} /\ runs = {}
      /\ proc[p].at \in {"idle", "schema", "metadata"}
      /\ writer # p /\ UNCHANGED <<writer, runs, said>>
  BY DEF Reserve, WriteSchema, WriteMetadata, FailCreate, At, tables,
         StoreInv, Located, LocalOK, Locked, FileKept
<1>2. PICK t : /\ Become(p, t)
               /\ \/ /\ t.at = "idle" /\ file' = "absent" /\ Creating(p)
                     /\ UNCHANGED <<exports, snapshotRows>>
                  \/ /\ t.at = "schema" /\ file = "absent" /\ file' = "reserved"
                     /\ t.export \in Exports /\ UNCHANGED <<exports, snapshotRows>>
                  \/ /\ t.at = "metadata" /\ file' = "schema" /\ Creating(p)
                     /\ t.export \in Exports /\ UNCHANGED <<exports, snapshotRows>>
                  \/ /\ t.at = "idle" /\ file' = "ready" /\ Creating(p)
                     /\ \E e \in Exports : exports' = {e} /\ snapshotRows' = {SnapshotOf[e]}
  <2>1. ASSUME NEW e \in Exports, Reserve(p, e)
        PROVE  \E t : /\ Become(p, t) /\ t.at = "schema" /\ t.export \in Exports
                      /\ file = "absent" /\ file' = "reserved"
                      /\ UNCHANGED <<exports, snapshotRows>>
    <3>1. PICK t : t = [at |-> "schema", export |-> e] /\ Become(p, t)
      BY <2>1 DEF Reserve
    <3> QED
      BY <2>1, <3>1 DEF Reserve, tables
  <2>2. CASE WriteSchema(p)
    <3>1. PICK t : t = Goto(p, "metadata") /\ Become(p, t)
      BY <2>2 DEF WriteSchema
    <3>2. proc[p].at = "schema" /\ proc[p].export \in Exports
      BY <2>2 DEF WriteSchema, At, StoreInv, Located, LocalOK
    <3>3. t.at = "metadata" /\ t.export = proc[p].export
      BY <3>1, <3>2 DEF Goto
    <3> QED
      BY <2>2, <3>1, <3>2, <3>3 DEF WriteSchema, Creating, tables
  <2>3. CASE WriteMetadata(p)
    <3>1. proc[p].at = "metadata" /\ proc[p].export \in Exports
      BY <2>3 DEF WriteMetadata, At, StoreInv, Located, LocalOK
    <3> QED
      BY <2>3, <3>1 DEF WriteMetadata, Finish, Idle, Creating
  <2>4. CASE FailCreate(p)
    BY <2>4 DEF FailCreate, Finish, Idle, At, Creating, tables
  <2> QED
    BY <2>1, <2>2, <2>3, <2>4
<1>3. proc' = [q \in Procs |-> IF q = p THEN t ELSE proc[q]]
  BY <1>2 DEF Become, StoreInv, Functions
<1>4. \A q \in Procs \ {p} : proc[q].at = "idle"
  <2> SUFFICES ASSUME NEW q \in Procs \ {p}, proc[q].at # "idle" PROVE FALSE
    OBVIOUS
  <2>1. Creating(q) /\ file # "absent"
    BY <1>1 DEF StoreInv, Located, LocalOK, Creating
  <2> QED
    BY <1>2, <2>1 DEF StoreInv, OneCreator
<1>5. Functions' /\ OneCreator' /\ Locked'
  BY <1>1, <1>2, <1>3, <1>4 DEF StoreInv, Functions, OneCreator, Creating, Locked
<1>6. FileKept'
  <2>1. CASE UNCHANGED <<exports, snapshotRows>> /\ file' # "ready"
    BY <1>1, <1>2, <2>1 DEF StoreInv, FileKept, WithReceipt
  <2>2. CASE \E e \in Exports : exports' = {e} /\ snapshotRows' = {SnapshotOf[e]}
    BY <1>1, <1>2, <2>2 DEF StoreInv, FileKept
  <2> QED
    BY <1>2, <2>1, <2>2
<1>7. Located' /\ Honest'
  BY <1>1, <1>2, <1>3, <1>4 DEF StoreInv, Located, LocalOK, Honest, IsTrue
<1> QED
  BY <1>1, <1>5, <1>6, <1>7 DEF StoreInv

(* A command begins, chooses its receipt, and takes the lock or gives up.   *)
LEMMA AskedStep ==
  ASSUME StoreInv, NEW p \in Procs,
         \/ \E e \in Exports : Import(p, e)
         \/ \E asked \in Command : RunMonth(p, asked)
  PROVE  StoreInv' /\ UNCHANGED runs /\ said' = [said EXCEPT ![p] = Nothing]
<1>1. /\ file = "ready" /\ UNCHANGED <<file, tables, writer>> /\ writer # p
      /\ said' = [said EXCEPT ![p] = Nothing] /\ IsTrue(Nothing)
      /\ writer \in Procs \cup {NoProc}
  BY DEF Import, RunMonth, At, StoreInv, Locked, IsTrue
<1>2. PICK t : /\ Become(p, t)
               /\ \/ \E e \in Exports : t = [at |-> "begin", next |-> "import", export |-> e]
                  \/ \E k \in Command : t = [at |-> "choose", command |-> k]
  BY DEF Import, RunMonth
<1>3. LocalOK(t) /\ t.at \in {"begin", "choose"}
  BY <1>1, <1>2 DEF LocalOK
<1> QED
  BY <1>1, <1>2, <1>3, LocalStep DEF tables

LEMMA ChooseStep ==
  ASSUME StoreInv, NEW p \in Procs, Choose(p)
  PROVE  StoreInv'
<1> DEFINE k == proc[p].command
<1>1. /\ proc[p].at = "choose" /\ k \in Command /\ file = "ready"
      /\ writer # p /\ writer \in Procs \cup {NoProc} /\ UNCHANGED <<file, tables, writer, said>>
  BY DEF Choose, At, StoreInv, Located, LocalOK, Locked
<1>2. CASE Finish(p)
  BY <1>1, <1>2, FinishStep
<1>3. ASSUME NEW e \in exports,
             Become(p, [at |-> "begin", next |-> "check", run |-> [k EXCEPT !.export = e]])
      PROVE  StoreInv'
  <2>1. PICK run, t : /\ run = [k EXCEPT !.export = e]
                      /\ t = [at |-> "begin", next |-> "check", run |-> run]
    OBVIOUS
  <2>2. WithReceipt(run)
    BY <1>1, <2>1 DEF WithReceipt, Run, Command, StoreInv, FileKept
  <2>3. LocalOK(t) /\ t.at = "begin"
    BY <1>1, <2>1, <2>2 DEF LocalOK
  <2> QED
    BY <1>1, <1>3, <2>1, <2>3, SilentStep
<1> QED
  BY <1>2, <1>3 DEF Choose

LEMMA BeginStep ==
  ASSUME StoreInv, NEW p \in Procs, BeginWriting(p)
  PROVE  StoreInv'
<1>1. /\ proc[p].at = "begin" /\ LocalOK(proc[p]) /\ proc[p].next \in {"import", "check"}
      /\ writer = NoProc /\ writer' = p /\ UNCHANGED <<file, tables, said>>
  BY DEF BeginWriting, At, StoreInv, Located, LocalOK
<1>2. PICK t : t = Goto(p, proc[p].next) /\ Become(p, t)
  BY DEF BeginWriting
<1>3. t.at = proc[p].next /\ t.export = proc[p].export /\ t.run = proc[p].run
  BY <1>1, <1>2 DEF Goto
<1>4. LocalOK(t)
  BY <1>1, <1>3 DEF LocalOK
<1> QED
  BY <1>1, <1>2, <1>3, <1>4, SilentStep, MarkAssumption
-----------------------------------------------------------------------------
LEMMA CheckImportStep ==
  ASSUME StoreInv, NEW p \in Procs, CheckImport(p)
  PROVE  StoreInv'
<1>1. /\ proc[p].at = "import" /\ LocalOK(proc[p]) /\ writer = p
      /\ UNCHANGED <<file, tables, said>>
  BY DEF CheckImport, At, StoreInv, Located, Locked
<1>2. CASE Finish(p) /\ writer' = NoProc
  BY <1>1, <1>2, FinishStep
<1>3. CASE Fits(proc[p].export) /\ Become(p, Goto(p, "insert")) /\ writer' = writer
  <2>1. PICK t : t = Goto(p, "insert") /\ Become(p, t)
    BY <1>3
  <2>2. t.at = "insert" /\ t.export = proc[p].export
    BY <1>1, <2>1 DEF Goto
  <2>3. LocalOK(t)
    BY <1>1, <1>3, <2>2 DEF LocalOK
  <2> QED
    BY <1>1, <1>3, <2>1, <2>2, <2>3, SilentStep
<1> QED
  BY <1>2, <1>3 DEF CheckImport

(* A new receipt brings its rows; no run loses its receipt. *)
LEMMA InsertStep ==
  ASSUME StoreInv, NEW p \in Procs, Insert(p)
  PROVE  StoreInv' /\ UNCHANGED <<runs, said>>
<1>1. PICK e : e = proc[p].export
  OBVIOUS
<1>2. /\ e \in Exports /\ Fits(e) /\ file = "ready" /\ writer = p
      /\ exports' = exports \cup {e} /\ snapshotRows' = snapshotRows \cup {SnapshotOf[e]}
      /\ writer' = NoProc /\ UNCHANGED <<file, runs, said>>
      /\ proc' = [q \in Procs |-> IF q = p THEN Idle ELSE proc[q]]
  BY <1>1 DEF Insert, At, Finish, Become, StoreInv, Functions, Located, LocalOK, Locked
<1>3. Functions' /\ OneCreator' /\ Locked'
  BY <1>2, MarkAssumption
     DEF Idle, StoreInv, Functions, OneCreator, Creating, Locked
<1>4. FileKept'
  BY <1>2 DEF StoreInv, FileKept, WithReceipt, Fits
<1>5. \A q \in Procs \ {p} : LocalOK(proc[q])'
  <2> SUFFICES ASSUME NEW q \in Procs \ {p} PROVE LocalOK(proc[q])'
    OBVIOUS
  <2>1. LocalOK(proc[q]) /\ proc[q].at # "insert" /\ proc'[q] = proc[q]
    BY <1>2 DEF StoreInv, Located, Locked
  <2> QED
    BY <1>2, <2>1 DEF LocalOK, WithReceipt, SamePeriod
<1>6. Located' /\ Honest'
  BY <1>2, <1>5 DEF Idle, StoreInv, Located, LocalOK, Honest, IsTrue
<1> QED
  BY <1>2, <1>3, <1>4, <1>6 DEF StoreInv

LEMMA CheckRunStep ==
  ASSUME StoreInv, NEW p \in Procs, CheckRun(p)
  PROVE  StoreInv'
<1> DEFINE run == proc[p].run
<1>1. /\ proc[p].at = "check" /\ LocalOK(proc[p]) /\ writer = p /\ file = "ready"
      /\ WithReceipt(run) /\ UNCHANGED <<file, tables, said>>
  BY DEF CheckRun, At, StoreInv, Located, LocalOK, Locked
<1>2. CASE Finish(p) /\ writer' = NoProc
  BY <1>1, <1>2, FinishStep
<1>3. CASE SamePeriod(run) = {} /\ Become(p, Goto(p, "commit")) /\ writer' = writer
  <2>1. PICK t : t = Goto(p, "commit") /\ Become(p, t)
    BY <1>3
  <2>2. t.at = "commit" /\ t.run = run
    BY <1>1, <2>1 DEF Goto
  <2>3. LocalOK(t)
    BY <1>1, <1>3, <2>2 DEF LocalOK
  <2> QED
    BY <1>1, <1>3, <2>1, <2>2, <2>3, SilentStep
<1>4. CASE run \in SamePeriod(run) /\ Become(p, [at |-> "answer", run |-> run])
           /\ writer' = NoProc
  <2>1. PICK t : t = [at |-> "answer", run |-> run] /\ Become(p, t)
    BY <1>4
  <2>2. LocalOK(t) /\ t.at = "answer"
    BY <1>1, <1>4, <2>1 DEF LocalOK, SamePeriod
  <2> QED
    BY <1>1, <1>4, <2>1, <2>2, SilentStep, MarkAssumption
<1> QED
  BY <1>2, <1>3, <1>4 DEF CheckRun

(* A run is stored when its receipt, entity and month have none. *)
LEMMA CommitStep ==
  ASSUME StoreInv, NEW p \in Procs, Commit(p)
  PROVE  /\ StoreInv' /\ UNCHANGED said
         /\ \E r \in Run : /\ runs' = runs \cup {r}
                           /\ \A s \in runs : Period(s) # Period(r)
<1>1. PICK r, t : r = proc[p].run /\ t = Goto(p, "answer") /\ Become(p, t)
  BY DEF Commit
<1>2. /\ WithReceipt(r) /\ file = "ready" /\ writer = p /\ SamePeriod(r) = {}
      /\ proc[p].at = "commit"
      /\ runs' = runs \cup {r} /\ writer' = NoProc
      /\ UNCHANGED <<file, exports, snapshotRows, said>>
  BY <1>1 DEF Commit, At, StoreInv, Located, LocalOK, Locked
<1>3. proc' = [q \in Procs |-> IF q = p THEN t ELSE proc[q]]
  BY <1>1 DEF Become, StoreInv, Functions
<1>4. t.at = "answer" /\ t.run = r
  BY <1>1, <1>2 DEF Goto
<1>5. \A s \in runs : Period(s) # Period(r)
  BY <1>2 DEF SamePeriod
<1>6. Functions' /\ OneCreator' /\ Locked'
  BY <1>2, <1>3, <1>4, MarkAssumption
     DEF StoreInv, Functions, OneCreator, Creating, Locked
<1>7. FileKept'
  BY <1>2, <1>5 DEF StoreInv, FileKept, WithReceipt
<1>8. \A q \in Procs \ {p} : LocalOK(proc[q])'
  <2> SUFFICES ASSUME NEW q \in Procs \ {p} PROVE LocalOK(proc[q])'
    OBVIOUS
  <2>1. LocalOK(proc[q]) /\ proc[q].at # "commit" /\ proc'[q] = proc[q]
    BY <1>2, <1>3 DEF StoreInv, Located, Locked
  <2> QED
    BY <1>2, <2>1 DEF LocalOK, WithReceipt, Fits
<1>9. LocalOK(t)'
  BY <1>2, <1>4 DEF LocalOK, WithReceipt
<1>10. Located' /\ Honest'
  BY <1>2, <1>3, <1>8, <1>9 DEF StoreInv, Located, Honest, IsTrue
<1> QED
  BY <1>2, <1>5, <1>6, <1>7, <1>10 DEF StoreInv, WithReceipt

LEMMA ToldStep ==
  ASSUME StoreInv, NEW p \in Procs, Answer(p)
  PROVE  /\ StoreInv' /\ UNCHANGED runs
         /\ \E r \in runs : said' = [said EXCEPT ![p] = <<r>>]
<1>1. PICK x : x = <<proc[p].run>>
  OBVIOUS
<1>2. /\ proc[p].run \in runs /\ IsTrue(x) /\ said' = [said EXCEPT ![p] = x] /\ Finish(p)
      /\ UNCHANGED <<file, tables, writer>> /\ writer # p /\ writer \in Procs \cup {NoProc}
  BY <1>1 DEF Answer, LoadedRun, At, IsTrue, StoreInv, Locked
<1>3. LocalOK(Idle) /\ Idle.at = "idle"
  BY DEF LocalOK, Idle
<1> QED
  BY <1>1, <1>2, <1>3, LocalStep DEF Finish, tables

LEMMA EndingStep ==
  ASSUME StoreInv, NEW p \in Procs, Busy(p) \/ Fail(p) \/ Crash(p)
  PROVE  StoreInv'
<1>1. /\ Finish(p) /\ UNCHANGED <<file, tables, said>>
      /\ writer' = IF writer = p THEN NoProc ELSE writer
  BY DEF Busy, Fail, Crash, At, StoreInv, Locked
<1> QED
  BY <1>1, FinishStep
-----------------------------------------------------------------------------
LEMMA NextHolds == StoreInv /\ [BNext]_vars => StoreInv'
<1> SUFFICES ASSUME StoreInv, [BNext]_vars PROVE StoreInv'
  OBVIOUS
<1>1. CASE UNCHANGED vars
  <2> USE <1>1 DEF vars, tables
  <2>1. Functions' /\ FileKept' /\ OneCreator' /\ Locked'
    BY DEF StoreInv, Functions, FileKept, WithReceipt, OneCreator, Creating, Locked
  <2>2. \A u : (LocalOK(u)' <=> LocalOK(u)) /\ (IsTrue(u)' <=> IsTrue(u))
    BY DEF LocalOK, WithReceipt, Fits, SamePeriod, IsTrue
  <2>3. Located' /\ Honest'
    BY <2>2 DEF StoreInv, Located, Honest
  <2> QED
    BY <2>1, <2>3 DEF StoreInv
<1>2. ASSUME NEW p \in Procs,
             \/ \E e \in Exports : Reserve(p, e) \/ Import(p, e)
             \/ \E asked \in Command : RunMonth(p, asked)
             \/ Progress(p) \/ Crash(p)
      PROVE  StoreInv'
  BY <1>2, CreatingStep, AskedStep, ChooseStep, BeginStep, CheckImportStep, InsertStep,
     CheckRunStep, CommitStep, ToldStep, EndingStep DEF Progress
<1> QED
  BY <1>1, <1>2 DEF BNext

(* The tables, every process and every answer agree with each other.        *)
THEOREM FileInvariant == BSpec => []StoreInv
BY InitHolds, NextHolds, PTL DEF BSpec

LEMMA InvImpliesProvenance == StoreInv => ProvenanceComplete
<1> SUFFICES ASSUME StoreInv PROVE ProvenanceComplete
  OBVIOUS
<1>1. \A p \in Procs : said[p] # Nothing => said[p][1] \in Run
  BY DEF StoreInv, Honest, IsTrue, FileKept, WithReceipt
<1> QED
  BY <1>1 DEF ProvenanceComplete, BTypeOK, StoreInv, FileKept, WithReceipt, Locked

(* The stored rows are exactly those of the receipts, a capture has one     *)
(* receipt, every run's receipt is there.                                   *)
THEOREM AlwaysProvenance == BSpec => []ProvenanceComplete
BY FileInvariant, InvImpliesProvenance, PTL
-----------------------------------------------------------------------------
Logged == [k \in {Period(r) : r \in runs} |-> RunOf(k)]
Told == [p \in Procs |-> IF said[p] = Nothing THEN <<>>
                         ELSE <<Period(said[p][1]), said[p][1]>>]

(* A receipt, entity and month identify their run. *)
LEMMA RunOfPeriod ==
  ASSUME StoreInv, NEW r \in runs
  PROVE  RunOf(Period(r)) = r
<1>1. \A s \in runs : Period(s) = Period(r) => s = r
  BY DEF StoreInv, FileKept
<1> QED
  BY <1>1 DEF RunOf

LEMMA CommitRecords ==
  ASSUME StoreInv, NEW p \in Procs, Commit(p)
  PROVE  Log!Record
<1>1. PICK r \in Run : /\ runs' = runs \cup {r} /\ UNCHANGED said /\ StoreInv'
                        /\ \A s \in runs : Period(s) # Period(r)
  BY CommitStep
<1>2. PICK k : k = Period(r)
  OBVIOUS
<1>3. k \in (Exports \X Businesses \X Months) \ DOMAIN Logged
  BY <1>1, <1>2 DEF Period, Run, Logged
<1>4. RunOf(k)' = r
  <2>1. \A s \in runs' : Period(s) = k => s = r
    BY <1>1, <1>2
  <2>2. \E s \in runs' : Period(s) = k
    BY <1>1, <1>2
  <2> QED
    BY <2>1, <2>2 DEF RunOf
<1>5. \A j \in DOMAIN Logged : RunOf(j)' = RunOf(j)
  <2> SUFFICES ASSUME NEW s \in runs, NEW j, j = Period(s) PROVE RunOf(j)' = RunOf(j)
    BY DEF Logged
  <2>1. RunOf(j) = s
    BY RunOfPeriod
  <2>2. \A t \in runs' : Period(t) = j => t = s
    BY <1>1 DEF StoreInv, FileKept
  <2>3. RunOf(j)' = s
    BY <1>1, <2>2 DEF RunOf
  <2> QED
    BY <2>1, <2>3
<1>6. {Period(s) : s \in runs'} = {Period(s) : s \in runs} \cup {k}
  BY <1>1, <1>2
<1>7. Logged' = [x \in DOMAIN Logged \cup {k} |-> IF x = k THEN r ELSE Logged[x]]
  BY <1>3, <1>4, <1>5, <1>6 DEF Logged
<1> QED
  BY <1>1, <1>3, <1>7 DEF Log!Record, Logged

(* What is said is a run of the log, or nothing. *)
LEMMA SayingStep ==
  ASSUME StoreInv, NEW p \in Procs, NEW x, said' = [said EXCEPT ![p] = x], IsTrue(x),
         UNCHANGED runs
  PROVE  Log!Tell(p) \/ Log!Forget(p)
<1>1. said' = [q \in Procs |-> IF q = p THEN x ELSE said[q]]
  BY DEF StoreInv, Functions
<1>2. Logged' = Logged
  BY DEF Logged, RunOf
<1>3. CASE x = Nothing
  <2>1. Told' = [Told EXCEPT ![p] = <<>>]
    BY <1>1, <1>3 DEF Told
  <2> QED
    BY <1>2, <2>1 DEF Log!Forget, Told, Logged
<1>4. ASSUME NEW r \in runs, x = <<r>> PROVE Log!Tell(p)
  <2>1. PICK k : k = Period(r)
    OBVIOUS
  <2>2. k \in DOMAIN Logged /\ Logged[k] = r
    BY <2>1, RunOfPeriod DEF Logged
  <2>3. x # Nothing /\ x[1] = r
    BY <1>4 DEF Nothing
  <2>4. Told' = [Told EXCEPT ![p] = <<k, r>>]
    BY <1>1, <2>1, <2>3 DEF Told
  <2> QED
    BY <1>2, <2>2, <2>4 DEF Log!Tell, Told, Logged
<1> QED
  BY <1>3, <1>4 DEF IsTrue

LEMMA InitMaps == BInit => Log!Init
<1> SUFFICES ASSUME BInit PROVE Log!Init
  OBVIOUS
<1>1. {Period(r) : r \in runs} = {}
  BY DEF BInit
<1> QED
  BY <1>1 DEF BInit, Log!Init

(* Each step records one run, says what one is, or changes nothing of this. *)
LEMMA StepMaps == StoreInv /\ [BNext]_vars => [Log!Next]_<<Logged, Told>>
<1> SUFFICES ASSUME StoreInv, [BNext]_vars
             PROVE  Log!Next \/ UNCHANGED <<Logged, Told>>
  OBVIOUS
<1>1. UNCHANGED <<runs, said>> => UNCHANGED <<Logged, Told>>
  BY DEF Logged, RunOf, Told
<1>2. CASE UNCHANGED vars
  BY <1>1, <1>2 DEF vars, tables
<1>3. ASSUME NEW p \in Procs,
             \/ \E e \in Exports : Reserve(p, e) \/ Import(p, e)
             \/ \E asked \in Command : RunMonth(p, asked)
             \/ Progress(p) \/ Crash(p)
      PROVE  Log!Next \/ UNCHANGED <<Logged, Told>>
  <2>1. CASE Commit(p)
    BY <2>1, CommitRecords DEF Log!Next
  <2>2. CASE \/ \E e \in Exports : Import(p, e)
             \/ \E asked \in Command : RunMonth(p, asked)
    <3>1. UNCHANGED runs /\ said' = [said EXCEPT ![p] = Nothing] /\ IsTrue(Nothing)
      BY <2>2, AskedStep DEF IsTrue
    <3> QED
      BY <3>1, SayingStep DEF Log!Next
  <2>3. CASE Answer(p)
    <3>1. PICK x : said' = [said EXCEPT ![p] = x] /\ IsTrue(x) /\ UNCHANGED runs
      BY <2>3, ToldStep DEF IsTrue
    <3> QED
      BY <3>1, SayingStep DEF Log!Next
  <2>4. CASE \/ \E e \in Exports : Reserve(p, e)
             \/ WriteSchema(p) \/ WriteMetadata(p) \/ FailCreate(p) \/ Insert(p)
    BY <1>1, <2>4, CreatingStep, InsertStep
  <2>5. CASE \/ Choose(p) \/ BeginWriting(p) \/ Busy(p) \/ CheckImport(p) \/ CheckRun(p)
             \/ Fail(p) \/ Crash(p)
    BY <1>1, <2>5 DEF Choose, BeginWriting, Busy, CheckImport, CheckRun, Fail, Crash, tables
  <2> QED
    BY <1>3, <2>1, <2>2, <2>3, <2>4, <2>5 DEF Progress
<1> QED
  BY <1>2, <1>3 DEF BNext

(* The store implements the log its callers rely on: a month's run is       *)
(* recorded once and never changes, and who is told of one is told it.      *)
THEOREM Implements == BSpec => ImplementsLog
<1>1. BInit => Log!Init
  BY InitMaps
<1>2. StoreInv /\ [BNext]_vars => [Log!Next]_<<Logged, Told>>
  BY StepMaps
<1> QED
  BY <1>1, <1>2, FileInvariant, PTL DEF BSpec, ImplementsLog, Log!Spec, Logged, Told
=============================================================================
