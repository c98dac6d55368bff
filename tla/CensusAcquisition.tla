------------------------- MODULE CensusAcquisition --------------------------
(***************************************************************************)
(* census_acquisition.py and source_census_acquisition.py: reading a       *)
(* collection of live pages in bounded queries, each continuing after the  *)
(* greatest URL of the one before, while others edit the collection.  The  *)
(* first checks itself by counts taken before and after, the second by     *)
(* ordered membership.  Every response is filed under its number before    *)
(* the next query; an attempt that ends early leaves its files, and a      *)
(* later one overwrites them from the first.  A census may be made from    *)
(* the files at any time.                                                  *)
(*                                                                         *)
(* A URL is its rank, 0 stands for the empty cursor.  What a page says,    *)
(* the schema, and damaged responses, which end an attempt like any other  *)
(* failure, are left out.                                                  *)
(***************************************************************************)
EXTENDS Naturals, Sequences, FiniteSets

CONSTANTS Urls,
          Limits,       \* page sizes an attempt may ask for
          MaxAttempts,  \* bound: attempts that are begun
          NoProof

ASSUME CensusAssumption == Urls \subseteq Nat \ {0} /\ Limits \subseteq Nat \ {0}

VARIABLES method,       \* "counted" or "manifest": which of the two it is
          live,         \* the collection as it is
          gone,         \* URLs it lacked at some time since the first attempt
          attempt,      \* what the running attempt knows
          begun,        \* number of attempts
          files,        \* receipts by number
          proof         \* enumeration evidence beside them

censusVars == <<method, live, gone, attempt, begun, files, proof>>

NoAttempt == [stage |-> "idle", limit |-> 0, start |-> {}, read |-> <<>>]
-----------------------------------------------------------------------------
\* The cursor before the i-th of some receipts, and after them all.
CursorAt(receipts, i) == IF i = 1 THEN 0 ELSE receipts[i - 1].last
Cursor(receipts) == CursorAt(receipts, Len(receipts) + 1)

\* verify_enumeration, verify_receipts: every page starts where the one before ended.
Chained(receipts) == \A i \in DOMAIN receipts : receipts[i].after = CursorAt(receipts, i)

Rows(receipts) == UNION {receipts[i].rows : i \in DOMAIN receipts}

\* Mutant: pages are numbered instead of continued.
FollowingByOffset(after) ==
  {u \in live : Cardinality({v \in live : v < u}) >= Cardinality(Rows(attempt.read))}

\* query and page_query: the rows a query may return, before its limit.
Following(after) == {u \in live : u > after}

IsPage(rows, after, limit) ==
  /\ rows \subseteq Following(after)
  /\ \A u \in rows, v \in Following(after) \ rows : u < v
  /\ rows = Following(after) \/ Cardinality(rows) = limit

\* manifest_query: the rows that a manifest counts behind the cursor.
Trailing(after) == {u \in live : u > after}
-----------------------------------------------------------------------------
\* Somebody adds or removes a page.
Edit(u) ==
  /\ live' = IF u \in live THEN live \ {u} ELSE live \cup {u}
  /\ gone' = IF begun > 0 /\ u \in live THEN gone \cup {u} ELSE gone
  /\ UNCHANGED <<method, attempt, begun, files, proof>>

\* The opening count or manifest.
Begin(limit) ==
  /\ attempt.stage = "idle" /\ begun < MaxAttempts
  /\ attempt' = [NoAttempt EXCEPT !.stage = "reading", !.limit = limit, !.start = live]
  /\ begun' = begun + 1
  /\ gone' = IF begun = 0 THEN Urls \ live ELSE gone
  /\ UNCHANGED <<method, live, files, proof>>

Filed(receipt, n) ==
  [i \in 1..(IF n > Len(files) THEN n ELSE Len(files)) |->
     IF i = n THEN receipt ELSE files[i]]

\* acquire reads on until a page is empty; acquire_collection until one is
\* short, or there were more pages than the manifest allows for.
Exhausted(rows, pages) ==
  IF method = "counted" THEN rows = {}
  ELSE \/ Cardinality(rows) < attempt.limit
       \/ pages = Cardinality(attempt.start) \div attempt.limit + 2

\* One query, filed before the next one.
ReadPage ==
  /\ attempt.stage = "reading"
  /\ \E rows \in SUBSET live :
       LET after == Cursor(attempt.read)
           n == Len(attempt.read) + 1
       IN /\ IsPage(rows, after, attempt.limit)
          /\ \E last \in rows \cup {after} :
               /\ \A u \in rows : u <= last
               /\ last = after => rows = {}
               /\ LET receipt == [after |-> after, rows |-> rows, last |-> last]
                  IN /\ files' = Filed(receipt, n)
                     /\ attempt' = [attempt EXCEPT
                          !.read = Append(@, receipt),
                          !.stage = IF Exhausted(rows, n) THEN "closing" ELSE "reading"]
  /\ UNCHANGED <<method, live, gone, begun, proof>>

\* The closing count: what the two counts say is left to whoever reads them.
CloseByCount ==
  /\ method = "counted" /\ attempt.stage = "closing"
  /\ proof' = [start |-> Cardinality(attempt.start), end |-> Cardinality(live),
               after |-> Cursor(attempt.read)]
  /\ attempt' = NoAttempt
  /\ UNCHANGED <<method, live, gone, begun, files>>

\* The closing manifest, kept as proof when it is the opening one, what was
\* read, and nothing follows.
CloseByManifest ==
  /\ method = "manifest" /\ attempt.stage = "closing"
  /\ attempt.start = live /\ Rows(attempt.read) = live
  /\ Trailing(Cursor(attempt.read)) = {}
  /\ proof' = [ids |-> live]
  /\ attempt' = NoAttempt
  /\ UNCHANGED <<method, live, gone, begun, files>>

\* A refused or damaged response, a manifest that does not agree, a death.
Abandon ==
  /\ attempt.stage # "idle" /\ attempt' = NoAttempt
  /\ UNCHANGED <<method, live, gone, begun, files, proof>>
-----------------------------------------------------------------------------
\* verify_enumeration: the counts are those of the rows, and the terminal page follows them.
CountsReconcile ==
  /\ proof # NoProof
  /\ proof.start = Cardinality(Rows(files)) /\ proof.end = Cardinality(Rows(files))
  /\ proof.after = Cursor(files)

\* assemble: rows are kept, and marked incomplete, when counts do not reconcile.
\* build, with verify_receipts: a collection is published complete or not at all.
Made == Chained(files) /\ (method = "manifest" => proof # NoProof /\ Rows(files) = proof.ids)
Complete == IF method = "counted" THEN CountsReconcile ELSE TRUE

CensusInit ==
  /\ method \in {"counted", "manifest"}
  /\ live \in SUBSET Urls /\ gone = {}
  /\ attempt = NoAttempt /\ begun = 0
  /\ files = <<>> /\ proof = NoProof

CensusNext ==
  \/ \E u \in Urls : Edit(u)
  \/ \E limit \in Limits : Begin(limit)
  \/ ReadPage \/ CloseByCount \/ CloseByManifest \/ Abandon

CensusSpec == CensusInit /\ [][CensusNext]_censusVars
-----------------------------------------------------------------------------
\* census_diff, diff_snapshots: what a census made now says was removed since
\* an earlier one.
Removed(previous) == IF Complete THEN previous \ Rows(files) ELSE {}

(* "never silently skip a source": against whatever earlier census, a page  *)
(* reported as removed really was missing from the collection at some time  *)
(* since the acquisition began - one that was there throughout is in every  *)
(* complete census, although pages come and go between two queries and the  *)
(* files may be those of several attempts.                                  *)
LastingPagesKept ==
  Made => \A previous \in SUBSET Urls : Removed(previous) \subseteq gone
=============================================================================
