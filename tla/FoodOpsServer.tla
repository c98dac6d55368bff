--------------------------- MODULE FoodOpsServer ----------------------------
(***************************************************************************)
(* food_ops_server.py and food_ops_store.py: local servers that share one  *)
(* SQLite file of saved scenarios.  Each server runs a thread for every    *)
(* connection; a thread reads requests, and saves or loads a scenario      *)
(* through a store connection of its own.  Every step of a thread is one   *)
(* SQL statement or transaction boundary, or one use of its socket.        *)
(*                                                                         *)
(* A plan stands for the kind of an artifact and its request as stored:    *)
(* with the fingerprint of the seed in place of the seed.  Previews are    *)
(* pure functions of the request, so the plan determines the result.       *)
(***************************************************************************)
EXTENDS FiniteSets

CONSTANTS Servers, Conns,
          Home,       \* connection |-> the server that accepts it
          Ids,        \* scenario identities
          Plans, Results,
          Result,     \* plan |-> what its preview yields
          NoProc, NoResult

VARIABLES file,       \* the database file
          saved,      \* table food_scenarios: identity |-> bundle
          writer,     \* thread in an immediate transaction
          phase,      \* server |-> how far its start or its close has come
          thread,     \* connection |-> what its handler thread is doing
          active,     \* _active_requests of all servers
          cut,        \* connections whose socket the server has closed
          said,       \* connection |-> the latest answer its client received
          orphaned    \* a server died while initialising the file

vars == <<file, saved, writer, phase, thread, active, cut, said, orphaned>>
store == <<file, saved, writer, orphaned>>
sockets == <<active, cut>>

ASSUME HomeAssumption == Home \in [Conns -> Servers]
ASSUME ResultAssumption == Result \in [Plans -> Results] /\ NoResult \notin Results
ASSUME ProcAssumption == NoProc \notin Conns

Bundle == [plan : Plans, result : Results]

\* The body of a save.  A reopened scenario is sent with the fingerprint of its
\* seed (~ seeded), from which nothing can be computed; one without dice, or
\* with its faces, counts as seeded.  The client may send the result along.
Bodies == [id : Ids, plan : Plans, seeded : BOOLEAN, supplied : Results \cup {NoResult}]

Idle == [at |-> "idle"]
Silence == [status |-> "none"]
At(c, place) == thread[c].at = place
Become(c, state) == thread' = [thread EXCEPT ![c] = state]
Reply(c, answer) == Become(c, [at |-> "answer", answer |-> answer])
\* An error that says nothing about the store's contents: 4xx and 500, and the
\* 409 of a save that "failed atomically".
Failed == [status |-> "error"]
Stored(status, id) == [status |-> status, id |-> id, bundle |-> saved[id]]
Of(s) == {c \in Conns : Home[c] = s}
-----------------------------------------------------------------------------
\* default_bindings: the file is there or it is not, and only then opened or
\* created.
Look(s) ==
  /\ phase[s] \in {"down", "closed"}
  /\ phase' = [phase EXCEPT ![s] = IF file = "absent" THEN "create" ELSE "open"]
  /\ UNCHANGED <<store, thread, sockets, said>>

\* Mutant: the schema version of the file is not looked at.
OpenAnyFile(s) ==
  /\ phase[s] = "open"
  /\ phase' = [phase EXCEPT ![s] = IF file # "absent" THEN "running" ELSE "down"]
  /\ UNCHANGED <<store, thread, sockets, said>>

\* Opening a file that is gone or half made is an error; the server does not start.
OpenStore(s) ==
  /\ phase[s] = "open"
  /\ phase' = [phase EXCEPT ![s] = IF file = "ready" THEN "running" ELSE "down"]
  /\ UNCHANGED <<store, thread, sockets, said>>

Reserve(s) ==
  /\ phase[s] = "create"
  /\ IF file = "absent"
     THEN file' = "reserved" /\ phase' = [phase EXCEPT ![s] = "schema"]
     ELSE UNCHANGED file /\ phase' = [phase EXCEPT ![s] = "down"]
  /\ UNCHANGED <<saved, writer, orphaned, thread, sockets, said>>

WriteSchema(s) ==
  /\ phase[s] = "schema"
  /\ file' = "schema"
  /\ phase' = [phase EXCEPT ![s] = "metadata"]
  /\ UNCHANGED <<saved, writer, orphaned, thread, sockets, said>>

WriteMetadata(s) ==
  /\ phase[s] = "metadata"
  /\ file' = "ready"
  /\ phase' = [phase EXCEPT ![s] = "running"]
  /\ UNCHANGED <<saved, writer, orphaned, thread, sockets, said>>

\* An initialisation step raises: the new file is removed.
FailCreate(s) ==
  /\ phase[s] \in {"schema", "metadata"}
  /\ file' = "absent"
  /\ phase' = [phase EXCEPT ![s] = "down"]
  /\ UNCHANGED <<saved, writer, orphaned, thread, sockets, said>>
-----------------------------------------------------------------------------
\* The serving loop accepts a connection and starts its thread.
Accept(c) ==
  /\ phase[Home[c]] = "running" /\ thread[c] = Idle
  /\ active' = active \cup {c}
  /\ Become(c, [at |-> "reading"])
  /\ said' = [said EXCEPT ![c] = Silence]
  /\ UNCHANGED <<store, phase, cut>>

\* What had arrived before the socket was closed can still be read.
Receive(c, body) ==
  /\ At(c, "reading")
  /\ Become(c, [at |-> "lookup", body |-> body])
  /\ UNCHANGED <<store, phase, sockets, said>>

\* get_scenario.
Found(id) == IF id \in DOMAIN saved THEN Stored("loaded", id)
                                     ELSE [status |-> "missing", id |-> id]

Load(c, id) ==
  /\ At(c, "reading")
  /\ Reply(c, Found(id))
  /\ UNCHANGED <<store, phase, sockets, said>>

\* A request that is malformed, too large or late.
Refuse(c) ==
  /\ At(c, "reading")
  /\ Reply(c, Failed)
  /\ UNCHANGED <<store, phase, sockets, said>>

\* The client is gone, or sends no further request in time.
HangUp(c) ==
  /\ At(c, "reading")
  /\ Become(c, [at |-> "ending"])
  /\ UNCHANGED <<store, phase, sockets, said>>

\* _save_scenario: an exact retry needs no recomputation.
Lookup(c) ==
  LET body == thread[c].body
      exact == /\ body.id \in DOMAIN saved
               /\ saved[body.id].plan = body.plan
               /\ body.supplied \in {NoResult, saved[body.id].result}
  IN /\ At(c, "lookup")
     /\ Become(c, IF exact
                  THEN [at |-> "begin", id |-> body.id, bundle |-> saved[body.id]]
                  ELSE [at |-> "compute", body |-> body])
     /\ UNCHANGED <<store, phase, sockets, said>>

\* Mutant: the preview is not a function of the request.
ComputedAnyhow(body) == Results

Computed(body) == {Result[body.plan]}

Compute(c) ==
  LET body == thread[c].body
  IN /\ At(c, "compute")
     /\ \/ ~ body.seeded /\ Reply(c, Failed)
        \/ body.seeded /\ \E result \in Computed(body) :
             IF body.supplied \notin {NoResult, result}
             THEN Reply(c, [status |-> "mismatch"])
             ELSE Become(c, [at |-> "begin", id |-> body.id,
                             bundle |-> [plan |-> body.plan, result |-> result]])
     /\ UNCHANGED <<store, phase, sockets, said>>

\* FoodOpsStore.save_scenario.
Begin(c) ==
  /\ At(c, "begin") /\ writer = NoProc
  /\ writer' = c
  /\ Become(c, [thread[c] EXCEPT !.at = "check"])
  /\ UNCHANGED <<file, saved, orphaned, phase, sockets, said>>

\* The busy timeout of 30 seconds expires, in a save or in the read before it.
Busy(c) ==
  /\ At(c, "begin") \/ At(c, "lookup")
  /\ writer # NoProc
  /\ Reply(c, Failed)
  /\ UNCHANGED <<store, phase, sockets, said>>

Replays(t) == t.id \in DOMAIN saved /\ saved[t.id] = t.bundle

Check(c) ==
  LET t == thread[c]
  IN /\ At(c, "check")
     /\ \/ Replays(t) /\ writer' = NoProc
           /\ Reply(c, [status |-> "replayed", id |-> t.id, bundle |-> t.bundle])
        \/ t.id \in DOMAIN saved /\ ~ Replays(t) /\ writer' = NoProc
           /\ Reply(c, [status |-> "conflict", id |-> t.id, bundle |-> t.bundle])
        \/ t.id \notin DOMAIN saved /\ UNCHANGED writer
           /\ Become(c, [t EXCEPT !.at = "commit"])
     /\ UNCHANGED <<file, saved, orphaned, phase, sockets, said>>

Commit(c) ==
  LET t == thread[c]
  IN /\ At(c, "commit")
     /\ saved' = [i \in DOMAIN saved \cup {t.id} |-> IF i = t.id THEN t.bundle ELSE saved[i]]
     /\ writer' = NoProc
     /\ Reply(c, [status |-> "created", id |-> t.id, bundle |-> t.bundle])
     /\ UNCHANGED <<file, orphaned, phase, sockets, said>>

\* Mutant: a failed COMMIT is answered like a successful one.
FailUnnoticed(c) ==
  /\ At(c, "commit")
  /\ writer' = NoProc
  /\ Reply(c, [status |-> "created", id |-> thread[c].id, bundle |-> thread[c].bundle])
  /\ UNCHANGED <<file, saved, orphaned, phase, sockets, said>>

FailCommit(c) ==
  /\ At(c, "commit")
  /\ writer' = NoProc
  /\ Reply(c, Failed)
  /\ UNCHANGED <<file, saved, orphaned, phase, sockets, said>>

\* The connection stays open for the next request.
Answer(c) ==
  /\ At(c, "answer") /\ c \notin cut
  /\ said' = [said EXCEPT ![c] = thread[c].answer]
  /\ Become(c, [at |-> "reading"])
  /\ UNCHANGED <<store, phase, sockets>>

\* The client has gone, or the server closed the socket: the answer is lost.
LoseAnswer(c) ==
  /\ At(c, "answer")
  /\ Become(c, [at |-> "ending"])
  /\ UNCHANGED <<store, phase, sockets, said>>

\* shutdown_request, the last thing a thread does.
End(c) ==
  /\ At(c, "ending")
  /\ active' = active \ {c} /\ cut' = cut \ {c}
  /\ Become(c, Idle)
  /\ UNCHANGED <<store, phase, said>>
-----------------------------------------------------------------------------
\* RunningFoodOpsServer.close: the loop stops, the sockets of the active
\* requests are closed, their threads are waited for.  When the wait times out
\* close raises and may be called again; nothing changes.
Stop(s) ==
  /\ phase[s] = "running"
  /\ phase' = [phase EXCEPT ![s] = "stopped"]
  /\ UNCHANGED <<store, thread, sockets, said>>

\* Mutant: the sockets are left open.
LeaveOpen(s) ==
  /\ phase[s] = "stopped"
  /\ phase' = [phase EXCEPT ![s] = "draining"]
  /\ UNCHANGED <<store, thread, sockets, said>>

Cut(s) ==
  /\ phase[s] = "stopped"
  /\ cut' = cut \cup (active \cap Of(s))
  /\ phase' = [phase EXCEPT ![s] = "draining"]
  /\ UNCHANGED <<store, thread, active, said>>

\* Mutant: a request whose socket is closed counts as finished.
DrainedByCut(s) ==
  /\ phase[s] = "draining" /\ active \cap Of(s) \subseteq cut
  /\ phase' = [phase EXCEPT ![s] = "closed"]
  /\ UNCHANGED <<store, thread, sockets, said>>

Drained(s) ==
  /\ phase[s] = "draining" /\ active \cap Of(s) = {}
  /\ phase' = [phase EXCEPT ![s] = "closed"]
  /\ UNCHANGED <<store, thread, sockets, said>>

\* The process of a server dies with all its threads.
Kill(s) ==
  /\ phase[s] \notin {"down", "closed"}
  /\ phase' = [phase EXCEPT ![s] = "down"]
  /\ orphaned' = (orphaned \/ phase[s] \in {"schema", "metadata"})
  /\ thread' = [c \in Conns |-> IF c \in Of(s) THEN Idle ELSE thread[c]]
  /\ active' = active \ Of(s) /\ cut' = cut \ Of(s)
  /\ writer' = IF writer \in Of(s) THEN NoProc ELSE writer
  /\ UNCHANGED <<file, saved, said>>
-----------------------------------------------------------------------------
Init ==
  /\ file = "absent" /\ saved = <<>> /\ writer = NoProc /\ orphaned = FALSE
  /\ phase = [s \in Servers |-> "down"]
  /\ thread = [c \in Conns |-> Idle]
  /\ active = {} /\ cut = {}
  /\ said = [c \in Conns |-> Silence]

Work(c) ==
  \/ Refuse(c) \/ HangUp(c) \/ Lookup(c) \/ Compute(c) \/ Begin(c) \/ Busy(c) \/ Check(c)
  \/ Commit(c) \/ FailCommit(c) \/ Answer(c) \/ LoseAnswer(c) \/ End(c)

Start(s) ==
  \/ OpenStore(s) \/ Reserve(s) \/ WriteSchema(s) \/ WriteMetadata(s) \/ FailCreate(s)

Close(s) == Cut(s) \/ Drained(s)

Next ==
  \/ \E s \in Servers : Look(s) \/ Start(s) \/ Stop(s) \/ Close(s) \/ Kill(s)
  \/ \E c \in Conns :
       \/ Accept(c) \/ Work(c)
       \/ \E body \in Bodies : Receive(c, body)
       \/ \E id \in Ids : Load(c, id)

Spec == Init /\ [][Next]_vars

\* Threads run on: reading a socket times out, and so does waiting for the
\* lock.  close() is repeated until it succeeds.
FairSpec ==
  /\ Spec
  /\ \A c \in Conns : WF_vars(Work(c))
  /\ \A s \in Servers : WF_vars(Close(s))
-----------------------------------------------------------------------------
TypeOK ==
  /\ file \in {"absent", "reserved", "schema", "ready"}
  /\ DOMAIN saved \subseteq Ids /\ \A i \in DOMAIN saved : saved[i] \in Bundle
  /\ writer \in Conns \cup {NoProc}
  /\ active \subseteq Conns /\ cut \subseteq active

(* A server that serves has a complete store, whatever other servers were   *)
(* creating, abandoning or removing the same file while it started.         *)
ServesCompleteStore ==
  /\ TypeOK
  /\ \A s \in Servers :
       phase[s] \in {"running", "stopped", "draining", "closed"} => file = "ready"

Tells == {"created", "replayed", "loaded"}

(* A client is told "different immutable content" only when the scenario    *)
(* under that identity is of another request: repeating a save never        *)
(* conflicts with its own first try, even one whose answer was lost or that *)
(* still runs ("an exact retry is returned as a no-op").                    *)
RetryIsNoConflict ==
  \A c \in Conns :
    said[c].status = "conflict" => saved[said[c].id].plan # said[c].bundle.plan

(* When close() has returned no handler of that server runs any more, so    *)
(* none can still write to the store.                                       *)
QuietWhenClosed ==
  \A s \in Servers : phase[s] = "closed" =>
    \A c \in Of(s) : thread[c] = Idle /\ writer # c

(* The store implements the log its callers rely on: a scenario is saved    *)
(* once and never changes, and a client that is told of one, as created,    *)
(* replayed or loaded, is told what is stored.                              *)
Log == INSTANCE ArtifactLog
         WITH Callers <- Conns, Keys <- Ids, Bundles <- Bundle, log <- saved,
              told <- [c \in Conns |-> IF said[c].status \in Tells
                                       THEN <<said[c].id, said[c].bundle>> ELSE <<>>]
ImplementsLog == Log!Spec

(* A close() that is repeated succeeds in the end: no client can keep a     *)
(* handler thread alive (unless the server dies first).                     *)
CloseSucceeds == \A s \in Servers : phase[s] = "stopped" ~> phase[s] \in {"closed", "down"}
=============================================================================
