------------------------ MODULE FoodOpsServerProofs ------------------------
(***************************************************************************)
(* For any number of servers, connections, scenarios and plans: a server   *)
(* that serves has a complete store, a retry never conflicts with its own  *)
(* first try, a closed server is quiet, and the store implements           *)
(* ArtifactLog.                                                            *)
(***************************************************************************)
EXTENDS FoodOpsServer, TLAPS

\* A bundle whose result is what the preview of its plan yields.
Genuine(bundle) == bundle \in Bundle /\ bundle.result = Result[bundle.plan]

\* An answer that says nothing of the store's contents, or what they are.
Silent == {"none", "error", "mismatch", "missing"}
IsTrue(answer) ==
  \/ answer.status \in Silent
  \/ /\ answer.status \in Tells
     /\ answer.id \in DOMAIN saved /\ answer.bundle = saved[answer.id]
  \/ /\ answer.status = "conflict"
     /\ answer.id \in DOMAIN saved /\ answer.bundle.plan # saved[answer.id].plan

\* What a thread knows about the store where it is.
ThreadOK(t) ==
  /\ t.at = "idle" => t = Idle
  /\ t.at \in {"lookup", "compute"} => t.body \in Bodies
  /\ t.at \in {"begin", "check", "commit"} => t.id \in Ids /\ Genuine(t.bundle)
  /\ t.at = "commit" => t.id \notin DOMAIN saved
  /\ t.at = "answer" => IsTrue(t.answer)

Functions ==
  /\ phase = [s \in Servers |-> phase[s]]
  /\ thread = [c \in Conns |-> thread[c]]
  /\ said = [c \in Conns |-> said[c]]

Kept ==
  /\ file \in {"absent", "reserved", "schema", "ready"}
  /\ DOMAIN saved \subseteq Ids /\ \A i \in DOMAIN saved : Genuine(saved[i])

\* The file is as far as the one server that initialises it, and complete
\* under a server that serves.
Serves(s) == phase[s] \in {"running", "stopped", "draining"}
Initialises(s) == phase[s] \in {"schema", "metadata"}
Prepared ==
  /\ \A s \in Servers :
       /\ phase[s] = "schema" => file = "reserved"
       /\ phase[s] = "metadata" => file = "schema"
       /\ Serves(s) \/ phase[s] = "closed" => file = "ready"
  /\ \A r, s \in Servers : Initialises(r) /\ Initialises(s) => r = s

\* The active requests are those of the threads, all of servers that serve.
Attended ==
  /\ active \subseteq Conns /\ cut \subseteq active
  /\ \A c \in Conns : c \in active <=> thread[c].at # "idle"
  /\ \A c \in active : Serves(Home[c])

Locked ==
  /\ writer \in Conns \cup {NoProc}
  /\ \A c \in Conns : thread[c].at \in {"check", "commit"} <=> writer = c

Located == \A c \in Conns : ThreadOK(thread[c])
Honest == \A c \in Conns : IsTrue(said[c])

ServerInv ==
  Functions /\ Kept /\ Prepared /\ Attended /\ Locked /\ Located /\ Honest
-----------------------------------------------------------------------------
LEMMA InitHolds == Init => ServerInv
<1> SUFFICES ASSUME Init PROVE ServerInv
  OBVIOUS
<1>1. \A c \in Conns : thread[c] = Idle /\ Idle.at = "idle" /\ said[c].status = "none"
  BY DEF Init, Idle, Silence
<1>2. Functions /\ Kept /\ Prepared
  BY DEF Init, Functions, Kept, Prepared, Serves, Initialises
<1>3. Attended /\ Locked
  BY <1>1, ProcAssumption DEF Init, Attended, Locked
<1>4. Located /\ Honest
  BY <1>1 DEF Located, ThreadOK, Honest, IsTrue, Silent
<1> QED
  BY <1>2, <1>3, <1>4 DEF ServerInv

(* A server's start and close leave its threads and the saved scenarios     *)
(* alone: what they change is the file and who serves from it.              *)
LEMMA PhaseStep ==
  ASSUME ServerInv, NEW s \in Servers, NEW place, phase' = [phase EXCEPT ![s] = place],
         UNCHANGED <<saved, writer, thread, active, said>>, cut' \subseteq active,
         file' \in {"absent", "reserved", "schema", "ready"},
         file' # file => file # "ready" /\ \A r \in Servers \ {s} : ~ Initialises(r),
         place = "schema" => file' = "reserved" /\ \A r \in Servers \ {s} : ~ Initialises(r),
         place = "metadata" => file' = "schema" /\ \A r \in Servers \ {s} : ~ Initialises(r),
         place \in {"running", "stopped", "draining", "closed"} => file' = "ready",
         Serves(s) /\ place \notin {"running", "stopped", "draining"}
           => active \cap Of(s) = {}
  PROVE  ServerInv'
<1>1. phase' = [r \in Servers |-> IF r = s THEN place ELSE phase[r]]
  BY DEF ServerInv, Functions
<1>2. Functions' /\ Kept' /\ Locked'
  BY <1>1 DEF ServerInv, Functions, Kept, Locked, Genuine
<1>3. Prepared'
  <2>1. \A r \in Servers \ {s} : phase'[r] = phase[r]
    BY <1>1
  <2>2. phase'[s] = place
    BY <1>1
  <2>3. CASE file' = file
    BY <2>1, <2>2, <2>3 DEF ServerInv, Prepared, Serves, Initialises
  <2>4. CASE file' # file
    BY <2>1, <2>2, <2>4 DEF ServerInv, Prepared, Serves, Initialises
  <2> QED
    BY <2>3, <2>4
<1>4. Attended'
  <2>1. \A c \in active : Serves(Home[c])'
    <3> SUFFICES ASSUME NEW c \in active PROVE Serves(Home[c])'
      OBVIOUS
    <3>1. c \in Conns /\ Home[c] \in Servers /\ Serves(Home[c])
      BY HomeAssumption DEF ServerInv, Attended
    <3>2. CASE Home[c] = s
      BY <1>1, <3>1, <3>2 DEF Of, Serves
    <3>3. CASE Home[c] # s
      BY <1>1, <3>1, <3>3 DEF Serves
    <3> QED
      BY <3>2, <3>3
  <2> QED
    BY <2>1 DEF ServerInv, Attended
<1>5. Located' /\ Honest'
  BY DEF ServerInv, Located, ThreadOK, Honest, IsTrue, Genuine
<1> QED
  BY <1>2, <1>3, <1>4, <1>5 DEF ServerInv

LEMMA StartStep ==
  ASSUME ServerInv, NEW s \in Servers,
         Look(s) \/ OpenStore(s) \/ Reserve(s) \/ WriteSchema(s) \/ WriteMetadata(s)
           \/ FailCreate(s)
  PROVE  ServerInv' /\ UNCHANGED <<saved, thread, said>>
<1>1. /\ ~ Serves(s) /\ UNCHANGED <<saved, writer, thread, active, said>>
      /\ cut' \subseteq active /\ file \in {"absent", "reserved", "schema", "ready"}
  BY DEF Look, OpenStore, Reserve, WriteSchema, WriteMetadata, FailCreate, store, sockets,
         Serves, ServerInv, Attended, Kept
<1>2. CASE Look(s)
  <2> DEFINE place == IF file = "absent" THEN "create" ELSE "open"
  <2>1. phase' = [phase EXCEPT ![s] = place] /\ file' = file
    BY <1>2 DEF Look, store
  <2>2. place \in {"create", "open"}
    OBVIOUS
  <2> HIDE DEF place
  <2> QED
    BY <1>1, <2>1, <2>2, PhaseStep
<1>3. CASE OpenStore(s)
  <2> DEFINE place == IF file = "ready" THEN "running" ELSE "down"
  <2>1. phase' = [phase EXCEPT ![s] = place] /\ file' = file
    BY <1>3 DEF OpenStore, store
  <2>2. place = "down" \/ (place = "running" /\ file = "ready")
    OBVIOUS
  <2> HIDE DEF place
  <2> QED
    BY <1>1, <2>1, <2>2, PhaseStep
<1>4. CASE Reserve(s)
  <2>1. CASE file = "absent"
    <3>1. phase' = [phase EXCEPT ![s] = "schema"] /\ file' = "reserved"
      BY <1>4, <2>1 DEF Reserve
    <3>2. \A r \in Servers : ~ Initialises(r)
      BY <2>1 DEF ServerInv, Prepared, Initialises
    <3> QED
      BY <1>1, <2>1, <3>1, <3>2, PhaseStep
  <2>2. CASE file # "absent"
    <3>1. phase' = [phase EXCEPT ![s] = "down"] /\ file' = file
      BY <1>4, <2>2 DEF Reserve
    <3> QED
      BY <1>1, <3>1, PhaseStep
  <2> QED
    BY <2>1, <2>2
<1>5. CASE WriteSchema(s) \/ WriteMetadata(s) \/ FailCreate(s)
  <2>1. Initialises(s) /\ file # "ready" /\ \A r \in Servers \ {s} : ~ Initialises(r)
    BY <1>5 DEF WriteSchema, WriteMetadata, FailCreate, Initialises, ServerInv, Prepared
  <2>2. PICK place : /\ phase' = [phase EXCEPT ![s] = place]
                     /\ \/ place = "metadata" /\ file' = "schema"
                        \/ place = "running" /\ file' = "ready"
                        \/ place = "down" /\ file' = "absent"
    BY <1>5 DEF WriteSchema, WriteMetadata, FailCreate
  <2> QED
    BY <1>1, <2>1, <2>2, PhaseStep
<1> QED
  BY <1>1, <1>2, <1>3, <1>4, <1>5

LEMMA CloseStep ==
  ASSUME ServerInv, NEW s \in Servers, Stop(s) \/ Cut(s) \/ Drained(s)
  PROVE  ServerInv' /\ UNCHANGED <<saved, thread, said>>
<1>1. /\ Serves(s) /\ file' = file /\ file = "ready"
      /\ UNCHANGED <<saved, writer, thread, active, said>> /\ cut' \subseteq active
  BY DEF Stop, Cut, Drained, store, sockets, Serves, ServerInv, Attended, Prepared
<1>2. PICK place : /\ phase' = [phase EXCEPT ![s] = place]
                   /\ \/ place \in {"stopped", "draining"}
                      \/ place = "closed" /\ active \cap Of(s) = {}
  BY DEF Stop, Cut, Drained
<1> QED
  BY <1>1, <1>2, PhaseStep

(* A server that dies takes its threads with it, and their lock. *)
LEMMA KillStep ==
  ASSUME ServerInv, NEW s \in Servers, Kill(s)
  PROVE  ServerInv' /\ UNCHANGED <<saved, said>>
<1>1. /\ phase' = [r \in Servers |-> IF r = s THEN "down" ELSE phase[r]]
      /\ thread' = [c \in Conns |-> IF Home[c] = s THEN Idle ELSE thread[c]]
      /\ active' = active \ Of(s) /\ cut' = cut \ Of(s)
      /\ writer' = IF writer \in Of(s) THEN NoProc ELSE writer
      /\ UNCHANGED <<file, saved, said>>
  BY DEF Kill, ServerInv, Functions, Of
<1>2. Idle.at = "idle"
  BY DEF Idle
<1>3. Functions' /\ Kept' /\ Prepared'
  BY <1>1 DEF ServerInv, Functions, Kept, Genuine, Prepared, Serves, Initialises
<1>4. Attended'
  BY <1>1, <1>2, HomeAssumption DEF ServerInv, Attended, Of, Serves
<1>5. Locked'
  BY <1>1, <1>2, ProcAssumption DEF ServerInv, Locked, Of
<1>6. \A t : ThreadOK(t)' <=> ThreadOK(t)
  BY <1>1 DEF ThreadOK, Genuine, IsTrue
<1>7. ThreadOK(Idle)
  BY <1>2 DEF ThreadOK
<1>8. Located' /\ Honest'
  BY <1>1, <1>6, <1>7 DEF ServerInv, Located, Honest, IsTrue
<1> QED
  BY <1>1, <1>3, <1>4, <1>5, <1>8 DEF ServerInv
-----------------------------------------------------------------------------
(* A thread at work that saves nothing keeps the invariant if it knows      *)
(* enough where it goes, and its client is told something true.             *)
LEMMA ThreadStep ==
  ASSUME ServerInv, NEW c \in Conns, NEW t, Become(c, t), thread[c].at # "idle",
         UNCHANGED <<file, saved, phase, active, cut>>,
         ThreadOK(t), t.at # "idle",
         NEW x, said' = [said EXCEPT ![c] = x], IsTrue(x),
         writer' \in Conns \cup {NoProc},
         t.at \in {"check", "commit"} <=> writer' = c,
         \A d \in Conns \ {c} : writer' = d <=> writer = d
  PROVE  ServerInv'
<1>1. /\ thread' = [d \in Conns |-> IF d = c THEN t ELSE thread[d]]
      /\ said' = [d \in Conns |-> IF d = c THEN x ELSE said[d]]
  BY DEF Become, ServerInv, Functions
<1>2. Functions' /\ Kept' /\ Prepared'
  BY <1>1 DEF ServerInv, Functions, Kept, Genuine, Prepared, Serves, Initialises
<1>3. Attended' /\ Locked'
  BY <1>1 DEF ServerInv, Attended, Serves, Locked
<1>4. \A u : (ThreadOK(u)' <=> ThreadOK(u)) /\ (IsTrue(u)' <=> IsTrue(u))
  BY DEF ThreadOK, Genuine, IsTrue
<1>5. Located' /\ Honest'
  BY <1>1, <1>4 DEF ServerInv, Located, Honest
<1> QED
  BY <1>2, <1>3, <1>5 DEF ServerInv

(* The same of a step that sends no answer. *)
LEMMA SilentStep ==
  ASSUME ServerInv, NEW c \in Conns, NEW t, Become(c, t), thread[c].at # "idle",
         UNCHANGED <<file, saved, phase, active, cut, said>>,
         ThreadOK(t), t.at # "idle",
         writer' \in Conns \cup {NoProc},
         t.at \in {"check", "commit"} <=> writer' = c,
         \A d \in Conns \ {c} : writer' = d <=> writer = d
  PROVE  ServerInv'
<1>1. said' = [said EXCEPT ![c] = said[c]] /\ IsTrue(said[c])
  BY DEF ServerInv, Functions, Honest
<1> QED
  BY <1>1, ThreadStep

(* A thread that decides what to answer gives up the lock it may hold.      *)
LEMMA ReplyStep ==
  ASSUME ServerInv, NEW c \in Conns, NEW a, Reply(c, a), thread[c].at # "idle", IsTrue(a),
         UNCHANGED <<file, saved, phase, active, cut, said>>,
         writer' = IF writer = c THEN NoProc ELSE writer
  PROVE  ServerInv'
<1>1. PICK t : t = [at |-> "answer", answer |-> a]
  OBVIOUS
<1>2. Become(c, t) /\ t.at = "answer" /\ ThreadOK(t)
  BY <1>1 DEF Reply, ThreadOK
<1>3. /\ writer' \in Conns \cup {NoProc} /\ writer' # c
      /\ \A d \in Conns \ {c} : writer' = d <=> writer = d
  BY ProcAssumption DEF ServerInv, Locked
<1> QED
  BY <1>2, <1>3, SilentStep

LEMMA FailedIsTrue == IsTrue(Failed)
BY DEF IsTrue, Failed, Silent

(* A request is read, looked up and computed without the lock. *)
LEMMA RequestStep ==
  ASSUME ServerInv, NEW c \in Conns,
         \/ \E body \in Bodies : Receive(c, body)
         \/ \E id \in Ids : Load(c, id)
         \/ Refuse(c) \/ HangUp(c) \/ Lookup(c) \/ Compute(c) \/ LoseAnswer(c)
  PROVE  ServerInv'
<1>1. /\ thread[c].at \in {"reading", "lookup", "compute", "answer"}
      /\ UNCHANGED <<file, saved, phase, active, cut, said>>
      /\ writer' = writer /\ writer # c /\ writer \in Conns \cup {NoProc}
      /\ ThreadOK(thread[c])
  BY DEF Receive, Load, Refuse, HangUp, Lookup, Compute, LoseAnswer, At, store, sockets,
         ServerInv, Locked, Located
<1>2. ASSUME NEW t, Become(c, t), ThreadOK(t), t.at \notin {"idle", "check", "commit"}
      PROVE  ServerInv'
  BY <1>1, <1>2, SilentStep
<1>3. ASSUME NEW a, Reply(c, a), IsTrue(a)
      PROVE  ServerInv'
  BY <1>1, <1>3, ReplyStep
<1>4. CASE \E body \in Bodies : Receive(c, body)
  <2>1. PICK t : /\ Become(c, t)
                 /\ \E body \in Bodies : t = [at |-> "lookup", body |-> body]
    BY <1>4 DEF Receive
  <2>2. t.at = "lookup" /\ ThreadOK(t)
    BY <2>1 DEF ThreadOK
  <2> QED
    BY <1>2, <2>1, <2>2
<1>5. CASE \E id \in Ids : Load(c, id)
  <2>1. PICK id \in Ids : Reply(c, Found(id))
    BY <1>5 DEF Load
  <2>2. IsTrue(Found(id))
    BY DEF Found, Stored, IsTrue, Silent, Tells
  <2> QED
    BY <1>3, <2>1, <2>2
<1>6. CASE Refuse(c)
  BY <1>3, <1>6, FailedIsTrue DEF Refuse
<1>7. CASE HangUp(c) \/ LoseAnswer(c)
  <2>1. PICK t : t = [at |-> "ending"] /\ Become(c, t)
    BY <1>7 DEF HangUp, LoseAnswer
  <2>2. t.at = "ending" /\ ThreadOK(t)
    BY <2>1 DEF ThreadOK
  <2> QED
    BY <1>2, <2>1, <2>2
<1>8. CASE Lookup(c)
  <2> DEFINE body == thread[c].body
  <2>1. body \in Bodies /\ body.id \in Ids
    BY <1>1, <1>8 DEF Lookup, At, ThreadOK, Bodies
  <2>2. PICK t : /\ Become(c, t)
                 /\ \/ t = [at |-> "begin", id |-> body.id, bundle |-> saved[body.id]]
                       /\ body.id \in DOMAIN saved
                    \/ t = [at |-> "compute", body |-> body]
    BY <1>8 DEF Lookup
  <2>3. t.at \in {"begin", "compute"} /\ ThreadOK(t)
    BY <2>1, <2>2 DEF ThreadOK, ServerInv, Kept
  <2> QED
    BY <1>2, <2>2, <2>3
<1>9. CASE Compute(c)
  <2> DEFINE body == thread[c].body
             r == Result[body.plan]
  <2>1. body.id \in Ids /\ body.plan \in Plans /\ r \in Results
    BY <1>1, <1>9, ResultAssumption DEF Compute, At, ThreadOK, Bodies
  <2>2. CASE Reply(c, Failed) \/ Reply(c, [status |-> "mismatch"])
    BY <1>3, <2>2, FailedIsTrue DEF IsTrue, Silent
  <2>3. CASE Become(c, [at |-> "begin", id |-> body.id,
                        bundle |-> [plan |-> body.plan, result |-> r]])
    <3>1. PICK t : /\ Become(c, t)
                   /\ t = [at |-> "begin", id |-> body.id,
                           bundle |-> [plan |-> body.plan, result |-> r]]
      BY <2>3
    <3>2. t.at = "begin" /\ ThreadOK(t)
      BY <2>1, <3>1 DEF ThreadOK, Genuine, Bundle
    <3> QED
      BY <1>2, <3>1, <3>2
  <2> QED
    BY <1>9, <2>2, <2>3 DEF Compute, Computed
<1> QED
  BY <1>4, <1>5, <1>6, <1>7, <1>8, <1>9
-----------------------------------------------------------------------------
(* The transaction of a save: begin, check, and a COMMIT that may fail. *)
LEMMA BeginStep ==
  ASSUME ServerInv, NEW c \in Conns, Begin(c)
  PROVE  ServerInv'
<1> DEFINE t == [thread[c] EXCEPT !.at = "check"]
<1>1. /\ thread[c].at = "begin" /\ ThreadOK(thread[c]) /\ writer = NoProc /\ writer' = c
      /\ UNCHANGED <<file, saved, phase, active, cut, said>>
  BY DEF Begin, At, sockets, ServerInv, Located
<1>2. t.at = "check" /\ t.id = thread[c].id /\ t.bundle = thread[c].bundle
  BY <1>1
<1>3. Become(c, t)
  BY DEF Begin
<1> HIDE DEF t
<1>4. ThreadOK(t)
  BY <1>1, <1>2 DEF ThreadOK
<1> QED
  BY <1>1, <1>2, <1>3, <1>4, SilentStep, ProcAssumption

LEMMA CheckStep ==
  ASSUME ServerInv, NEW c \in Conns, Check(c)
  PROVE  ServerInv'
<1> DEFINE old == thread[c]
<1>1. /\ old.at = "check" /\ ThreadOK(old) /\ old.id \in Ids /\ Genuine(old.bundle)
      /\ writer = c /\ UNCHANGED <<file, saved, phase, active, cut, said>>
  BY DEF Check, At, sockets, ServerInv, Located, Locked, ThreadOK
<1>2. ASSUME NEW a, Reply(c, a), IsTrue(a), writer' = NoProc
      PROVE  ServerInv'
  BY <1>1, <1>2, ReplyStep
<1>3. CASE Replays(old) /\ writer' = NoProc
           /\ Reply(c, [status |-> "replayed", id |-> old.id, bundle |-> old.bundle])
  <2>1. PICK a : a = [status |-> "replayed", id |-> old.id, bundle |-> old.bundle]
    OBVIOUS
  <2>2. IsTrue(a)
    BY <1>3, <2>1 DEF IsTrue, Replays, Tells
  <2> QED
    BY <1>2, <1>3, <2>1, <2>2
<1>4. CASE old.id \in DOMAIN saved /\ ~ Replays(old) /\ writer' = NoProc
           /\ Reply(c, [status |-> "conflict", id |-> old.id, bundle |-> old.bundle])
  <2>1. PICK a : a = [status |-> "conflict", id |-> old.id, bundle |-> old.bundle]
    OBVIOUS
  <2>2. old.bundle.plan # saved[old.id].plan
    BY <1>1, <1>4 DEF Replays, Genuine, Bundle, ServerInv, Kept
  <2>3. IsTrue(a)
    BY <1>4, <2>1, <2>2 DEF IsTrue
  <2> QED
    BY <1>2, <1>4, <2>1, <2>3
<1>5. CASE old.id \notin DOMAIN saved /\ writer' = writer
           /\ Become(c, [old EXCEPT !.at = "commit"])
  <2> DEFINE t == [old EXCEPT !.at = "commit"]
  <2>1. t.at = "commit" /\ t.id = old.id /\ t.bundle = old.bundle
    BY <1>1
  <2>2. Become(c, t)
    BY <1>5
  <2> HIDE DEF t
  <2>3. ThreadOK(t)
    BY <1>1, <1>5, <2>1 DEF ThreadOK
  <2> QED
    BY <1>1, <1>5, <2>1, <2>2, <2>3, SilentStep
<1> QED
  BY <1>3, <1>4, <1>5 DEF Check

LEMMA EndSaveStep ==
  ASSUME ServerInv, NEW c \in Conns, Busy(c) \/ FailCommit(c)
  PROVE  ServerInv'
<1>1. /\ Reply(c, Failed) /\ thread[c].at \in {"begin", "lookup", "commit"}
      /\ UNCHANGED <<file, saved, phase, active, cut, said>>
      /\ writer' = IF writer = c THEN NoProc ELSE writer
  BY DEF Busy, FailCommit, At, store, sockets, ServerInv, Locked
<1> QED
  BY <1>1, FailedIsTrue, ReplyStep

(* A scenario is saved once, under an identity that had none. *)
LEMMA CommitStep ==
  ASSUME ServerInv, NEW c \in Conns, Commit(c)
  PROVE  /\ ServerInv' /\ UNCHANGED said
         /\ \E i \in Ids \ DOMAIN saved, b \in Bundle :
              saved' = [x \in DOMAIN saved \cup {i} |-> IF x = i THEN b ELSE saved[x]]
<1>1. PICK i, b, t :
        /\ i = thread[c].id /\ b = thread[c].bundle
        /\ t = [at |-> "answer", answer |-> [status |-> "created", id |-> i, bundle |-> b]]
  OBVIOUS
<1>2. /\ i \in Ids \ DOMAIN saved /\ Genuine(b) /\ writer = c /\ thread[c].at = "commit"
  BY <1>1 DEF Commit, At, ServerInv, Located, ThreadOK, Locked
<1>3. /\ saved' = [x \in DOMAIN saved \cup {i} |-> IF x = i THEN b ELSE saved[x]]
      /\ writer' = NoProc
      /\ thread' = [d \in Conns |-> IF d = c THEN t ELSE thread[d]]
      /\ UNCHANGED <<file, phase, active, cut, said>>
  BY <1>1 DEF Commit, Reply, Become, sockets, ServerInv, Functions
<1>4. /\ DOMAIN saved \subseteq DOMAIN saved' /\ i \in DOMAIN saved' /\ saved'[i] = b
      /\ \A x \in DOMAIN saved : saved'[x] = saved[x]
  BY <1>2, <1>3
<1>5. Functions' /\ Prepared'
  BY <1>3 DEF ServerInv, Functions, Prepared, Serves, Initialises
<1>6. Kept'
  BY <1>2, <1>3 DEF ServerInv, Kept, Genuine
<1>7. t.at = "answer"
  BY <1>1
<1>8. Attended' /\ Locked'
  BY <1>2, <1>3, <1>7, ProcAssumption DEF ServerInv, Attended, Serves, Locked
<1>9. \A u : IsTrue(u) => IsTrue(u)'
  BY <1>4 DEF IsTrue
<1>10. ThreadOK(t)'
  BY <1>1, <1>4 DEF ThreadOK, IsTrue, Tells
<1>11. \A d \in Conns \ {c} : ThreadOK(thread[d])'
  <2> SUFFICES ASSUME NEW d \in Conns \ {c} PROVE ThreadOK(thread[d])'
    OBVIOUS
  <2>1. ThreadOK(thread[d]) /\ thread[d].at # "commit" /\ thread'[d] = thread[d]
    BY <1>2, <1>3 DEF ServerInv, Located, Locked
  <2> QED
    BY <1>9, <2>1 DEF ThreadOK, Genuine
<1>12. Located' /\ Honest'
  BY <1>3, <1>9, <1>10, <1>11 DEF ServerInv, Located, Honest
<1> QED
  BY <1>2, <1>3, <1>5, <1>6, <1>8, <1>12 DEF ServerInv, Genuine

(* The client of an answer is told what is so. *)
LEMMA AnswerStep ==
  ASSUME ServerInv, NEW c \in Conns, Answer(c)
  PROVE  ServerInv' /\ UNCHANGED saved /\ IsTrue(thread[c].answer)
<1>1. PICK t : t = [at |-> "reading"] /\ Become(c, t)
  BY DEF Answer
<1>2. t.at = "reading" /\ ThreadOK(t)
  BY <1>1 DEF ThreadOK
<1>3. /\ thread[c].at = "answer" /\ IsTrue(thread[c].answer)
      /\ UNCHANGED <<file, saved, writer, phase, active, cut>>
      /\ writer # c /\ writer \in Conns \cup {NoProc}
      /\ said' = [said EXCEPT ![c] = thread[c].answer]
  BY DEF Answer, At, store, sockets, ServerInv, Located, ThreadOK, Locked
<1> QED
  BY <1>1, <1>2, <1>3, ThreadStep

(* A connection's thread begins and ends with its place among the active.   *)
LEMMA AttendStep ==
  ASSUME ServerInv, NEW c \in Conns, Accept(c) \/ End(c)
  PROVE  ServerInv' /\ UNCHANGED saved
<1>1. PICK t, x :
        /\ Become(c, t) /\ said' = [said EXCEPT ![c] = x]
        /\ \/ /\ t = Idle /\ x = said[c]
              /\ active' = active \ {c} /\ cut' = cut \ {c}
           \/ /\ t = [at |-> "reading"] /\ x = Silence /\ phase[Home[c]] = "running"
              /\ active' = active \cup {c} /\ cut' = cut
  <2>1. CASE Accept(c)
    BY <2>1 DEF Accept
  <2>2. CASE End(c)
    <3>1. said' = [said EXCEPT ![c] = said[c]]
      BY <2>2 DEF End, ServerInv, Functions
    <3> QED
      BY <2>2, <3>1 DEF End
  <2> QED
    BY <2>1, <2>2
<1>2. /\ UNCHANGED <<file, saved, writer, phase>> /\ thread[c].at \notin {"check", "commit"}
  BY DEF Accept, End, store, At, Idle
<1>3. /\ thread' = [d \in Conns |-> IF d = c THEN t ELSE thread[d]]
      /\ said' = [d \in Conns |-> IF d = c THEN x ELSE said[d]]
  BY <1>1 DEF Become, ServerInv, Functions
<1>4. t.at \in {"idle", "reading"} /\ ThreadOK(t) /\ IsTrue(x)
  BY <1>1 DEF Idle, Silence, Silent, ThreadOK, IsTrue, ServerInv, Honest
<1>5. Functions' /\ Kept' /\ Prepared'
  BY <1>2, <1>3 DEF ServerInv, Functions, Kept, Genuine, Prepared, Serves, Initialises
<1>6. Attended'
  BY <1>1, <1>2, <1>3 DEF ServerInv, Attended, Serves, Idle
<1>7. Locked'
  BY <1>2, <1>3, <1>4 DEF ServerInv, Locked
<1>8. \A u : (ThreadOK(u)' <=> ThreadOK(u)) /\ (IsTrue(u)' <=> IsTrue(u))
  BY <1>2 DEF ThreadOK, Genuine, IsTrue
<1>9. Located' /\ Honest'
  BY <1>3, <1>4, <1>8 DEF ServerInv, Located, Honest
<1> QED
  BY <1>2, <1>5, <1>6, <1>7, <1>9 DEF ServerInv
-----------------------------------------------------------------------------
LEMMA NextHolds == ServerInv /\ [Next]_vars => ServerInv'
<1> SUFFICES ASSUME ServerInv, [Next]_vars PROVE ServerInv'
  OBVIOUS
<1>1. CASE UNCHANGED vars
  <2> USE <1>1 DEF vars
  <2>1. Functions' /\ Kept' /\ Prepared' /\ Attended' /\ Locked'
    BY DEF ServerInv, Functions, Kept, Genuine, Prepared, Serves, Initialises, Attended, Locked
  <2>2. \A u : (ThreadOK(u)' <=> ThreadOK(u)) /\ (IsTrue(u)' <=> IsTrue(u))
    BY DEF ThreadOK, Genuine, IsTrue
  <2>3. Located' /\ Honest'
    BY <2>2 DEF ServerInv, Located, Honest
  <2> QED
    BY <2>1, <2>3 DEF ServerInv
<1>2. ASSUME NEW s \in Servers, Look(s) \/ Start(s) \/ Stop(s) \/ Close(s) \/ Kill(s)
      PROVE  ServerInv'
  BY <1>2, StartStep, CloseStep, KillStep DEF Start, Close
<1>3. ASSUME NEW c \in Conns,
             \/ Accept(c) \/ Work(c)
             \/ \E body \in Bodies : Receive(c, body)
             \/ \E id \in Ids : Load(c, id)
      PROVE  ServerInv'
  BY <1>3, AttendStep, RequestStep, BeginStep, CheckStep, EndSaveStep, CommitStep, AnswerStep
     DEF Work
<1> QED
  BY <1>1, <1>2, <1>3 DEF Next

(* The file, the servers, their threads and the saved scenarios agree.      *)
THEOREM Invariant == Spec => []ServerInv
BY InitHolds, NextHolds, PTL DEF Spec
-----------------------------------------------------------------------------
LEMMA InvImpliesComplete == ServerInv => ServesCompleteStore
<1> SUFFICES ASSUME ServerInv PROVE ServesCompleteStore
  OBVIOUS
<1>1. TypeOK
  BY DEF ServerInv, Kept, Genuine, Attended, Locked, TypeOK
<1> QED
  BY <1>1 DEF ServesCompleteStore, ServerInv, Prepared, Serves

(* A server that serves has a complete store, whatever other servers were   *)
(* creating, abandoning or removing the same file while it started.         *)
THEOREM AlwaysComplete == Spec => []ServesCompleteStore
BY Invariant, InvImpliesComplete, PTL

LEMMA InvImpliesRetry == ServerInv => RetryIsNoConflict
BY DEF ServerInv, Honest, IsTrue, Silent, Tells, RetryIsNoConflict

(* A client is told of a conflict only when the scenario under that         *)
(* identity is of another request.                                          *)
THEOREM AlwaysRetriable == Spec => []RetryIsNoConflict
BY Invariant, InvImpliesRetry, PTL

LEMMA InvImpliesQuiet == ServerInv => QuietWhenClosed
<1> SUFFICES ASSUME ServerInv, NEW s \in Servers, phase[s] = "closed", NEW c \in Of(s)
             PROVE  thread[c] = Idle /\ writer # c
  BY DEF QuietWhenClosed
<1>1. c \in Conns /\ c \notin active
  BY DEF Of, ServerInv, Attended, Serves
<1>2. thread[c].at = "idle"
  BY <1>1 DEF ServerInv, Attended
<1> QED
  BY <1>1, <1>2 DEF ServerInv, Located, ThreadOK, Locked

(* When close() has returned no handler of that server runs any more.       *)
THEOREM AlwaysQuiet == Spec => []QuietWhenClosed
BY Invariant, InvImpliesQuiet, PTL
-----------------------------------------------------------------------------
Told == [c \in Conns |-> IF said[c].status \in Tells
                         THEN <<said[c].id, said[c].bundle>> ELSE <<>>]

(* A client that is answered is told of a saved scenario, or of none.       *)
LEMMA TellingStep ==
  ASSUME ServerInv, NEW c \in Conns, NEW x, said' = [said EXCEPT ![c] = x], IsTrue(x),
         UNCHANGED saved
  PROVE  Log!Tell(c) \/ Log!Forget(c)
<1>1. said' = [d \in Conns |-> IF d = c THEN x ELSE said[d]]
  BY DEF ServerInv, Functions
<1>2. CASE x.status \in Tells
  <2>1. x.id \in DOMAIN saved /\ x.bundle = saved[x.id]
    BY <1>2 DEF IsTrue, Silent, Tells
  <2>2. Told' = [Told EXCEPT ![c] = <<x.id, saved[x.id]>>]
    BY <1>1, <1>2, <2>1 DEF Told
  <2> QED
    BY <2>1, <2>2 DEF Log!Tell, Told
<1>3. CASE x.status \notin Tells
  <2>1. Told' = [Told EXCEPT ![c] = <<>>]
    BY <1>1, <1>3 DEF Told
  <2> QED
    BY <2>1 DEF Log!Forget, Told
<1> QED
  BY <1>2, <1>3

LEMMA InitMaps == Init => Log!Init
<1> SUFFICES ASSUME Init PROVE Log!Init
  OBVIOUS
<1>1. \A c \in Conns : said[c].status \notin Tells
  BY DEF Init, Silence, Tells
<1> QED
  BY <1>1 DEF Init, Log!Init

(* Each step records one scenario, answers one client, or changes nothing   *)
(* of this.                                                                 *)
LEMMA StepMaps == ServerInv /\ [Next]_vars => [Log!Next]_<<saved, Told>>
<1> SUFFICES ASSUME ServerInv, [Next]_vars
             PROVE  Log!Next \/ UNCHANGED <<saved, Told>>
  OBVIOUS
<1>1. UNCHANGED said => UNCHANGED Told
  BY DEF Told
<1>2. CASE UNCHANGED vars
  BY <1>1, <1>2 DEF vars
<1>3. ASSUME NEW s \in Servers, Look(s) \/ Start(s) \/ Stop(s) \/ Close(s) \/ Kill(s)
      PROVE  UNCHANGED <<saved, Told>>
  BY <1>1, <1>3, StartStep, CloseStep, KillStep DEF Start, Close
<1>4. ASSUME NEW c \in Conns,
             \/ Accept(c) \/ Work(c)
             \/ \E body \in Bodies : Receive(c, body)
             \/ \E id \in Ids : Load(c, id)
      PROVE  Log!Next \/ UNCHANGED <<saved, Told>>
  <2>1. CASE Commit(c)
    BY <1>1, <2>1, CommitStep DEF Log!Next, Log!Record, Told
  <2>2. CASE Answer(c)
    BY <2>2, AnswerStep, TellingStep DEF Answer, Log!Next
  <2>3. CASE Accept(c)
    <3>1. said' = [said EXCEPT ![c] = Silence] /\ IsTrue(Silence) /\ UNCHANGED saved
      BY <2>3 DEF Accept, store, IsTrue, Silence, Silent
    <3> QED
      BY <3>1, TellingStep DEF Log!Next
  <2>4. CASE \/ \E body \in Bodies : Receive(c, body)
             \/ \E id \in Ids : Load(c, id)
             \/ Refuse(c) \/ HangUp(c) \/ Lookup(c) \/ Compute(c) \/ Begin(c) \/ Busy(c)
             \/ Check(c) \/ FailCommit(c) \/ LoseAnswer(c) \/ End(c)
    <3>1. UNCHANGED <<saved, said>>
      BY <2>4 DEF Receive, Load, Refuse, HangUp, Lookup, Compute, Begin, Busy, Check,
                  FailCommit, LoseAnswer, End, store
    <3> QED
      BY <1>1, <3>1
  <2> QED
    BY <1>4, <2>1, <2>2, <2>3, <2>4 DEF Work
<1> QED
  BY <1>2, <1>3, <1>4 DEF Next

(* The store implements the log its callers rely on: a scenario is saved    *)
(* once and never changes, and who is told of one is told what is stored.   *)
THEOREM Implements == Spec => ImplementsLog
<1>1. Init => Log!Init
  BY InitMaps
<1>2. ServerInv /\ [Next]_vars => [Log!Next]_<<saved, Told>>
  BY StepMaps
<1> QED
  BY <1>1, <1>2, Invariant, PTL DEF Spec, ImplementsLog, Log!Spec, Told
=============================================================================
