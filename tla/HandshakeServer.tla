-------------------------- MODULE HandshakeServer --------------------------
(***************************************************************************)
(* HandshakeServer (crates/aitp/src/transport/server.rs): the table of     *)
(* half-done sessions with its cap, lifetime and background sweeper, and   *)
(* the replay guard (replay_store.rs), under HELLO and COMMIT requests     *)
(* that run concurrently and suspend at their awaits. An action is one     *)
(* section between two awaits or under the session lock. What the          *)
(* Responder decides is a choice here; Handshake says what it does.        *)
(***************************************************************************)
EXTENDS Integers, FiniteSets

CONSTANTS
  Tasks,         \* requests being served at once
  Hellos,        \* message ids of HELLO envelopes
  Commits,       \* message ids of COMMIT envelopes
  Ts,            \* timestamp inside each envelope
  Sessions,      \* session ids that may be drawn
  MaxSessions,   \* max_sessions
  SessionTtl,    \* session_ttl
  SweepEvery,    \* session_sweep_interval
  Window,        \* replay_window
  Tolerance,     \* DEFAULT_TIMESTAMP_TOLERANCE
  MaxTime,       \* bound of the model: last second of the clock
  None

Ids == Hellos \cup Commits

ASSUME ConstantAssumption ==
  /\ IsFiniteSet(Tasks) /\ IsFiniteSet(Sessions)
  /\ Hellos \cap Commits = {}
  /\ Ts \in [Ids -> Nat]
  /\ MaxSessions \in Nat \ {0} /\ SweepEvery \in Nat \ {0}
  /\ {SessionTtl, Window, Tolerance, MaxTime} \subseteq Nat
  /\ None \notin Nat \cup Sessions \cup Ids

VARIABLES
  table,       \* sessions: created_at, or None
  seen,        \* replay guard: expiry of each id's entry, or None
  pc,          \* next section of each request
  req,         \* envelope id and session of each request
  next_sweep,  \* when the sweeper's ticker fires
  clock,       \* the time
  drawn,       \* history: sessions ever inserted
  received,    \* history: how often each envelope passed receive_envelope
  completed    \* history: how often on_commit succeeded for each session

local == <<pc, req>>
history == <<drawn, received, completed>>
vars == <<table, seen, local, next_sweep, clock, history>>

Init ==
  /\ table = [s \in Sessions |-> None]
  /\ seen = [e \in Ids |-> None]
  /\ pc = [t \in Tasks |-> "idle"]
  /\ req = [t \in Tasks |-> [id |-> None, session |-> None]]
  /\ next_sweep = SweepEvery
  /\ clock = 0
  /\ drawn = {}
  /\ received = [e \in Ids |-> 0]
  /\ completed = [s \in Sessions |-> 0]

Goto(t, section) == pc' = [pc EXCEPT ![t] = section]

Finish(t) ==
  /\ Goto(t, "idle")
  /\ req' = [req EXCEPT ![t] = [id |-> None, session |-> None]]

(***************************************************************************)
(* receive_envelope.                                                       *)
(***************************************************************************)
\* InMemoryReplayGuard drops what has expired before it looks.
Remembered(e) == seen[e] # None /\ seen[e] > clock
SeenNow == [e \in Ids |-> IF Remembered(e) THEN seen[e] ELSE None]

\* check_and_record: a known id keeps its entry.
RecordId(e) == IF Remembered(e) THEN SeenNow ELSE [SeenNow EXCEPT ![e] = clock + Window]

WithinTolerance(ts) == ts - clock <= Tolerance /\ clock - ts <= Tolerance

\* Mutant of Acceptable: the timestamp is not compared.
AcceptableAnytime(e) == ~Remembered(e)

\* What must hold for the envelope to pass; the rate limit and the checks on
\* content type, JSON, version and structure may refuse it all the same.
Acceptable(e) == ~Remembered(e) /\ WithinTolerance(Ts[e])

\* The id is recorded first, whatever the later checks say. No await lies
\* between the checks, so they share one reading of the clock.
Receive(t, e, s) ==
  /\ pc[t] = "idle"
  /\ seen' = RecordId(e)
  /\ Acceptable(e)
  /\ Goto(t, IF e \in Hellos THEN "prefetch" ELSE "take")
  /\ req' = [req EXCEPT ![t] = [id |-> e, session |-> s]]
  /\ received' = [received EXCEPT ![e] = @ + 1]
  /\ UNCHANGED <<table, next_sweep, clock, drawn, completed>>

RefuseEnvelope(e) ==
  /\ seen' = RecordId(e)
  /\ UNCHANGED <<table, local, next_sweep, clock, history>>

(***************************************************************************)
(* The session table.                                                      *)
(***************************************************************************)
Kept(tab) == {s \in Sessions : tab[s] # None}
Expired(s) == table[s] # None /\ clock - table[s] > SessionTtl

\* Mutant of Swept: a session is dropped in its last second.
SweptEarly == [s \in Sessions |->
  IF table[s] # None /\ clock - table[s] >= SessionTtl THEN None ELSE table[s]]

\* sweep_expired.
Swept == [s \in Sessions |-> IF Expired(s) THEN None ELSE table[s]]

\* evict_to_capacity(max_sessions - 1): the oldest go, in any order among
\* equals.
Victims(tab) ==
  {V \in SUBSET Kept(tab) :
     /\ Cardinality(V) = IF Cardinality(Kept(tab)) < MaxSessions
                         THEN 0 ELSE Cardinality(Kept(tab)) - (MaxSessions - 1)
     /\ \A v \in V, k \in Kept(tab) \ V : tab[v] <= tab[k]}

\* A suspended request may be dropped with its connection; errors of the
\* sections below look the same.
Abandon(t) ==
  /\ pc[t] # "idle"
  /\ Finish(t)
  /\ UNCHANGED <<table, seen, next_sweep, clock, history>>

\* handle_hello after prefetch_identity_keys: on_hello accepted, the session
\* is parked, and the ack goes out (or its signature fails, which leaves the
\* session in the table).
Establish(t, s) ==
  /\ pc[t] = "prefetch"
  /\ s \notin drawn
  /\ \E V \in Victims(Swept) :
        table' = [x \in Sessions |-> IF x = s THEN clock ELSE IF x \in V THEN None ELSE Swept[x]]
  /\ drawn' = drawn \cup {s}
  /\ Finish(t)
  /\ UNCHANGED <<seen, next_sweep, clock, received, completed>>

\* Mutant of Take: the session is looked up, and removed when it completes.
TakeKeeps(t) ==
  /\ pc[t] = "take"
  /\ table' = Swept
  /\ IF Swept[req[t].session] = None
     THEN Finish(t)
     ELSE Goto(t, "revocation") /\ UNCHANGED req
  /\ UNCHANGED <<seen, next_sweep, clock, history>>

\* handle_commit under the session lock: expired and unknown sessions are
\* refused; otherwise the entry leaves the table before anything is verified.
Take(t) ==
  LET s == req[t].session
  IN  /\ pc[t] = "take"
      /\ IF Swept[s] = None
         THEN table' = Swept /\ Finish(t)
         ELSE /\ table' = [Swept EXCEPT ![s] = None]
              /\ Goto(t, "revocation")
              /\ UNCHANGED req
      /\ UNCHANGED <<seen, next_sweep, clock, history>>

\* After the revocation fetch, on_commit accepts.
Complete(t) ==
  /\ pc[t] = "revocation"
  /\ completed' = [completed EXCEPT ![req[t].session] = @ + 1]
  /\ Finish(t)
  /\ UNCHANGED <<table, seen, next_sweep, clock, drawn, received>>

\* Mutant of Sweep: the task runs once.
SweepOnce ==
  /\ clock = next_sweep
  /\ table' = Swept
  /\ next_sweep' = MaxTime + 1
  /\ UNCHANGED <<seen, local, clock, history>>

\* The background task of spawn_sweeper_task.
Sweep ==
  /\ clock = next_sweep
  /\ table' = Swept
  /\ next_sweep' = next_sweep + SweepEvery
  /\ UNCHANGED <<seen, local, clock, history>>

\* The runtime runs the sweeper in the second in which its ticker fires.
Tick ==
  /\ clock < MaxTime
  /\ clock < next_sweep
  /\ clock' = clock + 1
  /\ UNCHANGED <<table, seen, local, next_sweep, history>>

Next ==
  \/ \E t \in Tasks, e \in Hellos : Receive(t, e, None)
  \/ \E t \in Tasks, e \in Commits, s \in Sessions : Receive(t, e, s)
  \/ \E e \in Ids : RefuseEnvelope(e)
  \/ \E t \in Tasks : Abandon(t) \/ Take(t) \/ Complete(t)
  \/ \E t \in Tasks, s \in Sessions : Establish(t, s)
  \/ Sweep
  \/ Tick

Spec == Init /\ [][Next]_vars

(***************************************************************************)
(* Properties.                                                             *)
(***************************************************************************)

\* Types, with a session attached to exactly the commits in progress.
TypeOK ==
  /\ table \in [Sessions -> Nat \cup {None}]
  /\ seen \in [Ids -> Nat \cup {None}]
  /\ pc \in [Tasks -> {"idle", "prefetch", "take", "revocation"}]
  /\ \A t \in Tasks : req[t].session \in Sessions <=> pc[t] \in {"take", "revocation"}
  /\ drawn \subseteq Sessions /\ Kept(table) \subseteq drawn

\* The table never holds more than max_sessions entries, also when several
\* HELLOs insert at once into a full table of sessions within their lifetime.
SessionCap == Cardinality(Kept(table)) <= MaxSessions

\* A session is good for one COMMIT: it is in the table, or held by one
\* request, or used up, whatever COMMITs race for it and wherever they stop.
SessionSingleUse ==
  \A s \in Sessions :
     completed[s] + Cardinality({t \in Tasks : pc[t] = "revocation" /\ req[t].session = s})
       + (IF table[s] # None THEN 1 ELSE 0) <= 1

\* "any expired session is reclaimed within at most TTL + period from its
\* creation", without any further request.
ReclaimedInTime ==
  \A s \in Sessions : table[s] # None => clock - table[s] <= SessionTtl + SweepEvery

\* The session table is bounded in size and in time, whatever arrives.
TableBounded == TypeOK /\ SessionCap /\ ReclaimedInTime

\* A replayed envelope is not processed again, though the guard forgets and
\* the sender's clock may be ahead.
ReceivedOnce == \A e \in Ids : received[e] <= 1

\* A session within its lifetime leaves the table only because a COMMIT took
\* it, or because a HELLO found the table full of sessions no older.
DroppedForAReason ==
  [][\A s \in Sessions :
       table[s] # None /\ table'[s] = None /\ clock - table[s] <= SessionTtl =>
          \/ \E t \in Tasks : pc[t] = "take" /\ req[t].session = s /\ pc'[t] = "revocation"
          \/ /\ drawn' # drawn /\ Cardinality(Kept(table)) >= MaxSessions
             /\ \A k \in Kept(table') : table[s] <= table'[k]]_vars
=============================================================================
