----------------------------- MODULE Admission -----------------------------
(***************************************************************************)
(* PinnedAdmission (crates/aitp/src/handshake/admission/mod.rs): the       *)
(* challenge nonce, the message-id deny list and the timestamp window that *)
(* together admit a pinned-key presentation at most once, with several     *)
(* presentations in flight and redelivered at will. The nonce store is the *)
(* ledger that NonceStore is proved to implement; a deny-list call is one  *)
(* step here, as DenyList shows it may be (RecordsFreshId).                *)
(***************************************************************************)
EXTENDS Integers, FiniteSets, Sequences

CONSTANTS
  Tasks,          \* requests being served
  Presentations,  \* envelopes that may arrive: [id, nonce, ts, valid]
  Ids,            \* message ids
  Nonces,         \* challenges that may be issued
  Verifiers,      \* AIDs; Self is this verifier's
  Self,
  Capacity,       \* of the nonce store
  DenyCapacity,   \* of the deny list
  Ttl,            \* challenge lifetime
  Tolerance,      \* timestamp tolerance
  MaxTime,        \* bound of the model: last second of the clock
  NoRecord,       \* a nonce that is not outstanding
  Absent          \* an id that is not on the deny list

ASSUME ConstantAssumption ==
  /\ IsFiniteSet(Tasks) /\ IsFiniteSet(Ids) /\ IsFiniteSet(Nonces)
  /\ Presentations \subseteq [id : Ids, nonce : Nonces, ts : Nat, valid : BOOLEAN]
  /\ Self \in Verifiers
  /\ {Capacity, DenyCapacity, Ttl, Tolerance, MaxTime} \subseteq Nat
  /\ NoRecord \notin [verifier : Verifiers, expires_at : Nat] /\ Absent \notin Nat

VARIABLES
  live, issued, consumed, clock,   \* the ledger's
  denied,   \* deny list: last second of each id's record, or Absent
  pc,       \* next step of each task
  pres,     \* presentation of each task
  now,      \* the clock as the task read it when it started
  log       \* history: what was admitted, in order, and when

\* A task acts on what its consume is told in the step that is told it.
Ledger == INSTANCE NonceLedger WITH Callers <- Tasks, told <- [t \in Tasks |-> NoRecord]
nonceVars == <<live, issued, consumed, clock>>
taskVars == <<pc, pres, now>>
vars == <<nonceVars, denied, taskVars, log>>

Init ==
  /\ Ledger!LedgerInit
  /\ denied = [i \in Ids |-> Absent]
  /\ pc = [t \in Tasks |-> "idle"]
  /\ pres = [t \in Tasks |-> NoRecord]
  /\ now = [t \in Tasks |-> 0]
  /\ log = << >>

Goto(t, step) == pc' = [pc EXCEPT ![t] = step]

Finish(t) ==
  /\ Goto(t, "idle")
  /\ pres' = [pres EXCEPT ![t] = NoRecord]
  /\ now' = [now EXCEPT ![t] = 0]

\* issue_challenge: a random nonce, never issued before; a full store and
\* the rate limiter refuse, which changes nothing.
IssueChallenge(n) ==
  /\ issued[n] = 0
  /\ live' = [live EXCEPT ![n] = [verifier |-> Self, expires_at |-> clock + Ttl]]
  /\ Ledger!LedgerIssue(n)
  /\ UNCHANGED <<denied, taskVars, log>>

\* The store drops expired nonces when their shard is touched.
ExpireNonces ==
  /\ \E S \in SUBSET Ledger!Outstanding : S # {} /\ Ledger!LedgerExpire(S)
  /\ UNCHANGED <<denied, taskVars, log>>

\* admit_wire reads the clock once; every later step uses that reading.
Arrive(t, p) ==
  /\ pc[t] = "idle"
  /\ Goto(t, "gate")
  /\ pres' = [pres EXCEPT ![t] = p]
  /\ now' = [now EXCEPT ![t] = clock]
  /\ UNCHANGED <<nonceVars, denied, log>>

\* Every deny-list call first drops what had expired at the caller's clock.
Purged(at) ==
  [i \in Ids |-> IF denied[i] # Absent /\ denied[i] < at THEN Absent ELSE denied[i]]
Recorded(list) == {i \in Ids : list[i] # Absent}

\* Step 1 of the check order: the message id is not on the deny list.
Gate(t) ==
  /\ pc[t] = "gate"
  /\ denied' = Purged(now[t])
  /\ IF Purged(now[t])[pres[t].id] # Absent
     THEN Finish(t)
     ELSE Goto(t, "check") /\ UNCHANGED <<pres, now>>
  /\ UNCHANGED <<nonceVars, log>>

WithinTolerance(ts, at) == ts - at <= Tolerance /\ at - ts <= Tolerance

\* Mutant of Check: the nonce is taken before the proof is looked at.
CheckUnverified(t) ==
  /\ pc[t] = "check"
  /\ \/ WithinTolerance(pres[t].ts, now[t]) /\ Goto(t, "consume") /\ UNCHANGED <<pres, now>>
     \/ Finish(t)
  /\ UNCHANGED <<nonceVars, denied, log>>

\* Steps 2 to 8: limiter (which may refuse anyone), timestamp, structure,
\* pinned key, envelope signature and proof of possession.
Check(t) ==
  /\ pc[t] = "check"
  /\ \/ /\ WithinTolerance(pres[t].ts, now[t]) /\ pres[t].valid
        /\ Goto(t, "consume")
        /\ UNCHANGED <<pres, now>>
     \/ Finish(t)
  /\ UNCHANGED <<nonceVars, denied, log>>

\* Mutant of Consume: the presentation goes on whatever the outcome.
ConsumeUnheeded(t) ==
  /\ pc[t] = "consume"
  /\ IF live[pres[t].nonce] # NoRecord
     THEN Ledger!Spend(pres[t].nonce, Self, now[t])
     ELSE UNCHANGED nonceVars
  /\ Goto(t, "record")
  /\ UNCHANGED <<pres, now, denied, log>>

\* Step 9: the atomic consume decides who uses the challenge.
Consume(t) ==
  LET n == pres[t].nonce
  IN  /\ pc[t] = "consume"
      /\ \/ ~Ledger!OutstandingFor(n, Self) /\ Finish(t) /\ UNCHANGED nonceVars
         \/ Ledger!Lapse(n, Self, now[t]) /\ Finish(t)
         \/ Ledger!Spend(n, Self, now[t]) /\ Goto(t, "record") /\ UNCHANGED <<pres, now>>
      /\ UNCHANGED <<denied, log>>

\* The count of live records is read before the insertion: a full list
\* refuses, and insertions that race past the check overrun the bound by at
\* most one per other task (OverrunBounded of DenyList).
HasRoom(list) == Cardinality(Recorded(list)) < DenyCapacity + Cardinality(Tasks) - 1
MayRefuse(list) == Cardinality(Recorded(list)) >= DenyCapacity

RecordUntil(t, until) ==
  LET p == pres[t]
      list == Purged(now[t])
  IN  /\ pc[t] = "record"
      /\ Finish(t)
      /\ \/ /\ list[p.id] = Absent /\ HasRoom(list)
            /\ denied' = [list EXCEPT ![p.id] = until]
            /\ log' = Append(log, [p |-> p, at |-> clock])
         \/ /\ list[p.id] # Absent \/ MayRefuse(list)
            /\ denied' = list
            /\ UNCHANGED log
      /\ UNCHANGED nonceVars

\* Mutant of Record: the id is remembered until the time of its admission.
RecordFromNow(t) == RecordUntil(t, now[t])

\* The deny-list record, until the timestamp leaves the window. A twin that
\* recorded first makes this one the replay; a full list refuses, and the
\* challenge is spent in both cases.
Record(t) == RecordUntil(t, pres[t].ts + Tolerance)

Tick ==
  /\ clock < MaxTime
  /\ Ledger!LedgerTick
  /\ UNCHANGED <<denied, taskVars, log>>

Next ==
  \/ \E n \in Nonces : IssueChallenge(n)
  \/ ExpireNonces
  \/ \E t \in Tasks, p \in Presentations : Arrive(t, p)
  \/ \E t \in Tasks : Gate(t) \/ Check(t) \/ Consume(t) \/ Record(t)
  \/ Tick

Spec == Init /\ [][Next]_vars

(***************************************************************************)
(* Properties.                                                             *)
(***************************************************************************)

Admissions(n) == {k \in DOMAIN log : log[k].p.nonce = n}

\* One challenge admits at most one presentation: replays, twins in flight and
\* concurrent presentations of the same nonce included.
OneAdmissionPerChallenge ==
  \A n \in Nonces :
     Cardinality(Admissions(n))
       + Cardinality({t \in Tasks : pc[t] = "record" /\ pres[t].nonce = n}) <= issued[n]

\* A message id is not admitted again while the first timestamp is within
\* tolerance, whichever challenge the second presentation answers and
\* however long a request hangs between reading its clock and recording.
NoTwinInWindow ==
  \A j, k \in DOMAIN log :
     j < k /\ log[j].p.id = log[k].p.id => log[k].at > log[j].p.ts + Tolerance

\* A challenge is spent only by a presentation that passed every check of
\* steps 1 to 8: one that fails them cannot use up somebody's challenge.
SpentOnlyByVerified ==
  [][\A n \in Nonces : consumed'[n] # consumed[n] =>
        \E t \in Tasks :
           /\ pc[t] = "consume" /\ pres[t].nonce = n
           /\ pres[t].valid
           /\ WithinTolerance(pres[t].ts, now[t])]_vars
=============================================================================
