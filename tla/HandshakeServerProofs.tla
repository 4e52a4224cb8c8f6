------------------------ MODULE HandshakeServerProofs ------------------------
(***************************************************************************)
(* The handshake server for any number of requests, envelopes and          *)
(* sessions: a session is good for one COMMIT, the table is bounded in     *)
(* size and in time, and how often a replayed envelope can pass.           *)
(***************************************************************************)
EXTENDS HandshakeServer, FiniteSetTheorems, TLAPS

(***************************************************************************)
(* The inductive invariant.                                                *)
(***************************************************************************)

\* The requests that took session s out of the table and have not ended.
Holders(p, q, s) == {t \in Tasks : p[t] = "revocation" /\ q[t].session = s}

Request == [id : Ids \cup {None}, session : Sessions \cup {None}]

Types ==
  /\ TypeOK
  /\ req \in [Tasks -> Request]
  /\ next_sweep \in Nat /\ clock \in Nat
  /\ received \in [Ids -> Nat] /\ completed \in [Sessions -> Nat]

\* A session not yet drawn was not used.
UndrawnUnused ==
  \A s \in Sessions : s \notin drawn => completed[s] = 0 /\ Holders(pc, req, s) = {}

\* The sweeper is never late, so what it left in the table at its last run
\* and what came since lapses at most one period after its lifetime.
SweeperInTime ==
  /\ clock <= next_sweep /\ next_sweep <= clock + SweepEvery
  /\ \A s \in Kept(table) : /\ table[s] <= clock
                            /\ next_sweep - table[s] <= SessionTtl + SweepEvery

\* Receptions of an envelope are at least Window apart, the first no earlier
\* than Tolerance before its timestamp: the guard's entry, or the clock once
\* that entry is gone, has moved on by a window with each.
ReceptionsApart ==
  \A e \in Ids : received[e] > 0 =>
     \/ seen[e] # None /\ seen[e] >= Ts[e] - Tolerance + received[e] * Window
     \/ clock >= Ts[e] - Tolerance + received[e] * Window

\* How often one envelope passes receive_envelope: once for each Window that
\* fits into the time its timestamp is within tolerance.
ReceptionBound ==
  \A e \in Ids : received[e] > 0 => (received[e] - 1) * Window <= 2 * Tolerance

ServerInv ==
  /\ Types /\ SessionCap /\ SessionSingleUse /\ UndrawnUnused
  /\ SweeperInTime /\ ReceptionsApart /\ ReceptionBound

(***************************************************************************)
(* Who holds a session.                                                    *)
(***************************************************************************)

\* Finitely many requests hold a session.
LEMMA HoldersFinite ==
  ASSUME NEW p, NEW q, NEW s
  PROVE  IsFiniteSet(Holders(p, q, s)) /\ Cardinality(Holders(p, q, s)) \in Nat
BY ConstantAssumption, FS_Subset, FS_CardinalityType DEF Holders

\* A request that ends holds nothing, and the others are as they were.
LEMMA FinishHolders ==
  ASSUME Types, NEW t \in Tasks, Finish(t), NEW s \in Sessions
  PROVE  Holders(pc', req', s) = Holders(pc, req, s) \ {t}
<1>1. /\ pc'[t] = "idle"
      /\ \A x \in Tasks : x # t => pc'[x] = pc[x] /\ req'[x] = req[x]
  BY DEF Types, TypeOK, Finish, Goto
<1> QED
  BY <1>1 DEF Holders

\* Taking one request out lowers the number of holders by one if it was one.
LEMMA HoldersMinus ==
  ASSUME NEW H, IsFiniteSet(H), NEW t
  PROVE  Cardinality(H \ {t}) = Cardinality(H) - (IF t \in H THEN 1 ELSE 0)
BY FS_RemoveElement, FS_CardinalityType

\* A request that ends leaves well-typed requests behind.
LEMMA FinishTypes ==
  ASSUME Types, NEW t \in Tasks, Finish(t)
  PROVE  /\ pc' \in [Tasks -> {"idle", "prefetch", "take", "revocation"}]
         /\ req' \in [Tasks -> Request]
         /\ \A x \in Tasks : req'[x].session \in Sessions <=> pc'[x] \in {"take", "revocation"}
<1>1. [id |-> None, session |-> None] \in Request
  BY DEF Request
<1>2. pc \in [Tasks -> {"idle", "prefetch", "take", "revocation"}] /\ req \in [Tasks -> Request]
  BY DEF Types, TypeOK
<1>3. pc' \in [Tasks -> {"idle", "prefetch", "take", "revocation"}]
  BY <1>2 DEF Finish, Goto
<1>4. req' \in [Tasks -> Request]
  BY <1>1, <1>2 DEF Finish
<1>5. /\ pc'[t] = "idle" /\ req'[t] = [id |-> None, session |-> None]
      /\ \A x \in Tasks : x # t => pc'[x] = pc[x] /\ req'[x] = req[x]
  BY <1>2 DEF Finish, Goto
<1>6. req'[t].session \notin Sessions
  BY <1>5, ConstantAssumption
<1> QED
  BY <1>3, <1>4, <1>5, <1>6 DEF Types, TypeOK

(***************************************************************************)
(* The session table.                                                      *)
(***************************************************************************)

\* A table holds finitely many sessions.
LEMMA KeptFinite ==
  ASSUME NEW tab
  PROVE  IsFiniteSet(Kept(tab)) /\ Cardinality(Kept(tab)) \in Nat
BY ConstantAssumption, FS_Subset, FS_CardinalityType DEF Kept

\* sweep_expired removes and changes nothing else.
LEMMA SweptFacts ==
  ASSUME Types
  PROVE  /\ Swept \in [Sessions -> Nat \cup {None}]
         /\ Kept(Swept) \subseteq Kept(table)
         /\ \A s \in Kept(Swept) : Swept[s] = table[s] /\ clock - table[s] <= SessionTtl
         /\ \A s \in Sessions : table[s] # None /\ clock - table[s] <= SessionTtl => Swept[s] = table[s]
         /\ Cardinality(Kept(Swept)) <= Cardinality(Kept(table))
<1>1. Swept \in [Sessions -> Nat \cup {None}] /\ None \notin Nat
  BY ConstantAssumption DEF Types, TypeOK, Swept
<1>2. \A s \in Kept(Swept) : s \in Kept(table) /\ Swept[s] = table[s] /\ ~Expired(s)
  BY DEF Kept, Swept
<1>3. \A s \in Kept(table) : table[s] \in Nat
  BY DEF Types, TypeOK, Kept
<1>4. \A s \in Kept(Swept) : clock - table[s] <= SessionTtl
  BY <1>2, <1>3, ConstantAssumption DEF Expired, Types, Kept
<1>5. \A s \in Sessions : table[s] # None /\ clock - table[s] <= SessionTtl => Swept[s] = table[s]
  BY <1>3, ConstantAssumption DEF Swept, Expired, Types, Kept
<1>6. Cardinality(Kept(Swept)) <= Cardinality(Kept(table))
  BY <1>2, KeptFinite, FS_Subset
<1> QED
  BY <1>1, <1>2, <1>4, <1>5, <1>6

\* evict_to_capacity makes room for exactly one more.
LEMMA RoomForOne ==
  ASSUME NEW tab, NEW V \in Victims(tab)
  PROVE  Cardinality(Kept(tab) \ V) + 1 <= MaxSessions
<1> DEFINE K == Kept(tab)
<1>1. IsFiniteSet(K) /\ Cardinality(K) \in Nat
  BY KeptFinite
<1>2. V \subseteq K /\ K \cap V = V
  BY DEF Victims
<1>3. Cardinality(V) = IF Cardinality(K) < MaxSessions THEN 0 ELSE Cardinality(K) - (MaxSessions - 1)
  BY DEF Victims
<1> HIDE DEF K
<1>4. Cardinality(K \ V) = Cardinality(K) - Cardinality(V)
  BY <1>1, <1>2, FS_Difference
<1>5. Cardinality(K) - Cardinality(V) + 1 <= MaxSessions
  BY <1>1, <1>3, ConstantAssumption
<1> QED
  BY <1>1, <1>4, <1>5 DEF K

\* What handle_hello does to the table: the new session enters, nothing else
\* does, what stays keeps its time.
LEMMA EstablishFacts ==
  ASSUME Types, NEW s \in Sessions, NEW V \in Victims(Swept), NEW w,
         w = [x \in Sessions |-> IF x = s THEN clock ELSE IF x \in V THEN None ELSE Swept[x]]
  PROVE  /\ w \in [Sessions -> Nat \cup {None}]
         /\ w[s] = clock /\ s \in Kept(w)
         /\ Kept(w) = (Kept(Swept) \ V) \cup {s}
         /\ \A x \in Kept(w) : x # s => x \in Kept(Swept) /\ x \notin V /\ w[x] = table[x]
         /\ Cardinality(Kept(w)) <= MaxSessions
<1>1. Swept \in [Sessions -> Nat \cup {None}] /\ clock \in Nat /\ clock # None
  BY SweptFacts, ConstantAssumption DEF Types
<1>2. w \in [Sessions -> Nat \cup {None}] /\ w[s] = clock
  BY <1>1
<1>3. Kept(w) = (Kept(Swept) \ V) \cup {s}
  BY <1>1 DEF Kept, Victims
<1>4. \A x \in Kept(w) : x # s => x \in Kept(Swept) /\ x \notin V /\ w[x] = Swept[x]
  BY <1>1, <1>3 DEF Kept
<1>5. Cardinality(Kept(w)) <= MaxSessions
  <2> DEFINE R == Kept(Swept) \ V
  <2>1. IsFiniteSet(R) /\ Cardinality(R) \in Nat
    BY KeptFinite, FS_Subset, FS_CardinalityType
  <2>2. Cardinality(R) + 1 <= MaxSessions
    BY RoomForOne
  <2> HIDE DEF R
  <2>3. Cardinality(R \cup {s}) <= Cardinality(R) + 1
    BY <2>1, FS_AddElement
  <2>4. Kept(w) = R \cup {s}
    BY <1>3 DEF R
  <2>5. Cardinality(R \cup {s}) \in Nat
    BY <2>1, FS_AddElement, FS_CardinalityType
  <2>6. Cardinality(R \cup {s}) <= MaxSessions
    BY <2>1, <2>2, <2>3, <2>5, ConstantAssumption
  <2> QED
    BY <2>4, <2>6
<1> QED
  BY <1>1, <1>2, <1>3, <1>4, <1>5, SweptFacts DEF Kept

(***************************************************************************)
(* The replay guard.                                                       *)
(***************************************************************************)

\* A check of the guard forgets an entry only once it has lapsed.
LEMMA GuardKeeps ==
  ASSUME Types, ReceptionsApart, NEW e \in Ids, NEW x \in Ids, received[x] > 0
  PROVE  /\ RecordId(e) \in [Ids -> Nat \cup {None}]
         /\ \/ RecordId(e)[x] # None /\ RecordId(e)[x] >= Ts[x] - Tolerance + received[x] * Window
            \/ clock >= Ts[x] - Tolerance + received[x] * Window
<1> DEFINE due == Ts[x] - Tolerance + received[x] * Window
<1>1. seen \in [Ids -> Nat \cup {None}] /\ clock \in Nat /\ Window \in Nat /\ None \notin Nat
  BY ConstantAssumption DEF Types, TypeOK
<1>2. SeenNow \in [Ids -> Nat \cup {None}] /\ SeenNow[x] = IF Remembered(x) THEN seen[x] ELSE None
  BY <1>1 DEF SeenNow
<1>3. RecordId(e) \in [Ids -> Nat \cup {None}]
  BY <1>1, <1>2 DEF RecordId
<1>4. due \in Int
  <2>1. received[x] \in Nat /\ Ts[x] \in Nat /\ Tolerance \in Nat
    BY ConstantAssumption DEF Types
  <2>2. received[x] * Window \in Nat
    BY <1>1, <2>1
  <2> QED
    BY <2>1, <2>2
<1>5. (seen[x] # None /\ seen[x] >= due) \/ clock >= due
  BY DEF ReceptionsApart
<1> HIDE DEF due
<1>6. CASE Remembered(x)
  <2>1. RecordId(e)[x] = seen[x]
    BY <1>2, <1>6 DEF RecordId
  <2> QED
    BY <1>3, <1>5, <1>6, <2>1 DEF Remembered, due
<1>7. CASE ~Remembered(x)
  <2>1. seen[x] = None \/ seen[x] <= clock
    BY <1>1, <1>7 DEF Remembered
  <2>2. clock >= due
    BY <1>1, <1>4, <1>5, <2>1
  <2> QED
    BY <1>3, <2>2 DEF due
<1> QED
  BY <1>6, <1>7

(***************************************************************************)
(* The invariant holds initially and in every step.                        *)
(***************************************************************************)

\* SessionSingleUse, read off its parts.
Uses(s) == completed[s] + Cardinality(Holders(pc, req, s)) + (IF table[s] # None THEN 1 ELSE 0)

\* SessionSingleUse counts the holders.
LEMMA SingleUseUses == SessionSingleUse <=> \A s \in Sessions : Uses(s) <= 1
BY DEF SessionSingleUse, Uses, Holders

\* The same after a step.
LEMMA SingleUseUsesNext == SessionSingleUse' <=> \A s \in Sessions : Uses(s)' <= 1
BY DEF SessionSingleUse, Uses, Holders

\* Nothing was received and no session drawn.
LEMMA InitInv == Init => ServerInv
<1> SUFFICES ASSUME Init PROVE ServerInv
  OBVIOUS
<1>1. Kept(table) = {} /\ \A s \in Sessions : Holders(pc, req, s) = {}
  BY DEF Init, Kept, Holders
<1>2. Types
  <2>1. \A t \in Tasks : req[t].session = None /\ pc[t] = "idle"
    BY DEF Init
  <2>2. req \in [Tasks -> Request]
    BY DEF Init, Request
  <2> QED
    BY <1>1, <2>1, <2>2, ConstantAssumption DEF Init, Types, TypeOK
<1>3. SessionCap
  BY <1>1, FS_EmptySet, ConstantAssumption DEF SessionCap
<1>4. SessionSingleUse
  <2>1. \A s \in Sessions : Cardinality(Holders(pc, req, s)) = 0
    BY <1>1, FS_EmptySet
  <2> QED
    BY <2>1, SingleUseUses DEF Uses, Init
<1>5. UndrawnUnused /\ SweeperInTime /\ ReceptionsApart /\ ReceptionBound
  BY <1>1, ConstantAssumption DEF Init, UndrawnUnused, SweeperInTime, ReceptionsApart, ReceptionBound
<1> QED
  BY <1>2, <1>3, <1>4, <1>5 DEF ServerInv

\* What a step that leaves the table and the time alone keeps.
LEMMA TableFrame ==
  ASSUME ServerInv, UNCHANGED <<table, next_sweep, clock>>
  PROVE  SessionCap' /\ SweeperInTime' /\ Kept(table)' = Kept(table)
BY DEF ServerInv, SessionCap, SweeperInTime, Kept

\* What a step that leaves the guard and the time alone keeps.
LEMMA GuardFrame ==
  ASSUME ServerInv, UNCHANGED <<seen, clock, received>>
  PROVE  ReceptionsApart' /\ ReceptionBound'
BY DEF ServerInv, ReceptionsApart, ReceptionBound

\* A check of the guard that receives nothing keeps the receptions apart.
LEMMA RefuseEnvelopeInv ==
  ASSUME ServerInv, NEW e \in Ids, RefuseEnvelope(e)
  PROVE  ServerInv'
<1>1. /\ seen' = RecordId(e)
      /\ UNCHANGED <<table, pc, req, next_sweep, clock, drawn, received, completed>>
  BY DEF RefuseEnvelope, local, history
<1>2. SeenNow \in [Ids -> Nat \cup {None}] /\ RecordId(e) \in [Ids -> Nat \cup {None}]
  BY ConstantAssumption DEF ServerInv, Types, TypeOK, SeenNow, RecordId
<1>3. Types'
  BY <1>1, <1>2 DEF ServerInv, Types, TypeOK, Kept
<1>4. SessionSingleUse' /\ UndrawnUnused'
  BY <1>1 DEF ServerInv, SessionSingleUse, UndrawnUnused, Holders
<1>5. ReceptionBound'
  BY <1>1 DEF ServerInv, ReceptionBound
<1>6. ReceptionsApart'
  BY <1>1, GuardKeeps DEF ServerInv, ReceptionsApart
<1> QED
  BY <1>1, <1>3, <1>4, <1>5, <1>6, TableFrame DEF ServerInv

\* receive_envelope passes one: a window has gone by since the last time, and
\* the timestamp has not left its tolerance.
LEMMA ReceptionStep ==
  ASSUME ServerInv, NEW e \in Ids, seen' = RecordId(e), Acceptable(e),
         received' = [received EXCEPT ![e] = @ + 1], UNCHANGED clock
  PROVE  ReceptionsApart' /\ ReceptionBound' /\ seen' \in [Ids -> Nat \cup {None}]
                          /\ received' \in [Ids -> Nat]
<1> DEFINE n == received[e]
<1>1. /\ n \in Nat /\ clock \in Nat /\ Window \in Nat /\ Tolerance \in Nat /\ Ts[e] \in Nat
      /\ seen[e] \in Nat \cup {None} /\ None \notin Nat /\ received \in [Ids -> Nat]
      /\ seen \in [Ids -> Nat \cup {None}]
  BY ConstantAssumption DEF ServerInv, Types, TypeOK
<1>2. ~Remembered(e) /\ Ts[e] - clock <= Tolerance /\ clock - Ts[e] <= Tolerance
  BY DEF Acceptable, WithinTolerance
<1>3. /\ received'[e] = n + 1 /\ received' \in [Ids -> Nat]
      /\ \A x \in Ids : x # e => received'[x] = received[x]
  BY <1>1
<1>4. /\ SeenNow \in [Ids -> Nat \cup {None}]
      /\ RecordId(e) = [SeenNow EXCEPT ![e] = clock + Window]
  BY <1>1, <1>2 DEF SeenNow, RecordId
<1>5. seen'[e] = clock + Window /\ seen' \in [Ids -> Nat \cup {None}] /\ clock + Window \in Nat
  BY <1>1, <1>4
<1>6. n * Window \in Nat /\ (n + 1) * Window = n * Window + Window
  BY <1>1
<1>7. clock >= Ts[e] - Tolerance + n * Window
  <2>1. CASE n = 0
    <3>1. n * Window = 0
      BY <1>1, <2>1
    <3> QED
      BY <1>1, <1>2, <3>1
  <2>2. CASE n > 0
    <3>1. (seen[e] # None /\ seen[e] >= Ts[e] - Tolerance + n * Window)
            \/ clock >= Ts[e] - Tolerance + n * Window
      BY <2>2 DEF ServerInv, ReceptionsApart
    <3>2. seen[e] = None \/ seen[e] <= clock
      BY <1>1, <1>2 DEF Remembered
    <3> HIDE DEF n
    <3> QED
      BY <1>1, <1>6, <3>1, <3>2
  <2> QED
    BY <1>1, <2>1, <2>2
<1>8. n * Window <= 2 * Tolerance
  <2> HIDE DEF n
  <2> QED
    BY <1>1, <1>2, <1>6, <1>7
<1>9. clock + Window >= Ts[e] - Tolerance + (n + 1) * Window
  <2> HIDE DEF n
  <2> QED
    BY <1>1, <1>6, <1>7
<1>10. ReceptionsApart'
  <2> SUFFICES ASSUME NEW x \in Ids, received'[x] > 0
               PROVE  \/ seen'[x] # None /\ seen'[x] >= Ts[x] - Tolerance + received'[x] * Window
                      \/ clock' >= Ts[x] - Tolerance + received'[x] * Window
    BY DEF ReceptionsApart
  <2>1. CASE x = e
    BY <1>1, <1>3, <1>5, <1>9, <2>1
  <2>2. CASE x # e
    <3>1. received'[x] = received[x] /\ received[x] > 0
      BY <1>3, <2>2
    <3>2. \/ RecordId(e)[x] # None /\ RecordId(e)[x] >= Ts[x] - Tolerance + received[x] * Window
          \/ clock >= Ts[x] - Tolerance + received[x] * Window
      BY <3>1, GuardKeeps DEF ServerInv
    <3> QED
      BY <3>1, <3>2
  <2> QED
    BY <2>1, <2>2
<1>11. ReceptionBound'
  <2> SUFFICES ASSUME NEW x \in Ids, received'[x] > 0
               PROVE  (received'[x] - 1) * Window <= 2 * Tolerance
    BY DEF ReceptionBound
  <2>1. CASE x = e
    <3>1. received'[x] - 1 = n
      BY <1>1, <1>3, <2>1
    <3> QED
      BY <1>8, <3>1
  <2>2. CASE x # e
    BY <1>3, <2>2 DEF ServerInv, ReceptionBound
  <2> QED
    BY <2>1, <2>2
<1> QED
  BY <1>3, <1>5, <1>10, <1>11

\* A request starts: it holds no session yet.
LEMMA ReceiveInv ==
  ASSUME ServerInv, NEW t \in Tasks, NEW e \in Ids, NEW s \in Sessions \cup {None},
         s = None <=> e \in Hellos, Receive(t, e, s)
  PROVE  ServerInv'
<1>1. /\ pc[t] = "idle" /\ seen' = RecordId(e) /\ Acceptable(e)
      /\ received' = [received EXCEPT ![e] = @ + 1]
      /\ pc' = [pc EXCEPT ![t] = IF e \in Hellos THEN "prefetch" ELSE "take"]
      /\ req' = [req EXCEPT ![t] = [id |-> e, session |-> s]]
  BY DEF Receive, Goto
<1>2. UNCHANGED <<table, next_sweep, clock, drawn, completed>>
  BY DEF Receive
<1>3. ReceptionsApart' /\ ReceptionBound' /\ seen' \in [Ids -> Nat \cup {None}]
                       /\ received' \in [Ids -> Nat]
  BY <1>1, <1>2, ReceptionStep
<1>4. /\ pc \in [Tasks -> {"idle", "prefetch", "take", "revocation"}] /\ req \in [Tasks -> Request]
      /\ [id |-> e, session |-> s] \in Request
  BY DEF ServerInv, Types, TypeOK, Request
<1>5. /\ pc' \in [Tasks -> {"idle", "prefetch", "take", "revocation"}] /\ req' \in [Tasks -> Request]
      /\ pc'[t] = (IF e \in Hellos THEN "prefetch" ELSE "take") /\ req'[t].session = s
      /\ \A x \in Tasks : x # t => pc'[x] = pc[x] /\ req'[x] = req[x]
  BY <1>1, <1>4
<1>6. req'[t].session \in Sessions <=> pc'[t] \in {"take", "revocation"}
  BY <1>5, ConstantAssumption
<1>7. Types'
  BY <1>2, <1>3, <1>5, <1>6 DEF ServerInv, Types, TypeOK, Kept
<1>8. \A x : Holders(pc', req', x) = Holders(pc, req, x)
  BY <1>1, <1>5 DEF Holders
<1>9. SessionSingleUse'
  BY <1>2, <1>8, SingleUseUses, SingleUseUsesNext DEF ServerInv, Uses
<1>10. UndrawnUnused'
  BY <1>2, <1>8 DEF ServerInv, UndrawnUnused
<1> QED
  BY <1>2, <1>3, <1>7, <1>9, <1>10, TableFrame DEF ServerInv

\* A request that ends early gives nothing back: a session it held is lost.
LEMMA AbandonInv ==
  ASSUME ServerInv, NEW t \in Tasks, Abandon(t)
  PROVE  ServerInv'
<1>1. Finish(t) /\ UNCHANGED <<table, seen, next_sweep, clock, drawn, received, completed>>
  BY DEF Abandon, history
<1>2. Types
  BY DEF ServerInv
<1>3. Types'
  BY <1>1, <1>2, FinishTypes DEF Types, TypeOK, Kept
<1>4. \A s \in Sessions : Holders(pc', req', s) = Holders(pc, req, s) \ {t}
  BY <1>1, <1>2, FinishHolders
<1>5. \A s \in Sessions : /\ Cardinality(Holders(pc', req', s)) \in Nat
                          /\ Cardinality(Holders(pc, req, s)) \in Nat
                          /\ Cardinality(Holders(pc', req', s)) <= Cardinality(Holders(pc, req, s))
  BY <1>4, HoldersFinite, HoldersMinus
<1>6. SessionSingleUse'
  <2> SUFFICES ASSUME NEW s \in Sessions PROVE Uses(s)' <= 1
    BY SingleUseUsesNext
  <2>1. Uses(s) <= 1 /\ completed[s] \in Nat
    BY SingleUseUses DEF ServerInv, Types
  <2> QED
    BY <1>1, <1>5, <2>1 DEF Uses
<1>7. UndrawnUnused'
  BY <1>1, <1>4 DEF ServerInv, UndrawnUnused
<1> QED
  BY <1>1, <1>3, <1>6, <1>7, TableFrame, GuardFrame DEF ServerInv

\* on_commit accepts: a hold becomes a completion.
LEMMA CompleteInv ==
  ASSUME ServerInv, NEW t \in Tasks, Complete(t)
  PROVE  ServerInv'
<1> DEFINE s0 == req[t].session
<1>1. /\ pc[t] = "revocation" /\ Finish(t) /\ UNCHANGED <<table, seen, next_sweep, clock, drawn, received>>
      /\ completed' = [completed EXCEPT ![s0] = @ + 1]
  BY DEF Complete
<1>2. Types
  BY DEF ServerInv
<1>3. s0 \in Sessions
  BY <1>1, <1>2 DEF Types, TypeOK
<1> HIDE DEF s0
<1>4. /\ completed' \in [Sessions -> Nat] /\ completed'[s0] = completed[s0] + 1
      /\ \A s \in Sessions : s # s0 => completed'[s] = completed[s]
      /\ completed \in [Sessions -> Nat]
  BY <1>1, <1>2, <1>3 DEF Types
<1>5. Types'
  BY <1>1, <1>2, <1>4, FinishTypes DEF Types, TypeOK, Kept
<1>6. \A s \in Sessions : Holders(pc', req', s) = Holders(pc, req, s) \ {t}
  BY <1>1, <1>2, FinishHolders
<1>7. t \in Holders(pc, req, s0)
  BY <1>1 DEF Holders, s0
<1>8. SessionSingleUse'
  <2> SUFFICES ASSUME NEW s \in Sessions PROVE Uses(s)' <= 1
    BY SingleUseUsesNext
  <2>1. Uses(s) <= 1
    BY SingleUseUses DEF ServerInv
  <2>2. /\ Cardinality(Holders(pc', req', s))
             = Cardinality(Holders(pc, req, s)) - (IF t \in Holders(pc, req, s) THEN 1 ELSE 0)
        /\ Cardinality(Holders(pc, req, s)) \in Nat
        /\ Cardinality(Holders(pc', req', s)) \in Nat
    BY <1>6, HoldersFinite, HoldersMinus
  <2> QED
    BY <1>1, <1>4, <1>7, <2>1, <2>2 DEF Uses
<1>9. UndrawnUnused'
  BY <1>1, <1>4, <1>6, <1>7 DEF ServerInv, UndrawnUnused
<1> QED
  BY <1>1, <1>5, <1>8, <1>9, TableFrame, GuardFrame DEF ServerInv

\* What sweeping leaves satisfies every bound of the table.
LEMMA SweptInv ==
  ASSUME ServerInv, NEW w \in [Sessions -> Nat \cup {None}], Kept(w) \subseteq Kept(Swept),
         \A s \in Kept(w) : w[s] = Swept[s]
  PROVE  /\ Kept(w) \subseteq Kept(table) /\ Kept(w) \subseteq drawn
         /\ Cardinality(Kept(w)) <= MaxSessions
         /\ \A s \in Kept(w) : /\ w[s] = table[s] /\ w[s] \in Nat
                               /\ clock - w[s] <= SessionTtl
                               /\ w[s] <= clock
                               /\ next_sweep - w[s] <= SessionTtl + SweepEvery
<1>1. Types
  BY DEF ServerInv
<1>2. Kept(w) \subseteq Kept(table) /\ \A s \in Kept(w) : w[s] = table[s] /\ clock - w[s] <= SessionTtl
  BY <1>1, SweptFacts
<1>3. Cardinality(Kept(w)) <= Cardinality(Kept(table))
  BY <1>2, KeptFinite, FS_Subset
<1>4. Cardinality(Kept(w)) <= MaxSessions
  <2>1. Cardinality(Kept(w)) \in Nat /\ Cardinality(Kept(table)) \in Nat
    BY KeptFinite
  <2> QED
    BY <1>3, <2>1, ConstantAssumption DEF ServerInv, SessionCap
<1>5. \A s \in Kept(w) : w[s] \in Nat
  BY DEF Kept
<1> QED
  BY <1>1, <1>2, <1>4, <1>5 DEF ServerInv, SweeperInTime, Types, TypeOK

\* A COMMIT takes its session out of the table, or finds none.
LEMMA TakeInv ==
  ASSUME ServerInv, NEW t \in Tasks, Take(t)
  PROVE  ServerInv'
<1> DEFINE s0 == req[t].session
<1>1. pc[t] = "take" /\ UNCHANGED <<seen, next_sweep, clock, drawn, received, completed>>
  BY DEF Take, history
<1>2. Types
  BY DEF ServerInv
<1>3. s0 \in Sessions
  BY <1>1, <1>2 DEF Types, TypeOK
<1> HIDE DEF s0
<1>4. table' \in [Sessions -> Nat \cup {None}] /\ Kept(table') \subseteq Kept(Swept)
        /\ \A s \in Kept(table') : table'[s] = Swept[s]
  <2>1. Swept \in [Sessions -> Nat \cup {None}]
    BY <1>2, SweptFacts
  <2>2. table' = Swept \/ table' = [Swept EXCEPT ![s0] = None]
    BY DEF Take, s0
  <2>3. CASE table' = Swept
    BY <2>1, <2>3
  <2>4. CASE table' = [Swept EXCEPT ![s0] = None]
    BY <1>3, <2>1, <2>4 DEF Kept
  <2> QED
    BY <2>2, <2>3, <2>4
<1>5. /\ Kept(table') \subseteq Kept(table) /\ Kept(table') \subseteq drawn
      /\ Cardinality(Kept(table')) <= MaxSessions
      /\ \A s \in Kept(table') : /\ table'[s] <= clock
                                 /\ next_sweep - table'[s] <= SessionTtl + SweepEvery
  BY <1>4, SweptInv
<1>6. SessionCap' /\ SweeperInTime'
  BY <1>1, <1>5 DEF ServerInv, SessionCap, SweeperInTime
<1>7. CASE Swept[s0] = None
  <2>1. Finish(t)
    BY <1>7 DEF Take, s0
  <2>2. Types'
    BY <1>1, <1>2, <1>4, <1>5, <2>1, FinishTypes DEF Types, TypeOK
  <2>3. \A s \in Sessions : Holders(pc', req', s) = Holders(pc, req, s)
    <3>1. \A s \in Sessions : Holders(pc', req', s) = Holders(pc, req, s) \ {t}
      BY <1>2, <2>1, FinishHolders
    <3> QED
      BY <1>1, <3>1 DEF Holders
  <2>4. SessionSingleUse'
    <3> SUFFICES ASSUME NEW s \in Sessions PROVE Uses(s)' <= 1
      BY SingleUseUsesNext
    <3>1. Uses(s) <= 1 /\ completed[s] \in Nat /\ Cardinality(Holders(pc, req, s)) \in Nat
      BY SingleUseUses, HoldersFinite DEF ServerInv, Types
    <3>2. table'[s] # None => table[s] # None
      BY <1>5 DEF Kept
    <3> QED
      BY <1>1, <2>3, <3>1, <3>2 DEF Uses
  <2>5. UndrawnUnused'
    BY <1>1, <2>3 DEF ServerInv, UndrawnUnused
  <2> QED
    BY <1>1, <1>6, <2>2, <2>4, <2>5, GuardFrame DEF ServerInv
<1>8. CASE Swept[s0] # None
  <2>1. pc' = [pc EXCEPT ![t] = "revocation"] /\ req' = req /\ table' = [Swept EXCEPT ![s0] = None]
    BY <1>8 DEF Take, s0, Goto
  <2>2. table'[s0] = None /\ table[s0] # None /\ s0 \in drawn
    <3>1. s0 \in Kept(Swept) /\ Swept \in [Sessions -> Nat \cup {None}]
      BY <1>2, <1>3, <1>8, SweptFacts DEF Kept
    <3>2. s0 \in Kept(table)
      BY <1>2, <3>1, SweptFacts
    <3> QED
      BY <1>2, <2>1, <3>1, <3>2 DEF Kept, Types, TypeOK
  <2>3. /\ pc' \in [Tasks -> {"idle", "prefetch", "take", "revocation"}]
        /\ pc'[t] = "revocation" /\ \A x \in Tasks : x # t => pc'[x] = pc[x]
    BY <1>2, <2>1 DEF Types, TypeOK
  <2>4. Types'
    BY <1>1, <1>2, <1>4, <1>5, <2>1, <2>3 DEF Types, TypeOK
  <2>5. /\ Holders(pc', req', s0) = Holders(pc, req, s0) \cup {t} /\ t \notin Holders(pc, req, s0)
        /\ \A s \in Sessions : s # s0 => Holders(pc', req', s) = Holders(pc, req, s)
    BY <1>1, <2>1, <2>3 DEF Holders, s0
  <2>6. SessionSingleUse'
    <3> SUFFICES ASSUME NEW s \in Sessions PROVE Uses(s)' <= 1
      BY SingleUseUsesNext
    <3>1. Uses(s) <= 1 /\ completed[s] \in Nat /\ Cardinality(Holders(pc, req, s)) \in Nat
      BY SingleUseUses, HoldersFinite DEF ServerInv, Types
    <3>2. CASE s = s0
      <4>1. Cardinality(Holders(pc', req', s0)) = Cardinality(Holders(pc, req, s0)) + 1
        BY <2>5, HoldersFinite, FS_AddElement
      <4> QED
        BY <1>1, <2>2, <3>1, <3>2, <4>1 DEF Uses
    <3>3. CASE s # s0
      <4>1. table'[s] # None => table[s] # None
        BY <1>5 DEF Kept
      <4> QED
        BY <1>1, <2>5, <3>1, <3>3, <4>1 DEF Uses
    <3> QED
      BY <3>2, <3>3
  <2>7. UndrawnUnused'
    BY <1>1, <2>2, <2>5 DEF ServerInv, UndrawnUnused
  <2> QED
    BY <1>1, <1>6, <2>4, <2>6, <2>7, GuardFrame DEF ServerInv
<1> QED
  BY <1>7, <1>8

\* handle_hello parks a session, after sweeping and making room.
LEMMA EstablishInv ==
  ASSUME ServerInv, NEW t \in Tasks, NEW s0 \in Sessions, Establish(t, s0)
  PROVE  ServerInv'
<1>1. /\ pc[t] = "prefetch" /\ s0 \notin drawn /\ drawn' = drawn \cup {s0} /\ Finish(t)
      /\ UNCHANGED <<seen, next_sweep, clock, received, completed>>
  BY DEF Establish
<1>2. PICK V \in Victims(Swept) :
         table' = [x \in Sessions |-> IF x = s0 THEN clock ELSE IF x \in V THEN None ELSE Swept[x]]
  BY DEF Establish
<1>3. Types
  BY DEF ServerInv
<1>4. /\ table' \in [Sessions -> Nat \cup {None}]
      /\ table'[s0] = clock /\ s0 \in Kept(table')
      /\ \A x \in Kept(table') : x # s0 => x \in Kept(Swept) /\ table'[x] = table[x]
      /\ Cardinality(Kept(table')) <= MaxSessions
  BY <1>2, <1>3, EstablishFacts
<1>5. Kept(Swept) \subseteq Kept(table) /\ Kept(table) \subseteq drawn /\ drawn \subseteq Sessions
  BY <1>3, SweptFacts DEF Types, TypeOK
<1>6. Types'
  BY <1>1, <1>3, <1>4, <1>5, FinishTypes DEF Types, TypeOK
<1>7. SessionCap'
  BY <1>4 DEF SessionCap
<1>8. SweeperInTime'
  <2>1. /\ clock \in Nat /\ next_sweep \in Nat /\ SessionTtl \in Nat /\ SweepEvery \in Nat
        /\ next_sweep <= clock + SweepEvery /\ clock <= next_sweep
    BY <1>3, ConstantAssumption DEF Types, ServerInv, SweeperInTime
  <2>2. ASSUME NEW x \in Kept(table')
        PROVE  table'[x] <= clock /\ next_sweep - table'[x] <= SessionTtl + SweepEvery
    <3>1. CASE x = s0
      BY <1>4, <2>1, <3>1
    <3>2. CASE x # s0
      BY <1>4, <1>5, <2>2, <3>2 DEF ServerInv, SweeperInTime
    <3> QED
      BY <3>1, <3>2
  <2> QED
    BY <1>1, <2>1, <2>2 DEF SweeperInTime
<1>9. \A s \in Sessions : Holders(pc', req', s) = Holders(pc, req, s)
  <2>1. \A s \in Sessions : Holders(pc', req', s) = Holders(pc, req, s) \ {t}
    BY <1>1, <1>3, FinishHolders
  <2> QED
    BY <1>1, <2>1 DEF Holders
<1>10. SessionSingleUse'
  <2> SUFFICES ASSUME NEW s \in Sessions PROVE Uses(s)' <= 1
    BY SingleUseUsesNext
  <2>1. Uses(s) <= 1 /\ completed[s] \in Nat /\ Cardinality(Holders(pc, req, s)) \in Nat
    BY SingleUseUses, HoldersFinite DEF ServerInv, Types
  <2>2. CASE s = s0
    <3>1. completed[s] = 0 /\ Holders(pc, req, s) = {}
      BY <1>1, <2>2 DEF ServerInv, UndrawnUnused
    <3>2. Cardinality(Holders(pc, req, s)) = 0
      BY <3>1, FS_EmptySet
    <3> QED
      BY <1>1, <1>9, <3>1, <3>2 DEF Uses
  <2>3. CASE s # s0
    <3>1. table'[s] # None => table[s] # None
      BY <1>4, <1>5, <2>3 DEF Kept
    <3> QED
      BY <1>1, <1>9, <2>1, <3>1 DEF Uses
  <2> QED
    BY <2>2, <2>3
<1>11. UndrawnUnused'
  BY <1>1, <1>9 DEF ServerInv, UndrawnUnused
<1> QED
  BY <1>1, <1>6, <1>7, <1>8, <1>10, <1>11, GuardFrame DEF ServerInv

\* The sweeper runs in its second.
LEMMA SweepInv ==
  ASSUME ServerInv, Sweep
  PROVE  ServerInv'
<1>1. /\ clock = next_sweep /\ table' = Swept /\ next_sweep' = next_sweep + SweepEvery
      /\ UNCHANGED <<seen, pc, req, clock, drawn, received, completed>>
  BY DEF Sweep, local, history
<1>2. Types /\ Swept \in [Sessions -> Nat \cup {None}]
  BY SweptFacts DEF ServerInv
<1>3. /\ Kept(Swept) \subseteq Kept(table) /\ Kept(Swept) \subseteq drawn
      /\ Cardinality(Kept(Swept)) <= MaxSessions
      /\ \A s \in Kept(Swept) : /\ Swept[s] = table[s] /\ Swept[s] \in Nat
                                /\ clock - Swept[s] <= SessionTtl
                                /\ Swept[s] <= clock
  BY <1>2, SweptInv
<1>4. /\ clock \in Nat /\ next_sweep \in Nat /\ SessionTtl \in Nat /\ SweepEvery \in Nat
  BY <1>2, ConstantAssumption DEF Types
<1>5. Types'
  BY <1>1, <1>2, <1>3, <1>4 DEF Types, TypeOK
<1>6. SessionCap' /\ SweeperInTime'
  BY <1>1, <1>3, <1>4 DEF SessionCap, SweeperInTime
<1>7. SessionSingleUse'
  <2> SUFFICES ASSUME NEW s \in Sessions PROVE Uses(s)' <= 1
    BY SingleUseUsesNext
  <2>1. Uses(s) <= 1 /\ completed[s] \in Nat /\ Cardinality(Holders(pc, req, s)) \in Nat
    BY SingleUseUses, HoldersFinite DEF ServerInv, Types
  <2>2. Swept[s] # None => table[s] # None
    BY <1>3 DEF Kept
  <2> QED
    BY <1>1, <2>1, <2>2 DEF Uses
<1>8. UndrawnUnused'
  BY <1>1 DEF ServerInv, UndrawnUnused
<1> QED
  BY <1>1, <1>5, <1>6, <1>7, <1>8, GuardFrame DEF ServerInv

\* Time goes on, up to the next sweep.
LEMMA TickInv ==
  ASSUME ServerInv, Tick
  PROVE  ServerInv'
<1>1. /\ clock < next_sweep /\ clock' = clock + 1
      /\ UNCHANGED <<table, seen, pc, req, next_sweep, drawn, received, completed>>
  BY DEF Tick, local, history
<1>2. /\ clock \in Nat /\ next_sweep \in Nat /\ SweepEvery \in Nat /\ Types
      /\ \A s \in Kept(table) : table[s] \in Nat
  BY ConstantAssumption DEF ServerInv, Types, TypeOK, Kept
<1>3. Types'
  BY <1>1, <1>2 DEF Types, TypeOK, Kept
<1>4. SessionCap' /\ Kept(table)' = Kept(table)
  BY <1>1 DEF ServerInv, SessionCap, Kept
<1>5. SweeperInTime'
  BY <1>1, <1>2, <1>4 DEF ServerInv, SweeperInTime
<1>6. SessionSingleUse' /\ UndrawnUnused' /\ ReceptionBound'
  BY <1>1 DEF ServerInv, SessionSingleUse, UndrawnUnused, ReceptionBound, Holders
<1>7. ReceptionsApart'
  <2> SUFFICES ASSUME NEW e \in Ids, received[e] > 0
               PROVE  \/ seen[e] # None /\ seen[e] >= Ts[e] - Tolerance + received[e] * Window
                      \/ clock + 1 >= Ts[e] - Tolerance + received[e] * Window
    BY <1>1 DEF ReceptionsApart
  <2> DEFINE due == Ts[e] - Tolerance + received[e] * Window
  <2>1. due \in Int
    <3>1. received[e] \in Nat /\ Window \in Nat /\ Ts[e] \in Nat /\ Tolerance \in Nat
      BY <1>2, ConstantAssumption DEF Types
    <3>2. received[e] * Window \in Nat
      BY <3>1
    <3> QED
      BY <3>1, <3>2
  <2>2. (seen[e] # None /\ seen[e] >= due) \/ clock >= due
    BY DEF ServerInv, ReceptionsApart
  <2> HIDE DEF due
  <2>3. (seen[e] # None /\ seen[e] >= due) \/ clock + 1 >= due
    BY <1>2, <2>1, <2>2
  <2> QED
    BY <2>3 DEF due
<1> QED
  BY <1>3, <1>4, <1>5, <1>6, <1>7 DEF ServerInv

\* Every step keeps the invariant.
LEMMA NextInv == ServerInv /\ [Next]_vars => ServerInv'
<1> SUFFICES ASSUME ServerInv, [Next]_vars PROVE ServerInv'
  OBVIOUS
<1>1. ASSUME NEW t \in Tasks, NEW e \in Hellos, Receive(t, e, None) PROVE ServerInv'
  BY <1>1, ReceiveInv DEF Ids
<1>2. ASSUME NEW t \in Tasks, NEW e \in Commits, NEW s \in Sessions, Receive(t, e, s)
      PROVE  ServerInv'
  <2>1. e \in Ids /\ e \notin Hellos /\ s # None
    BY ConstantAssumption DEF Ids
  <2> QED
    BY <1>2, <2>1, ReceiveInv
<1>3. ASSUME NEW e \in Ids, RefuseEnvelope(e) PROVE ServerInv'
  BY <1>3, RefuseEnvelopeInv
<1>4. ASSUME NEW t \in Tasks, Abandon(t) \/ Take(t) \/ Complete(t) PROVE ServerInv'
  BY <1>4, AbandonInv, TakeInv, CompleteInv
<1>5. ASSUME NEW t \in Tasks, NEW s \in Sessions, Establish(t, s) PROVE ServerInv'
  BY <1>5, EstablishInv
<1>6. CASE Sweep
  BY <1>6, SweepInv
<1>7. CASE Tick
  BY <1>7, TickInv
<1>8. CASE UNCHANGED vars
  <2>1. UNCHANGED <<table, seen, pc, req, next_sweep, clock, drawn, received, completed>>
    BY <1>8 DEF vars, local, history
  <2> QED
    BY <2>1, TableFrame, GuardFrame DEF ServerInv, Types, TypeOK, Kept, SessionSingleUse, UndrawnUnused, Holders
<1> QED
  BY <1>1, <1>2, <1>3, <1>4, <1>5, <1>6, <1>7, <1>8 DEF Next

(***************************************************************************)
(* The results.                                                            *)
(***************************************************************************)

\* The invariant holds throughout, for any requests, envelopes and sessions.
THEOREM ServerCorrect == Spec => []ServerInv
BY InitInv, NextInv, PTL DEF Spec

\* A session is good for one COMMIT, whatever COMMITs race for it in
\* handle_commit and wherever they are dropped.
THEOREM SessionUsedOnce == Spec => []SessionSingleUse
<1>1. ServerInv => SessionSingleUse
  BY DEF ServerInv
<1> QED
  BY <1>1, ServerCorrect, PTL

\* The session table keeps to max_sessions, and an expired session is gone
\* one sweep period after its lifetime, without further requests.
THEOREM TableStaysBounded == Spec => []TableBounded
<1>1. ServerInv => TableBounded
  <2> SUFFICES ASSUME ServerInv PROVE TableBounded
    OBVIOUS
  <2>1. TypeOK /\ SessionCap
    BY DEF ServerInv, Types
  <2>2. ASSUME NEW s \in Sessions, table[s] # None
        PROVE  clock - table[s] <= SessionTtl + SweepEvery
    <3>1. s \in Kept(table)
      BY <2>2 DEF Kept
    <3>2. /\ clock \in Nat /\ next_sweep \in Nat /\ table[s] \in Nat
          /\ SessionTtl \in Nat /\ SweepEvery \in Nat
      BY <2>1, <2>2, ConstantAssumption DEF ServerInv, Types, TypeOK
    <3>3. clock <= next_sweep /\ next_sweep - table[s] <= SessionTtl + SweepEvery
      BY <3>1 DEF ServerInv, SweeperInTime
    <3> QED
      BY <3>2, <3>3
  <2> QED
    BY <2>1, <2>2 DEF TableBounded, ReclaimedInTime
<1> QED
  BY <1>1, ServerCorrect, PTL

\* For every replay window and tolerance, the default ones included: an
\* envelope passes receive_envelope at most once for each window that fits
\* into the time its timestamp is accepted, 2 * Tolerance / Window + 1 times.
THEOREM ReplaysBounded == Spec => []ReceptionBound
<1>1. ServerInv => ReceptionBound
  BY DEF ServerInv
<1> QED
  BY <1>1, ServerCorrect, PTL

\* With a window longer than twice the tolerance (with_replay_window), an
\* envelope passes once, whatever the sender's clock says.
THEOREM EnvelopeReceivedOnce ==
  ASSUME Window > 2 * Tolerance
  PROVE  Spec => []ReceivedOnce
<1>1. ServerInv => ReceivedOnce
  <2> SUFFICES ASSUME ServerInv, NEW e \in Ids, received[e] > 1 PROVE FALSE
    BY DEF ReceivedOnce, ServerInv, Types
  <2> DEFINE n == received[e] - 1
  <2>1. n \in Nat /\ n >= 1 /\ Window \in Nat /\ Tolerance \in Nat /\ received[e] > 0
    BY ConstantAssumption DEF ServerInv, Types
  <2>2. n * Window <= 2 * Tolerance
    BY <2>1 DEF ServerInv, ReceptionBound
  <2> HIDE DEF n
  <2>3. n * Window >= Window
    BY <2>1
  <2> QED
    BY <2>1, <2>2, <2>3
<1> QED
  BY <1>1, ServerCorrect, PTL

\* A session within its lifetime is dropped only by the COMMIT that takes it
\* or by evict_to_capacity, from a full table and as one of the oldest.
THEOREM DropsAreJustified == Spec => DroppedForAReason
<1> DEFINE Justified(s) ==
      table[s] # None /\ table'[s] = None /\ clock - table[s] <= SessionTtl =>
          \/ \E t \in Tasks : pc[t] = "take" /\ req[t].session = s /\ pc'[t] = "revocation"
          \/ /\ drawn' # drawn /\ Cardinality(Kept(table)) >= MaxSessions
             /\ \A k \in Kept(table') : table[s] <= table'[k]
<1>1. ServerInv /\ [Next]_vars => [\A s \in Sessions : Justified(s)]_vars
  <2> SUFFICES ASSUME ServerInv, Next, NEW s \in Sessions,
                      table[s] # None, table'[s] = None, clock - table[s] <= SessionTtl
               PROVE  \/ \E t \in Tasks : pc[t] = "take" /\ req[t].session = s /\ pc'[t] = "revocation"
                      \/ /\ drawn' # drawn /\ Cardinality(Kept(table)) >= MaxSessions
                         /\ \A k \in Kept(table') : table[s] <= table'[k]
    OBVIOUS
  <2>1. Types /\ Swept[s] = table[s]
    BY SweptFacts DEF ServerInv
  <2>2. ASSUME NEW t \in Tasks, Take(t)
        PROVE  pc[t] = "take" /\ req[t].session = s /\ pc'[t] = "revocation"
    <3>1. Swept[req[t].session] # None /\ req[t].session = s
      <4>1. table' = Swept \/ table' = [Swept EXCEPT ![req[t].session] = None]
        BY <2>2 DEF Take
      <4>2. table' # Swept
        BY <2>1
      <4>3. req[t].session = s
        BY <2>1, <4>1, <4>2 DEF Swept
      <4> QED
        BY <2>1, <4>3
    <3>2. pc' = [pc EXCEPT ![t] = "revocation"] /\ pc[t] = "take"
      BY <2>2, <3>1 DEF Take, Goto
    <3> QED
      BY <2>1, <3>1, <3>2 DEF Types, TypeOK
  <2>3. ASSUME NEW t \in Tasks, NEW s0 \in Sessions, Establish(t, s0)
        PROVE  /\ drawn' # drawn /\ Cardinality(Kept(table)) >= MaxSessions
               /\ \A k \in Kept(table') : table[s] <= table'[k]
    <3>1. PICK V \in Victims(Swept) :
             table' = [x \in Sessions |-> IF x = s0 THEN clock ELSE IF x \in V THEN None ELSE Swept[x]]
      BY <2>3 DEF Establish
    <3>2. /\ table'[s0] = clock
          /\ \A x \in Kept(table') : x # s0 => /\ x \in Kept(Swept) /\ x \notin V
                                               /\ table'[x] = table[x]
      BY <2>1, <3>1, EstablishFacts
    <3>3. s \in V /\ V \subseteq Kept(Swept)
      <4>1. clock # None
        BY <2>1, ConstantAssumption DEF Types
      <4> QED
        BY <2>1, <3>1, <4>1 DEF Victims
    <3>4. Cardinality(Kept(Swept)) >= MaxSessions
      <4>1. IsFiniteSet(V) /\ Cardinality(V) # 0
        BY <3>3, KeptFinite, FS_Subset, FS_EmptySet
      <4>2. Cardinality(V) = IF Cardinality(Kept(Swept)) < MaxSessions
                             THEN 0 ELSE Cardinality(Kept(Swept)) - (MaxSessions - 1)
        BY DEF Victims
      <4> QED
        BY <4>1, <4>2, KeptFinite, ConstantAssumption
    <3>5. Cardinality(Kept(table)) >= MaxSessions
      BY <2>1, <3>4, SweptFacts, KeptFinite, ConstantAssumption
    <3>6. ASSUME NEW k \in Kept(table') PROVE table[s] <= table'[k]
      <4>1. CASE k = s0
        <5>1. s \in Kept(table)
          BY DEF Kept
        <5> QED
          BY <3>2, <4>1, <5>1 DEF ServerInv, SweeperInTime
      <4>2. CASE k # s0
        <5>1. k \in Kept(Swept) \ V /\ table'[k] = Swept[k]
          BY <2>1, <3>2, <3>6, <4>2, SweptFacts
        <5>2. Swept[s] <= Swept[k]
          BY <3>3, <5>1 DEF Victims
        <5> QED
          BY <2>1, <5>1, <5>2
      <4> QED
        BY <4>1, <4>2
    <3>7. drawn' # drawn
      BY <2>3 DEF Establish
    <3> QED
      BY <3>5, <3>6, <3>7
  <2>4. CASE Sweep
    BY <2>1, <2>4 DEF Sweep
  <2>5. CASE UNCHANGED table
    BY <2>5
  <2> QED
    BY <2>2, <2>3, <2>4, <2>5 DEF Next, Receive, RefuseEnvelope, Abandon, Complete, Tick
<1> QED
  BY <1>1, ServerCorrect, PTL DEF Spec, DroppedForAReason
=============================================================================
