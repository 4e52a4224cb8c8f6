--------------------------- MODULE AdmissionProofs ---------------------------
(***************************************************************************)
(* The ways in of a pinned key, for any number of requests. Admission: a   *)
(* challenge admits once, a message id is not admitted twice within its    *)
(* window, and only a verified presentation spends. Enrolment at the       *)
(* interop peer, for any cap and however often keys enrol again: the       *)
(* challenges, the requests, the map of keys and its queue fit together.   *)
(***************************************************************************)
EXTENDS Admission, InteropPeer, VerifierProofs, FiniteSetTheorems

(***************************************************************************)
(* The inductive invariant.                                                *)
(***************************************************************************)
Steps == {"idle", "gate", "check", "consume", "record"}
Entry == [p : Presentations, at : Nat]

\* The tasks between Consume and Record for a challenge.
Recording(c, q, n) == {t \in Tasks : c[t] = "record" /\ q[t].nonce = n}

\* A task at work has a presentation, and a clock reading that may be old
\* but is not of the future.
Types ==
  /\ live \in [Nonces -> Ledger!Record \cup {NoRecord}]
  /\ issued \in [Nonces -> Nat] /\ clock \in Nat
  /\ denied \in [Ids -> Nat \cup {Absent}]
  /\ pc \in [Tasks -> Steps]
  /\ pres \in [Tasks -> Presentations \cup {NoRecord}]
  /\ \A t \in Tasks : pc[t] # "idle" => pres[t] \in Presentations
  /\ now \in [Tasks -> Nat] /\ \A t \in Tasks : now[t] <= clock
  /\ log \in Seq(Entry)

\* Each time a challenge was issued pays for one of: an outstanding record, a
\* request that consumed it, an admission.
Claims(n) ==
  Cardinality(Admissions(n)) + Cardinality(Recording(pc, pres, n))
    + (IF live[n] # NoRecord THEN 1 ELSE 0)
ClaimsPaid == \A n \in Nonces : Claims(n) <= issued[n]

\* An admitted id is on the deny list until its timestamp leaves the window.
WindowCovered ==
  \A j \in DOMAIN log :
     \/ clock > log[j].p.ts + Tolerance
     \/ denied[log[j].p.id] # Absent /\ denied[log[j].p.id] >= log[j].p.ts + Tolerance

\* Steps 1 to 8 lie behind whoever consumes or records.
ChecksPassed ==
  \A t \in Tasks : pc[t] \in {"consume", "record"} =>
     pres[t].valid /\ WithinTolerance(pres[t].ts, now[t])

AdmissionInv == Types /\ ClaimsPaid /\ WindowCovered /\ NoTwinInWindow /\ ChecksPassed

(***************************************************************************)
(* Counting the claims on a challenge.                                     *)
(***************************************************************************)

\* The requests that consumed a challenge are finitely many.
LEMMA RecordingFinite ==
  ASSUME NEW c, NEW q, NEW n
  PROVE  IsFiniteSet(Recording(c, q, n)) /\ Cardinality(Recording(c, q, n)) \in Nat
BY ConstantAssumption, FS_Subset, FS_CardinalityType DEF Recording

\* So are its admissions.
LEMMA AdmissionsFinite ==
  ASSUME log \in Seq(Entry), NEW n
  PROVE  IsFiniteSet(Admissions(n)) /\ Cardinality(Admissions(n)) \in Nat
<1>1. DOMAIN log = 1..Len(log) /\ Len(log) \in Nat
  BY LenProperties
<1>2. IsFiniteSet(1..Len(log))
  BY <1>1, FS_Interval
<1> QED
  BY <1>1, <1>2, FS_Subset, FS_CardinalityType DEF Admissions

\* What the log is after an admission.
LEMMA LogAppend ==
  ASSUME log \in Seq(Entry), NEW x \in Entry, log' = Append(log, x)
  PROVE  /\ log' \in Seq(Entry) /\ DOMAIN log' = DOMAIN log \cup {Len(log) + 1}
         /\ \A k \in DOMAIN log : log'[k] = log[k] /\ k < Len(log) + 1 /\ k \in Nat
         /\ log'[Len(log) + 1] = x /\ Len(log) \in Nat
<1>1. DOMAIN log = 1..Len(log) /\ Len(log) \in Nat
  BY LenProperties
<1>2. /\ log' \in Seq(Entry) /\ Len(log') = Len(log) + 1
      /\ \A k \in 1..Len(log) : log'[k] = log[k]
      /\ log'[Len(log) + 1] = x
  BY AppendProperties
<1>3. DOMAIN log' = 1..(Len(log) + 1)
  BY <1>2, LenProperties
<1> QED
  BY <1>1, <1>2, <1>3

\* An admission adds one to those of its challenge and nothing to others.
LEMMA AdmissionsPlus ==
  ASSUME log \in Seq(Entry), NEW x \in Entry, log' = Append(log, x), NEW n
  PROVE  Cardinality(Admissions(n)') = Cardinality(Admissions(n)) + (IF x.p.nonce = n THEN 1 ELSE 0)
<1> DEFINE A == Admissions(n)
           k0 == Len(log) + 1
<1>1. /\ DOMAIN log' = DOMAIN log \cup {k0} /\ log'[k0] = x /\ k0 \notin DOMAIN log
      /\ \A k \in DOMAIN log : log'[k] = log[k]
  BY LogAppend
<1>2. IsFiniteSet(A) /\ Cardinality(A) \in Nat
  BY AdmissionsFinite
<1>3. k0 \notin A
  BY <1>1 DEF Admissions
<1>4. Admissions(n)' = IF x.p.nonce = n THEN A \cup {k0} ELSE A
  BY <1>1 DEF Admissions
<1> HIDE DEF A, k0
<1>5. Cardinality(A \cup {k0}) = Cardinality(A) + 1
  BY <1>2, <1>3, FS_AddElement
<1>6. Cardinality(Admissions(n)') = Cardinality(A) + (IF x.p.nonce = n THEN 1 ELSE 0)
  BY <1>2, <1>4, <1>5
<1> QED
  BY <1>6 DEF A

\* A task that ends has recorded, or lost, what it consumed.
LEMMA FinishFacts ==
  ASSUME Types, NEW t \in Tasks, Finish(t)
  PROVE  /\ pc' \in [Tasks -> Steps] /\ pres' \in [Tasks -> Presentations \cup {NoRecord}]
         /\ now' \in [Tasks -> Nat]
         /\ pc'[t] = "idle" /\ now'[t] = 0
         /\ \A x \in Tasks : x # t => pc'[x] = pc[x] /\ pres'[x] = pres[x] /\ now'[x] = now[x]
         /\ \A n : Recording(pc', pres', n) = Recording(pc, pres, n) \ {t}
<1>1. /\ pc' \in [Tasks -> Steps] /\ pc'[t] = "idle"
      /\ \A x \in Tasks : x # t => pc'[x] = pc[x]
  BY DEF Types, Finish, Goto, Steps
<1>2. /\ pres' \in [Tasks -> Presentations \cup {NoRecord}]
      /\ now' \in [Tasks -> Nat] /\ now'[t] = 0
      /\ \A x \in Tasks : x # t => pres'[x] = pres[x] /\ now'[x] = now[x]
  BY DEF Types, Finish
<1> QED
  BY <1>1, <1>2 DEF Recording

\* A task that goes on to another step keeps its presentation and clock.
LEMMA GotoFacts ==
  ASSUME Types, NEW t \in Tasks, NEW step \in Steps, Goto(t, step)
  PROVE  /\ pc' \in [Tasks -> Steps] /\ pc'[t] = step
         /\ \A x \in Tasks : x # t => pc'[x] = pc[x]
BY DEF Types, Goto

\* Fewer requests that hold a claim cannot exceed the budget.
LEMMA RecordingMinus ==
  ASSUME NEW H, IsFiniteSet(H), NEW t
  PROVE  Cardinality(H \ {t}) = Cardinality(H) - (IF t \in H THEN 1 ELSE 0)
BY FS_RemoveElement, FS_CardinalityType

(***************************************************************************)
(* The deny list.                                                          *)
(***************************************************************************)

\* A purge at a reading of the clock drops only what has left its window.
LEMMA PurgeFacts ==
  ASSUME Types, NEW at \in Nat, at <= clock
  PROVE  /\ Purged(at) \in [Ids -> Nat \cup {Absent}]
         /\ WindowCovered =>
              \A j \in DOMAIN log :
                 \/ clock > log[j].p.ts + Tolerance
                 \/ /\ Purged(at)[log[j].p.id] # Absent
                    /\ Purged(at)[log[j].p.id] >= log[j].p.ts + Tolerance
<1>1. Purged(at) \in [Ids -> Nat \cup {Absent}]
  BY DEF Types, Purged
<1>2. ASSUME WindowCovered, NEW j \in DOMAIN log, ~(clock > log[j].p.ts + Tolerance)
      PROVE  /\ Purged(at)[log[j].p.id] # Absent
             /\ Purged(at)[log[j].p.id] >= log[j].p.ts + Tolerance
  <2>1. log[j] \in Entry
    <3>1. DOMAIN log = 1..Len(log)
      BY LenProperties DEF Types
    <3> QED
      BY <3>1, ElementOfSeq DEF Types
  <2>2. log[j].p.id \in Ids /\ log[j].p.ts \in Nat /\ Tolerance \in Nat /\ clock \in Nat /\ Absent \notin Nat
    BY <2>1, ConstantAssumption DEF Entry, Types
  <2>3. denied[log[j].p.id] # Absent /\ denied[log[j].p.id] >= log[j].p.ts + Tolerance
    BY <1>2 DEF WindowCovered
  <2>4. denied[log[j].p.id] \in Nat
    BY <2>2, <2>3 DEF Types
  <2>5. ~(denied[log[j].p.id] < at)
    BY <1>2, <2>2, <2>3, <2>4
  <2> QED
    BY <2>2, <2>3, <2>5 DEF Purged
<1> QED
  BY <1>1, <1>2

(***************************************************************************)
(* The invariant holds initially and in every step.                        *)
(***************************************************************************)

\* Nothing was issued or admitted.
LEMMA InitInv == Init => AdmissionInv
<1> SUFFICES ASSUME Init PROVE AdmissionInv
  OBVIOUS
<1>1. /\ log = << >> /\ DOMAIN log = {} /\ \A n : Admissions(n) = {} /\ Recording(pc, pres, n) = {}
  BY DEF Init, Admissions, Recording
<1>2. Types
  BY ConstantAssumption DEF Init, Ledger!LedgerInit, Types, Steps
<1>3. ClaimsPaid
  <2>1. \A n : Cardinality(Admissions(n)) = 0 /\ Cardinality(Recording(pc, pres, n)) = 0
    BY <1>1, FS_EmptySet
  <2> QED
    BY <2>1 DEF ClaimsPaid, Claims, Init, Ledger!LedgerInit
<1> QED
  BY <1>1, <1>2, <1>3 DEF AdmissionInv, WindowCovered, NoTwinInWindow, ChecksPassed, Init

\* A step that leaves the log, the deny list and the time alone keeps the
\* twins apart.
LEMMA LogFrame ==
  ASSUME AdmissionInv, UNCHANGED <<log, denied, clock>>
  PROVE  WindowCovered' /\ NoTwinInWindow' /\ \A n : Admissions(n)' = Admissions(n)
BY DEF AdmissionInv, WindowCovered, NoTwinInWindow, Admissions

\* A step of the store that adds no more records than it issues nonces.
LEMMA StoreStep ==
  ASSUME AdmissionInv, UNCHANGED <<log, pc, pres>>,
         live' \in [Nonces -> Ledger!Record \cup {NoRecord}], issued' \in [Nonces -> Nat],
         \A n \in Nonces : \/ issued'[n] = issued[n] /\ (live'[n] # NoRecord => live[n] # NoRecord)
                           \/ issued'[n] = issued[n] + 1
  PROVE  ClaimsPaid'
<1> SUFFICES ASSUME NEW n \in Nonces PROVE Claims(n)' <= issued'[n]
  BY DEF ClaimsPaid
<1>1. Cardinality(Admissions(n)) \in Nat /\ Cardinality(Recording(pc, pres, n)) \in Nat
  BY AdmissionsFinite, RecordingFinite DEF AdmissionInv, Types
<1>2. Claims(n) <= issued[n] /\ issued[n] \in Nat
  BY DEF AdmissionInv, ClaimsPaid, Types
<1>3. Admissions(n)' = Admissions(n) /\ Recording(pc, pres, n)' = Recording(pc, pres, n)
  BY DEF Admissions, Recording
<1> QED
  BY <1>1, <1>2, <1>3 DEF Claims

\* issue_challenge.
LEMMA IssueChallengeInv ==
  ASSUME AdmissionInv, NEW n0 \in Nonces, IssueChallenge(n0)
  PROVE  AdmissionInv'
<1>1. /\ live' = [live EXCEPT ![n0] = [verifier |-> Self, expires_at |-> clock + Ttl]]
      /\ issued' = [issued EXCEPT ![n0] = @ + 1]
      /\ UNCHANGED <<clock, denied, pc, pres, now, log>>
  BY DEF IssueChallenge, Ledger!LedgerIssue, taskVars
<1>2. [verifier |-> Self, expires_at |-> clock + Ttl] \in Ledger!Record
  BY ConstantAssumption DEF AdmissionInv, Types, Ledger!Record
<1>3. live' \in [Nonces -> Ledger!Record \cup {NoRecord}] /\ issued' \in [Nonces -> Nat]
  BY <1>1, <1>2 DEF AdmissionInv, Types
<1>4. Types'
  BY <1>1, <1>3 DEF AdmissionInv, Types
<1>5. \A n \in Nonces : \/ issued'[n] = issued[n] /\ (live'[n] # NoRecord => live[n] # NoRecord)
                        \/ issued'[n] = issued[n] + 1
  BY <1>1 DEF AdmissionInv, Types
<1>6. ClaimsPaid'
  BY <1>1, <1>3, <1>5, StoreStep
<1>7. ChecksPassed'
  BY <1>1 DEF AdmissionInv, ChecksPassed
<1> QED
  BY <1>1, <1>4, <1>6, <1>7, LogFrame DEF AdmissionInv

\* Expired nonces go.
LEMMA ExpireInv ==
  ASSUME AdmissionInv, NEW S \in SUBSET Nonces, Ledger!LedgerExpire(S)
  PROVE  /\ live' \in [Nonces -> Ledger!Record \cup {NoRecord}] /\ UNCHANGED <<issued, clock>>
         /\ \A n \in Nonces : live'[n] # NoRecord => live[n] # NoRecord
BY DEF AdmissionInv, Types, Ledger!LedgerExpire, Ledger!Drop

\* ExpireNonces.
LEMMA ExpireNoncesInv ==
  ASSUME AdmissionInv, ExpireNonces
  PROVE  AdmissionInv'
<1>1. UNCHANGED <<denied, pc, pres, now, log>>
  BY DEF ExpireNonces, taskVars
<1>2. PICK S \in SUBSET Nonces : Ledger!LedgerExpire(S)
  BY DEF ExpireNonces, Ledger!Outstanding
<1>3. /\ live' \in [Nonces -> Ledger!Record \cup {NoRecord}] /\ UNCHANGED <<issued, clock>>
      /\ \A n \in Nonces : live'[n] # NoRecord => live[n] # NoRecord
  BY <1>2, ExpireInv
<1>4. Types'
  BY <1>1, <1>3 DEF AdmissionInv, Types
<1>5. ClaimsPaid'
  BY <1>1, <1>3, <1>4, StoreStep DEF Types
<1>6. ChecksPassed'
  BY <1>1 DEF AdmissionInv, ChecksPassed
<1> QED
  BY <1>1, <1>3, <1>4, <1>5, <1>6, LogFrame DEF AdmissionInv

\* A step of one task that touches neither the store nor the log and does not
\* start recording keeps the claims paid.
LEMMA TaskClaims ==
  ASSUME AdmissionInv, UNCHANGED <<live, issued, log>>, NEW t,
         \A n \in Nonces : Recording(pc', pres', n) \in {Recording(pc, pres, n), Recording(pc, pres, n) \ {t}}
  PROVE  ClaimsPaid'
<1> SUFFICES ASSUME NEW n \in Nonces PROVE Claims(n)' <= issued'[n]
  BY DEF ClaimsPaid
<1>1. Cardinality(Admissions(n)) \in Nat /\ Cardinality(Recording(pc, pres, n)) \in Nat
      /\ IsFiniteSet(Recording(pc, pres, n))
  BY AdmissionsFinite, RecordingFinite DEF AdmissionInv, Types
<1>2. Claims(n) <= issued[n] /\ issued[n] \in Nat
  BY DEF AdmissionInv, ClaimsPaid, Types
<1>3. Admissions(n)' = Admissions(n)
  BY DEF Admissions
<1>4. Cardinality(Recording(pc', pres', n)) <= Cardinality(Recording(pc, pres, n))
        /\ Cardinality(Recording(pc', pres', n)) \in Nat
  BY <1>1, RecordingMinus, RecordingFinite
<1> QED
  BY <1>1, <1>2, <1>3, <1>4 DEF Claims

\* A presentation arrives.
LEMMA ArriveInv ==
  ASSUME AdmissionInv, NEW t \in Tasks, NEW p \in Presentations, Arrive(t, p)
  PROVE  AdmissionInv'
<1>1. /\ pc[t] = "idle" /\ Goto(t, "gate")
      /\ pres' = [pres EXCEPT ![t] = p] /\ now' = [now EXCEPT ![t] = clock]
      /\ UNCHANGED <<live, issued, clock, denied, log>>
  BY DEF Arrive, nonceVars
<1>2. Types /\ "gate" \in Steps
  BY DEF AdmissionInv, Steps
<1>3. /\ pc' \in [Tasks -> Steps] /\ pc'[t] = "gate"
      /\ \A x \in Tasks : x # t => pc'[x] = pc[x]
  BY <1>1, <1>2, GotoFacts
<1>4. /\ pres' \in [Tasks -> Presentations \cup {NoRecord}] /\ pres'[t] = p
      /\ now' \in [Tasks -> Nat] /\ now'[t] = clock
      /\ \A x \in Tasks : x # t => pres'[x] = pres[x] /\ now'[x] = now[x]
  BY <1>1, <1>2 DEF Types
<1>5. Types'
  BY <1>1, <1>2, <1>3, <1>4 DEF Types
<1>6. \A n : Recording(pc', pres', n) = Recording(pc, pres, n)
  BY <1>1, <1>3, <1>4 DEF Recording
<1>7. ClaimsPaid'
  BY <1>1, <1>6, TaskClaims
<1>8. ChecksPassed'
  BY <1>3, <1>4 DEF AdmissionInv, ChecksPassed
<1> QED
  BY <1>1, <1>5, <1>7, <1>8, LogFrame DEF AdmissionInv

\* A task that ends without an admission.
LEMMA EndInv ==
  ASSUME AdmissionInv, NEW t \in Tasks, Finish(t), UNCHANGED <<clock, log>>
  PROVE  /\ pc' \in [Tasks -> Steps] /\ pres' \in [Tasks -> Presentations \cup {NoRecord}]
         /\ \A x \in Tasks : pc'[x] # "idle" => pres'[x] \in Presentations
         /\ now' \in [Tasks -> Nat] /\ \A x \in Tasks : now'[x] <= clock'
         /\ ChecksPassed'
<1>1. Types /\ clock \in Nat
  BY DEF AdmissionInv, Types
<1>2. /\ pc' \in [Tasks -> Steps] /\ pres' \in [Tasks -> Presentations \cup {NoRecord}]
      /\ now' \in [Tasks -> Nat] /\ pc'[t] = "idle" /\ now'[t] = 0
      /\ \A x \in Tasks : x # t => pc'[x] = pc[x] /\ pres'[x] = pres[x] /\ now'[x] = now[x]
  BY <1>1, FinishFacts
<1>3. ChecksPassed'
  BY <1>2 DEF AdmissionInv, ChecksPassed
<1>4. \A x \in Tasks : pc'[x] # "idle" => pres'[x] \in Presentations
  BY <1>1, <1>2 DEF Types
<1>5. \A x \in Tasks : now'[x] <= clock'
  <2> SUFFICES ASSUME NEW x \in Tasks PROVE now'[x] <= clock
    OBVIOUS
  <2>1. CASE x = t
    BY <1>1, <1>2, <2>1
  <2>2. CASE x # t
    BY <1>1, <1>2, <2>2 DEF Types
  <2> QED
    BY <2>1, <2>2
<1> QED
  BY <1>2, <1>3, <1>4, <1>5

\* Step 1: the deny list is purged, and the id looked up.
LEMMA GateInv ==
  ASSUME AdmissionInv, NEW t \in Tasks, Gate(t)
  PROVE  AdmissionInv'
<1>1. /\ pc[t] = "gate" /\ denied' = Purged(now[t])
      /\ UNCHANGED <<live, issued, clock, log>>
  BY DEF Gate, nonceVars
<1>2. Types /\ now[t] \in Nat /\ now[t] <= clock
  BY DEF AdmissionInv, Types
<1>3. /\ Purged(now[t]) \in [Ids -> Nat \cup {Absent}]
      /\ \A j \in DOMAIN log :
            \/ clock > log[j].p.ts + Tolerance
            \/ /\ Purged(now[t])[log[j].p.id] # Absent
               /\ Purged(now[t])[log[j].p.id] >= log[j].p.ts + Tolerance
  BY <1>2, PurgeFacts DEF AdmissionInv
<1>4. WindowCovered' /\ NoTwinInWindow'
  BY <1>1, <1>3 DEF AdmissionInv, WindowCovered, NoTwinInWindow
<1>5. CASE Finish(t)
  <2>1. /\ pc' \in [Tasks -> Steps] /\ pres' \in [Tasks -> Presentations \cup {NoRecord}]
        /\ \A x \in Tasks : pc'[x] # "idle" => pres'[x] \in Presentations
        /\ now' \in [Tasks -> Nat] /\ \A x \in Tasks : now'[x] <= clock'
        /\ ChecksPassed'
    BY <1>1, <1>5, EndInv
  <2>2. Types'
    BY <1>1, <1>2, <1>3, <2>1 DEF Types
  <2>3. ClaimsPaid'
    BY <1>1, <1>2, <1>5, FinishFacts, TaskClaims
  <2> QED
    BY <1>4, <2>1, <2>2, <2>3 DEF AdmissionInv
<1>6. CASE Goto(t, "check") /\ UNCHANGED <<pres, now>>
  <2>1. /\ pc' \in [Tasks -> Steps] /\ pc'[t] = "check"
        /\ \A x \in Tasks : x # t => pc'[x] = pc[x]
    BY <1>2, <1>6, GotoFacts DEF Steps
  <2>2. Types'
    BY <1>1, <1>2, <1>3, <1>6, <2>1 DEF Types
  <2>3. \A n : Recording(pc', pres', n) = Recording(pc, pres, n)
    BY <1>1, <1>6, <2>1 DEF Recording
  <2>4. ClaimsPaid'
    BY <1>1, <2>3, TaskClaims
  <2>5. ChecksPassed'
    BY <1>6, <2>1 DEF AdmissionInv, ChecksPassed
  <2> QED
    BY <1>4, <2>2, <2>4, <2>5 DEF AdmissionInv
<1> QED
  BY <1>5, <1>6 DEF Gate

\* Steps 2 to 8.
LEMMA CheckInv ==
  ASSUME AdmissionInv, NEW t \in Tasks, Check(t)
  PROVE  AdmissionInv'
<1>1. /\ pc[t] = "check" /\ UNCHANGED <<live, issued, clock, denied, log>>
  BY DEF Check, nonceVars
<1>2. Types
  BY DEF AdmissionInv
<1>3. CASE Finish(t)
  <2>1. /\ pc' \in [Tasks -> Steps] /\ pres' \in [Tasks -> Presentations \cup {NoRecord}]
        /\ \A x \in Tasks : pc'[x] # "idle" => pres'[x] \in Presentations
        /\ now' \in [Tasks -> Nat] /\ \A x \in Tasks : now'[x] <= clock'
        /\ ChecksPassed'
    BY <1>1, <1>3, EndInv
  <2>2. Types'
    BY <1>1, <1>2, <2>1 DEF Types
  <2>3. ClaimsPaid'
    BY <1>1, <1>2, <1>3, FinishFacts, TaskClaims
  <2> QED
    BY <1>1, <2>1, <2>2, <2>3, LogFrame DEF AdmissionInv
<1>4. CASE /\ WithinTolerance(pres[t].ts, now[t]) /\ pres[t].valid
           /\ Goto(t, "consume") /\ UNCHANGED <<pres, now>>
  <2>1. /\ pc' \in [Tasks -> Steps] /\ pc'[t] = "consume"
        /\ \A x \in Tasks : x # t => pc'[x] = pc[x]
    BY <1>2, <1>4, GotoFacts DEF Steps
  <2>2. Types'
    BY <1>1, <1>2, <1>4, <2>1 DEF Types
  <2>3. \A n : Recording(pc', pres', n) = Recording(pc, pres, n)
    BY <1>1, <1>4, <2>1 DEF Recording
  <2>4. ClaimsPaid'
    BY <1>1, <2>3, TaskClaims
  <2>5. ChecksPassed'
    BY <1>4, <2>1 DEF AdmissionInv, ChecksPassed
  <2> QED
    BY <1>1, <2>2, <2>4, <2>5, LogFrame DEF AdmissionInv
<1> QED
  BY <1>3, <1>4 DEF Check

\* Step 9: an outstanding record becomes a request that may record.
LEMMA ConsumeInv ==
  ASSUME AdmissionInv, NEW t \in Tasks, Consume(t)
  PROVE  AdmissionInv'
<1> DEFINE n0 == pres[t].nonce
<1>1. pc[t] = "consume" /\ UNCHANGED <<denied, log>>
  BY DEF Consume
<1>2. Types /\ pres[t] \in Presentations
  BY <1>1 DEF AdmissionInv, Types
<1>3. n0 \in Nonces
  BY <1>2, ConstantAssumption
<1> HIDE DEF n0
<1>4. CASE /\ Finish(t)
           /\ UNCHANGED nonceVars \/ Ledger!Lapse(n0, Self, now[t])
  <2>1. /\ live' \in [Nonces -> Ledger!Record \cup {NoRecord}] /\ UNCHANGED <<issued, clock>>
        /\ \A n \in Nonces : live'[n] # NoRecord => live[n] # NoRecord
    <3>1. CASE UNCHANGED nonceVars
      BY <1>2, <3>1 DEF nonceVars, Types
    <3>2. CASE Ledger!Lapse(n0, Self, now[t])
      BY <1>2, <1>3, <3>2 DEF Ledger!Lapse, Types
    <3> QED
      BY <1>4, <3>1, <3>2
  <2>2. /\ pc' \in [Tasks -> Steps] /\ pres' \in [Tasks -> Presentations \cup {NoRecord}]
        /\ \A x \in Tasks : pc'[x] # "idle" => pres'[x] \in Presentations
        /\ now' \in [Tasks -> Nat] /\ \A x \in Tasks : now'[x] <= clock'
        /\ ChecksPassed'
    BY <1>1, <1>4, <2>1, EndInv
  <2>3. Types'
    BY <1>1, <1>2, <2>1, <2>2 DEF Types
  <2>4. ClaimsPaid'
    <3> SUFFICES ASSUME NEW n \in Nonces PROVE Claims(n)' <= issued'[n]
      BY DEF ClaimsPaid
    <3>1. Recording(pc', pres', n) = Recording(pc, pres, n) \ {t}
      BY <1>2, <1>4, FinishFacts
    <3>2. Recording(pc', pres', n) = Recording(pc, pres, n)
      BY <1>1, <3>1 DEF Recording
    <3>3. Cardinality(Admissions(n)) \in Nat /\ Cardinality(Recording(pc, pres, n)) \in Nat
      BY AdmissionsFinite, RecordingFinite DEF AdmissionInv, Types
    <3>4. Claims(n) <= issued[n] /\ issued[n] \in Nat
      BY DEF AdmissionInv, ClaimsPaid, Types
    <3>5. Admissions(n)' = Admissions(n)
      BY <1>1 DEF Admissions
    <3> QED
      BY <2>1, <3>2, <3>3, <3>4, <3>5 DEF Claims
  <2> QED
    BY <1>1, <2>1, <2>2, <2>3, <2>4, LogFrame DEF AdmissionInv
<1>5. CASE Goto(t, "record") /\ Ledger!Spend(n0, Self, now[t]) /\ UNCHANGED <<pres, now>>
  <2>1. /\ live[n0] # NoRecord /\ live' = [live EXCEPT ![n0] = NoRecord]
        /\ UNCHANGED <<issued, clock>>
    BY <1>5 DEF Ledger!Spend, Ledger!OutstandingFor
  <2>2. /\ live' \in [Nonces -> Ledger!Record \cup {NoRecord}] /\ live'[n0] = NoRecord
        /\ \A n \in Nonces : n # n0 => live'[n] = live[n]
    BY <1>2, <1>3, <2>1 DEF Types
  <2>3. /\ pc' \in [Tasks -> Steps] /\ pc'[t] = "record"
        /\ \A x \in Tasks : x # t => pc'[x] = pc[x]
    BY <1>2, <1>5, GotoFacts DEF Steps
  <2>4. Types'
    BY <1>1, <1>2, <1>5, <2>1, <2>2, <2>3 DEF Types
  <2>5. ChecksPassed'
    BY <1>1, <1>5, <2>3 DEF AdmissionInv, ChecksPassed
  <2>6. ClaimsPaid'
    <3> SUFFICES ASSUME NEW n \in Nonces PROVE Claims(n)' <= issued'[n]
      BY DEF ClaimsPaid
    <3>1. /\ Cardinality(Admissions(n)) \in Nat /\ Cardinality(Recording(pc, pres, n)) \in Nat
          /\ IsFiniteSet(Recording(pc, pres, n))
      BY AdmissionsFinite, RecordingFinite DEF AdmissionInv, Types
    <3>2. Claims(n) <= issued[n] /\ issued[n] \in Nat
      BY DEF AdmissionInv, ClaimsPaid, Types
    <3>3. Admissions(n)' = Admissions(n)
      BY <1>1 DEF Admissions
    <3>4. CASE n = n0
      <4>1. /\ Recording(pc', pres', n) = Recording(pc, pres, n) \cup {t}
            /\ t \notin Recording(pc, pres, n)
        BY <1>1, <1>5, <2>3, <3>4 DEF Recording, n0
      <4>2. Cardinality(Recording(pc', pres', n)) = Cardinality(Recording(pc, pres, n)) + 1
        BY <3>1, <4>1, FS_AddElement
      <4> QED
        BY <2>1, <2>2, <3>1, <3>2, <3>3, <3>4, <4>2 DEF Claims
    <3>5. CASE n # n0
      <4>1. Recording(pc', pres', n) = Recording(pc, pres, n)
        BY <1>1, <1>5, <2>3, <3>5 DEF Recording, n0
      <4> QED
        BY <2>1, <2>2, <3>1, <3>2, <3>3, <3>5, <4>1 DEF Claims
    <3> QED
      BY <3>4, <3>5
  <2> QED
    BY <1>1, <2>1, <2>4, <2>5, <2>6, LogFrame DEF AdmissionInv
<1> QED
  BY <1>4, <1>5 DEF Consume, n0

\* Step 10: an admission. A twin admitted before has left its window, or its
\* record would have been found.
LEMMA AdmitInv ==
  ASSUME AdmissionInv, NEW t \in Tasks, pc[t] = "record", Finish(t),
         Purged(now[t])[pres[t].id] = Absent,
         denied' = [Purged(now[t]) EXCEPT ![pres[t].id] = pres[t].ts + Tolerance],
         log' = Append(log, [p |-> pres[t], at |-> clock]), UNCHANGED nonceVars
  PROVE  AdmissionInv'
<1> DEFINE x0 == [p |-> pres[t], at |-> clock]
           k0 == Len(log) + 1
           i0 == pres[t].id
           until == pres[t].ts + Tolerance
<1>1. Types /\ pres[t] \in Presentations /\ now[t] \in Nat /\ now[t] <= clock /\ clock \in Nat
  BY DEF AdmissionInv, Types
<1>2. /\ i0 \in Ids /\ until \in Nat /\ Absent \notin Nat /\ Tolerance \in Nat /\ pres[t].ts \in Nat
      /\ pres[t].nonce \in Nonces
  BY <1>1, ConstantAssumption
<1>3. x0 \in Entry /\ x0.p = pres[t] /\ x0.at = clock
  BY <1>1 DEF Entry
<1>u. UNCHANGED <<live, issued, clock>>
  BY DEF nonceVars
<1>d. denied' = [Purged(now[t]) EXCEPT ![i0] = until] /\ Purged(now[t])[i0] = Absent
  OBVIOUS
<1>l. log' = Append(log, x0)
  OBVIOUS
<1> HIDE DEF x0, i0, until
<1>4. /\ log' \in Seq(Entry) /\ DOMAIN log' = DOMAIN log \cup {k0}
      /\ \A k \in DOMAIN log : log'[k] = log[k] /\ k < k0 /\ k \in Nat
      /\ log'[k0] = x0 /\ k0 \in Nat
  BY <1>1, <1>3, <1>l, LogAppend DEF Types
<1> HIDE DEF k0
<1>5. /\ Purged(now[t]) \in [Ids -> Nat \cup {Absent}]
      /\ \A j \in DOMAIN log :
            \/ clock > log[j].p.ts + Tolerance
            \/ /\ Purged(now[t])[log[j].p.id] # Absent
               /\ Purged(now[t])[log[j].p.id] >= log[j].p.ts + Tolerance
  BY <1>1, PurgeFacts DEF AdmissionInv
<1>6. /\ denied' \in [Ids -> Nat \cup {Absent}] /\ denied'[i0] = until
      /\ \A i \in Ids : i # i0 => denied'[i] = Purged(now[t])[i]
  BY <1>2, <1>5, <1>d
<1>7. \A j \in DOMAIN log : log[j].p.id = i0 => clock > log[j].p.ts + Tolerance
  BY <1>5, <1>d
<1>8. Types'
  <2>1. /\ pc' \in [Tasks -> Steps] /\ pres' \in [Tasks -> Presentations \cup {NoRecord}]
        /\ now' \in [Tasks -> Nat] /\ pc'[t] = "idle" /\ now'[t] = 0
        /\ \A x \in Tasks : x # t => pc'[x] = pc[x] /\ pres'[x] = pres[x] /\ now'[x] = now[x]
    BY <1>1, FinishFacts
  <2>2. \A x \in Tasks : pc'[x] # "idle" => pres'[x] \in Presentations
    BY <1>1, <2>1 DEF Types
  <2>3. \A x \in Tasks : now'[x] <= clock
    BY <1>1, <2>1 DEF Types
  <2> QED
    BY <1>1, <1>4, <1>6, <1>u, <2>1, <2>2, <2>3 DEF Types
<1>9. WindowCovered'
  <2> SUFFICES ASSUME NEW j \in DOMAIN log'
               PROVE  \/ clock > log'[j].p.ts + Tolerance
                      \/ denied'[log'[j].p.id] # Absent /\ denied'[log'[j].p.id] >= log'[j].p.ts + Tolerance
    BY <1>u DEF WindowCovered
  <2>1. CASE j = k0
    <3>1. log'[j].p = pres[t]
      BY <1>3, <1>4, <2>1
    <3>2. denied'[log'[j].p.id] = until /\ until # Absent /\ until = log'[j].p.ts + Tolerance
      BY <1>2, <1>6, <3>1 DEF i0, until
    <3> QED
      BY <1>2, <3>2
  <2>2. CASE j \in DOMAIN log
    <3>1. log'[j] = log[j]
      BY <1>4, <2>2
    <3>2. CASE log[j].p.id = i0
      BY <1>7, <2>2, <3>1, <3>2
    <3>3. CASE log[j].p.id # i0
      <4>1. log[j].p.id \in Ids
        <5>1. log[j] \in Entry
          BY <1>1, <2>2, LenProperties, ElementOfSeq DEF Types
        <5> QED
          BY <5>1, ConstantAssumption DEF Entry
      <4> QED
        BY <1>5, <1>6, <2>2, <3>1, <3>3, <4>1
    <3> QED
      BY <3>2, <3>3
  <2> QED
    BY <1>4, <2>1, <2>2
<1>10. NoTwinInWindow'
  <2> SUFFICES ASSUME NEW j \in DOMAIN log', NEW k \in DOMAIN log', j < k, log'[j].p.id = log'[k].p.id
               PROVE  log'[k].at > log'[j].p.ts + Tolerance
    BY DEF NoTwinInWindow
  <2>1. j \in DOMAIN log
    BY <1>4
  <2>2. CASE k = k0
    <3>1. log'[j] = log[j] /\ log'[k].at = clock /\ log'[k].p.id = i0
      BY <1>3, <1>4, <2>1, <2>2 DEF i0
    <3> QED
      BY <1>7, <2>1, <3>1
  <2>3. CASE k \in DOMAIN log
    BY <1>4, <2>1, <2>3 DEF AdmissionInv, NoTwinInWindow
  <2> QED
    BY <1>4, <2>2, <2>3
<1>11. ChecksPassed'
  <2>1. /\ pc'[t] = "idle"
        /\ \A x \in Tasks : x # t => pc'[x] = pc[x] /\ pres'[x] = pres[x] /\ now'[x] = now[x]
    BY <1>1, FinishFacts
  <2> QED
    BY <2>1 DEF AdmissionInv, ChecksPassed
<1>12. ClaimsPaid'
  <2> SUFFICES ASSUME NEW n \in Nonces PROVE Claims(n)' <= issued'[n]
    BY DEF ClaimsPaid
  <2>1. /\ Cardinality(Admissions(n)) \in Nat /\ Cardinality(Recording(pc, pres, n)) \in Nat
        /\ IsFiniteSet(Recording(pc, pres, n)) /\ Cardinality(Recording(pc', pres', n)) \in Nat
    BY <1>1, AdmissionsFinite, RecordingFinite DEF Types
  <2>2. Claims(n) <= issued[n] /\ issued[n] \in Nat
    BY DEF AdmissionInv, ClaimsPaid, Types
  <2>3. Cardinality(Admissions(n)') = Cardinality(Admissions(n)) + (IF pres[t].nonce = n THEN 1 ELSE 0)
    BY <1>1, <1>3, <1>l, AdmissionsPlus DEF Types
  <2>4. Recording(pc', pres', n) = Recording(pc, pres, n) \ {t}
    BY <1>1, FinishFacts
  <2>5. t \in Recording(pc, pres, n) <=> pres[t].nonce = n
    BY DEF Recording
  <2>6. Cardinality(Recording(pc', pres', n))
          = Cardinality(Recording(pc, pres, n)) - (IF pres[t].nonce = n THEN 1 ELSE 0)
    BY <2>1, <2>4, <2>5, RecordingMinus
  <2> QED
    BY <1>u, <2>1, <2>2, <2>3, <2>6 DEF Claims
<1> QED
  BY <1>8, <1>9, <1>10, <1>11, <1>12 DEF AdmissionInv

\* A twin's record, or a full list: the challenge is spent and nothing is
\* admitted.
LEMMA RefuseRecordInv ==
  ASSUME AdmissionInv, NEW t \in Tasks, Finish(t), denied' = Purged(now[t]),
         UNCHANGED log, UNCHANGED nonceVars
  PROVE  AdmissionInv'
<1>1. Types /\ now[t] \in Nat /\ now[t] <= clock /\ UNCHANGED <<live, issued, clock, log>>
  BY DEF AdmissionInv, Types, nonceVars
<1>2. /\ Purged(now[t]) \in [Ids -> Nat \cup {Absent}]
      /\ \A j \in DOMAIN log :
            \/ clock > log[j].p.ts + Tolerance
            \/ /\ Purged(now[t])[log[j].p.id] # Absent
               /\ Purged(now[t])[log[j].p.id] >= log[j].p.ts + Tolerance
  BY <1>1, PurgeFacts DEF AdmissionInv
<1>3. WindowCovered' /\ NoTwinInWindow'
  BY <1>1, <1>2 DEF AdmissionInv, WindowCovered, NoTwinInWindow
<1>4. /\ pc' \in [Tasks -> Steps] /\ pres' \in [Tasks -> Presentations \cup {NoRecord}]
      /\ \A x \in Tasks : pc'[x] # "idle" => pres'[x] \in Presentations
      /\ now' \in [Tasks -> Nat] /\ \A x \in Tasks : now'[x] <= clock'
      /\ ChecksPassed'
  BY <1>1, EndInv
<1>5. Types'
  BY <1>1, <1>2, <1>4 DEF Types
<1>6. ClaimsPaid'
  BY <1>1, FinishFacts, TaskClaims
<1> QED
  BY <1>3, <1>4, <1>5, <1>6 DEF AdmissionInv

\* The deny-list insertion.
LEMMA RecordInv ==
  ASSUME AdmissionInv, NEW t \in Tasks, Record(t)
  PROVE  AdmissionInv'
<1>1. pc[t] = "record" /\ Finish(t) /\ UNCHANGED nonceVars
  BY DEF Record, RecordUntil
<1>2. CASE /\ Purged(now[t])[pres[t].id] = Absent
           /\ denied' = [Purged(now[t]) EXCEPT ![pres[t].id] = pres[t].ts + Tolerance]
           /\ log' = Append(log, [p |-> pres[t], at |-> clock])
  BY <1>1, <1>2, AdmitInv
<1>3. CASE denied' = Purged(now[t]) /\ UNCHANGED log
  BY <1>1, <1>3, RefuseRecordInv
<1> QED
  BY <1>2, <1>3 DEF Record, RecordUntil

\* Time goes on; a reading of it stays as it was.
LEMMA TickInv ==
  ASSUME AdmissionInv, Tick
  PROVE  AdmissionInv'
<1>1. clock' = clock + 1 /\ UNCHANGED <<live, issued, denied, pc, pres, now, log>>
  BY DEF Tick, Ledger!LedgerTick, taskVars
<1>2. Types /\ clock \in Nat /\ \A t \in Tasks : now[t] \in Nat /\ now[t] <= clock
  BY DEF AdmissionInv, Types
<1>3. Types'
  BY <1>1, <1>2 DEF Types
<1>4. ClaimsPaid' /\ NoTwinInWindow' /\ ChecksPassed'
  BY <1>1 DEF AdmissionInv, ClaimsPaid, Claims, Admissions, Recording, NoTwinInWindow, ChecksPassed
<1>5. WindowCovered'
  <2> SUFFICES ASSUME NEW j \in DOMAIN log
               PROVE  \/ clock + 1 > log[j].p.ts + Tolerance
                      \/ denied[log[j].p.id] # Absent /\ denied[log[j].p.id] >= log[j].p.ts + Tolerance
    BY <1>1 DEF WindowCovered
  <2>1. log[j] \in Entry
    BY <1>2, LenProperties, ElementOfSeq DEF Types
  <2>2. log[j].p.ts \in Nat /\ Tolerance \in Nat
    BY <2>1, ConstantAssumption DEF Entry
  <2> QED
    BY <1>2, <2>2 DEF AdmissionInv, WindowCovered
<1> QED
  BY <1>3, <1>4, <1>5 DEF AdmissionInv

\* Every step keeps the invariant.
LEMMA NextInv == AdmissionInv /\ [Next]_vars => AdmissionInv'
<1> SUFFICES ASSUME AdmissionInv, [Next]_vars PROVE AdmissionInv'
  OBVIOUS
<1>1. ASSUME NEW n \in Nonces, IssueChallenge(n) PROVE AdmissionInv'
  BY <1>1, IssueChallengeInv
<1>2. CASE ExpireNonces
  BY <1>2, ExpireNoncesInv
<1>3. ASSUME NEW t \in Tasks, NEW p \in Presentations, Arrive(t, p) PROVE AdmissionInv'
  BY <1>3, ArriveInv
<1>4. ASSUME NEW t \in Tasks, Gate(t) \/ Check(t) \/ Consume(t) \/ Record(t) PROVE AdmissionInv'
  BY <1>4, GateInv, CheckInv, ConsumeInv, RecordInv
<1>5. CASE Tick
  BY <1>5, TickInv
<1>6. CASE UNCHANGED vars
  <2>1. UNCHANGED <<live, issued, clock, denied, pc, pres, now, log>>
    BY <1>6 DEF vars, nonceVars, taskVars
  <2>2. Types' /\ ClaimsPaid' /\ ChecksPassed'
    BY <2>1 DEF AdmissionInv, Types, ClaimsPaid, Claims, Admissions, Recording, ChecksPassed
  <2> QED
    BY <2>1, <2>2, LogFrame DEF AdmissionInv
<1> QED
  BY <1>1, <1>2, <1>3, <1>4, <1>5, <1>6 DEF Next

(***************************************************************************)
(* The results.                                                            *)
(***************************************************************************)

\* The invariant holds throughout, for any tasks, challenges, presentations.
THEOREM AdmissionCorrect == Spec => []AdmissionInv
BY InitInv, NextInv, PTL DEF Spec

\* The atomic consume of step 9 admits at most one presentation per challenge,
\* however many race for it and wherever they are overtaken.
THEOREM ChallengeAdmitsOnce == Spec => []OneAdmissionPerChallenge
<1>1. AdmissionInv => OneAdmissionPerChallenge
  <2> SUFFICES ASSUME AdmissionInv, NEW n \in Nonces
               PROVE  Cardinality(Admissions(n)) + Cardinality(Recording(pc, pres, n)) <= issued[n]
    BY DEF OneAdmissionPerChallenge, Recording
  <2>1. Cardinality(Admissions(n)) \in Nat /\ Cardinality(Recording(pc, pres, n)) \in Nat
    BY AdmissionsFinite, RecordingFinite DEF AdmissionInv, Types
  <2>2. Claims(n) <= issued[n] /\ issued[n] \in Nat
    BY DEF AdmissionInv, ClaimsPaid, Types
  <2> QED
    BY <2>1, <2>2 DEF Claims
<1> QED
  BY <1>1, AdmissionCorrect, PTL

\* A message id is not admitted again while its first timestamp is within
\* tolerance: the deny-list record outlives the window although requests use
\* old readings of the clock to purge it.
THEOREM NoTwinAdmitted == Spec => []NoTwinInWindow
<1>1. AdmissionInv => NoTwinInWindow
  BY DEF AdmissionInv
<1> QED
  BY <1>1, AdmissionCorrect, PTL

\* Only a presentation that passed steps 1 to 8 spends a challenge.
THEOREM VerifiedSpends == Spec => SpentOnlyByVerified
<1> DEFINE Verified(n) ==
      \E t \in Tasks : /\ pc[t] = "consume" /\ pres[t].nonce = n
                       /\ pres[t].valid
                       /\ WithinTolerance(pres[t].ts, now[t])
<1>1. AdmissionInv /\ [Next]_vars => [\A n \in Nonces : consumed'[n] # consumed[n] => Verified(n)]_vars
  <2> SUFFICES ASSUME AdmissionInv, Next, NEW n \in Nonces, consumed'[n] # consumed[n]
               PROVE  Verified(n)
    OBVIOUS
  <2>1. consumed' # consumed
    OBVIOUS
  <2>2. PICK t \in Tasks : Consume(t)
    BY <2>1 DEF Next, IssueChallenge, ExpireNonces, Arrive, Gate, Check, Record, RecordUntil, Tick, nonceVars,
                Ledger!LedgerIssue, Ledger!LedgerExpire, Ledger!Drop, Ledger!LedgerTick
  <2>3. Ledger!Spend(pres[t].nonce, Self, now[t]) /\ pc[t] = "consume"
    BY <2>1, <2>2 DEF Consume, nonceVars, Ledger!Lapse
  <2>4. pres[t].nonce = n
    BY <2>3 DEF Ledger!Spend
  <2> QED
    BY <2>3, <2>4 DEF AdmissionInv, ChecksPassed
<1> QED
  BY <1>1, AdmissionCorrect, PTL DEF Spec, SpentOnlyByVerified

(***************************************************************************)
(* Enrolment: the inductive invariant.                                     *)
(***************************************************************************)
Places == [aid : Holders, expires_at : Nat]
Rows == [aid : Holders, nonce : Nat, expires_at : Nat]
KeyMaps == [Holders -> Nat \cup {None}]

\* Of the enrolments s made since b: those of a key, the last of them (0:
\* none), and whether one was made twice with the same expiry.
MineOf(s, b, a) == {k \in DOMAIN s : k > b /\ s[k].aid = a}
Last(s, b, a) ==
  IF MineOf(s, b, a) = {} THEN 0
  ELSE CHOOSE k \in MineOf(s, b, a) : \A l \in MineOf(s, b, a) : l <= k
Twice(s, b) ==
  \E k, l \in DOMAIN s : b < k /\ k < l /\ s[k].aid = s[l].aid /\ s[k].expires_at = s[l].expires_at

\* Each entry of the queue is of an enrolment, and they are in its order.
QueueOf(q, s, b) ==
  \E at \in [DOMAIN q -> {k \in DOMAIN s : k > b}] :
     /\ \A i, j \in DOMAIN q : i < j => at[i] < at[j]
     /\ \A i \in DOMAIN q : q[i].aid = s[at[i]].aid /\ q[i].expires_at = s[at[i]].expires_at

GoesFirst(ks, s, b, t) ==
  \A a, c \in Holders :
     ks[a] # None /\ Last(s, b, c) > Last(s, b, a) /\ s[Last(s, b, c)].expires_at >= t => ks[c] # None

\* What the map and the queue have to do with each other and with the
\* enrolments made: a key has the expiry of its last enrolment and is in the
\* queue with it, wherever the two were pruned.
QueueFits(ks, q, s, b, t) ==
  /\ ks \in KeyMaps /\ q \in Seq(Places) /\ s \in Seq(Rows) /\ b \in 0..Len(s) /\ t \in Nat
  /\ IsFiniteSet(Enrolled(ks)) /\ Cardinality(Enrolled(ks)) <= Cap
  /\ \A a \in Enrolled(ks) : \E k \in DOMAIN q : q[k].aid = a /\ q[k].expires_at = ks[a]
  /\ \A a \in Enrolled(ks) : Last(s, b, a) # 0 /\ ks[a] = s[Last(s, b, a)].expires_at
  /\ QueueOf(q, s, b)
  /\ Twice(s, b) \/ (GoesFirst(ks, s, b, t) /\ Len(q) <= 2 * Cap)

\* g says which places of q are left in r.
Thins(g, r, q) ==
  /\ g \in [DOMAIN r -> DOMAIN q]
  /\ \A i, j \in DOMAIN r : i < j => g[i] < g[j]
  /\ \A i \in DOMAIN r : r[i] = q[g[i]]

(***************************************************************************)
(* Enrolment: the map and its queue.                                       *)
(***************************************************************************)

\* EnrolledKeys::new: the cap is one at least.
LEMMA CapPositive == Cap \in Nat /\ Cap >= 1
BY InteropAssumption DEF Cap

\* A set of natural numbers up to some number has a least one and a last one.
LEMMA Extremes ==
  ASSUME NEW n \in Nat, NEW K \in SUBSET (1..n), K # {}
  PROVE  /\ \E k \in K : \A l \in K : k <= l
         /\ \E k \in K : \A l \in K : l <= k
<1>1. \E k \in K : \A l \in K : k <= l
  <2>1. K \in SUBSET Nat
    OBVIOUS
  <2>2. PICK k \in K : \A l \in K : <<l, k>> \notin OpToRel(<, Nat)
    BY <2>1, NatLessThanWellFounded, WFMin
  <2>3. \A l \in K : ~(l < k)
    BY <2>1, <2>2 DEF OpToRel
  <2> QED
    BY <2>1, <2>3
<1>2. \E k \in K : \A l \in K : l <= k
  <2> DEFINE B == {u \in Nat : \A l \in K : l <= u}
  <2>1. B \in SUBSET Nat /\ n \in B
    OBVIOUS
  <2> HIDE DEF B
  <2>2. PICK u \in B : \A l \in B : <<l, u>> \notin OpToRel(<, Nat)
    BY <2>1, NatLessThanWellFounded, WFMin
  <2>3. \A l \in B : ~(l < u)
    BY <2>1, <2>2 DEF OpToRel
  <2>4. u \in Nat /\ \A l \in K : l <= u
    BY DEF B
  <2>5. ASSUME u \notin K PROVE FALSE
    <3>1. \A l \in K : l <= u - 1 /\ u - 1 \in Nat
      BY <2>4, <2>5
    <3>2. u - 1 \in B
      BY <3>1 DEF B
    <3> QED
      BY <2>3, <2>4, <3>2
  <2> QED
    BY <2>4, <2>5
<1> QED
  BY <1>1, <1>2

\* Last is the last of the enrolments of a key since b, if there is one.
LEMMA LastMeans ==
  ASSUME NEW s \in Seq(Rows), NEW b \in Nat, NEW a
  PROVE  \/ MineOf(s, b, a) = {} /\ Last(s, b, a) = 0
         \/ Last(s, b, a) \in MineOf(s, b, a) /\ \A l \in MineOf(s, b, a) : l <= Last(s, b, a)
<1>1. MineOf(s, b, a) \in SUBSET (1..Len(s)) /\ Len(s) \in Nat
  BY DEF MineOf
<1>2. MineOf(s, b, a) # {} => \E k \in MineOf(s, b, a) : \A l \in MineOf(s, b, a) : l <= k
  BY <1>1, Extremes
<1> QED
  BY <1>2 DEF Last

\* Another enrolment is its key's last, and no other key's.
LastMoves(s, b, row, s2) ==
  /\ s2 \in Seq(Rows) /\ Len(s2) = Len(s) + 1 /\ s2[Len(s) + 1] = row
  /\ \A k \in DOMAIN s : s2[k] = s[k]
  /\ Last(s2, b, row.aid) = Len(s) + 1
  /\ \A a \in Holders \ {row.aid} : Last(s2, b, a) = Last(s, b, a)

\* So it is when an enrolment is appended to those made.
LEMMA LastAfter ==
  ASSUME NEW s \in Seq(Rows), NEW b \in 0..Len(s), NEW row \in Rows
  PROVE  LastMoves(s, b, row, Append(s, row))
<1> DEFINE s2 == Append(s, row)
<1>1. /\ s2 \in Seq(Rows) /\ Len(s2) = Len(s) + 1 /\ s2[Len(s) + 1] = row
      /\ \A k \in 1..Len(s) : s2[k] = s[k]
      /\ Len(s) \in Nat /\ b \in Nat /\ DOMAIN s = 1..Len(s) /\ DOMAIN s2 = 1..(Len(s) + 1)
  OBVIOUS
<1> HIDE DEF s2
<1>2. Len(s) + 1 \in MineOf(s2, b, row.aid) /\ MineOf(s2, b, row.aid) \subseteq 1..(Len(s) + 1)
  BY <1>1 DEF MineOf
<1>3. Last(s2, b, row.aid) = Len(s) + 1
  <2>1. /\ Last(s2, b, row.aid) \in MineOf(s2, b, row.aid)
        /\ \A l \in MineOf(s2, b, row.aid) : l <= Last(s2, b, row.aid)
    <3>1. PICK c : c = row.aid
      OBVIOUS
    <3>2. MineOf(s2, b, c) # {}
      BY <1>2, <3>1
    <3>3. Last(s2, b, c) \in MineOf(s2, b, c) /\ \A l \in MineOf(s2, b, c) : l <= Last(s2, b, c)
      BY <1>1, <3>2, LastMeans
    <3> QED
      BY <3>1, <3>3
  <2> QED
    BY <1>1, <1>2, <2>1
<1>4. ASSUME NEW a \in Holders \ {row.aid} PROVE Last(s2, b, a) = Last(s, b, a)
  <2>1. MineOf(s2, b, a) = MineOf(s, b, a)
    BY <1>1 DEF MineOf
  <2> QED
    BY <2>1 DEF Last
<1>5. LastMoves(s, b, row, s2)
  BY <1>1, <1>3, <1>4 DEF LastMoves
<1> QED
  BY <1>5 DEF s2

\* What is left of a queue keeps its order.
LEMMA ThinQueue ==
  ASSUME NEW q, NEW s, NEW b, NEW r, NEW g, QueueOf(q, s, b), Thins(g, r, q)
  PROVE  QueueOf(r, s, b)
<1>1. PICK at \in [DOMAIN q -> {k \in DOMAIN s : k > b}] :
        /\ \A i, j \in DOMAIN q : i < j => at[i] < at[j]
        /\ \A i \in DOMAIN q : q[i].aid = s[at[i]].aid /\ q[i].expires_at = s[at[i]].expires_at
  BY DEF QueueOf
<1>2. PICK left : left = [i \in DOMAIN r |-> at[g[i]]]
  OBVIOUS
<1>3. left \in [DOMAIN r -> {k \in DOMAIN s : k > b}]
  BY <1>1, <1>2 DEF Thins
<1>4. \A i, j \in DOMAIN r : i < j => left[i] < left[j]
  BY <1>1, <1>2 DEF Thins
<1>5. \A i \in DOMAIN r : r[i].aid = s[left[i]].aid /\ r[i].expires_at = s[left[i]].expires_at
  BY <1>1, <1>2 DEF Thins
<1> QED
  BY <1>3, <1>4, <1>5 DEF QueueOf

\* What Compact counts of each place: the ones up to it.
Ranks(K) == [k \in K |-> Cardinality({l \in K : l <= k})]

\* Places are counted by what lies before them.
LEMMA Ranked ==
  ASSUME NEW n \in Nat, NEW K \in SUBSET (1..n), NEW f, f = Ranks(K)
  PROVE  /\ IsFiniteSet(K) /\ Cardinality(K) \in Nat
         /\ f \in [K -> 1..Cardinality(K)]
         /\ \A i, j \in K : i < j => f[i] < f[j]
         /\ f \in Surjection(K, 1..Cardinality(K))
<1> DEFINE S(k) == {l \in K : l <= k}
<1>1. IsFiniteSet(K) /\ Cardinality(K) \in Nat
  <2>1. IsFiniteSet(1..n)
    BY FS_Interval
  <2> QED
    BY <2>1, FS_Subset, FS_CardinalityType
<1>2. \A k \in K : S(k) \in SUBSET K /\ k \in S(k)
  OBVIOUS
<1>3. \A k \in K : IsFiniteSet(S(k)) /\ Cardinality(S(k)) \in Nat /\ Cardinality(S(k)) <= Cardinality(K)
  BY <1>1, <1>2, FS_Subset, FS_CardinalityType
<1>4. \A k \in K : Cardinality(S(k)) # 0
  BY <1>2, <1>3, FS_EmptySet
<1>5. \A k \in K : f[k] = Cardinality(S(k))
  BY DEF Ranks
<1>6. f \in [K -> 1..Cardinality(K)]
  <2>1. ASSUME NEW k \in K PROVE f[k] \in 1..Cardinality(K)
    <3>1. PICK c : c = Cardinality(S(k))
      OBVIOUS
    <3>2. c \in Nat /\ c <= Cardinality(K) /\ c # 0 /\ f[k] = c
      BY <1>3, <1>4, <1>5, <3>1
    <3> QED
      BY <1>1, <3>2
  <2> QED
    BY <2>1 DEF Ranks
<1>7. ASSUME NEW i \in K, NEW j \in K, i < j PROVE f[i] < f[j]
  <2>1. S(i) \in SUBSET S(j) /\ j \notin S(i) /\ j \in S(j)
    <3>1. i \in Nat /\ j \in Nat /\ K \subseteq Nat
      OBVIOUS
    <3>2. \A l \in K : l <= i => l <= j
      BY <1>7, <3>1
    <3>3. ~(j <= i) /\ j <= j
      BY <1>7, <3>1
    <3> QED
      BY <3>2, <3>3
  <2>2. Cardinality(S(i)) <= Cardinality(S(j)) /\ Cardinality(S(i)) # Cardinality(S(j))
    <3> HIDE DEF S
    <3> QED
      BY <1>3, <2>1, FS_Subset
  <2> QED
    BY <1>3, <1>5, <2>2
<1>8. f \in Injection(K, 1..Cardinality(K))
  <2>1. \A i, j \in K : f[i] = f[j] => i = j
    BY <1>6, <1>7
  <2> QED
    BY <1>6, <2>1 DEF Injection, IsInjective
<1>9. IsFiniteSet(1..Cardinality(K)) /\ Cardinality(1..Cardinality(K)) = Cardinality(K)
  BY <1>1, FS_Interval
<1>10. f \in Surjection(K, 1..Cardinality(K))
  BY <1>8, <1>9, FS_Injection
<1> QED
  BY <1>1, <1>6, <1>7, <1>10

\* Two enrolments of a key with the same expiry are one.
LEMMA OnePlace ==
  ASSUME NEW s \in Seq(Rows), NEW b \in Nat, ~Twice(s, b), NEW k \in DOMAIN s, NEW l \in DOMAIN s,
         k > b, l > b, s[k].aid = s[l].aid, s[k].expires_at = s[l].expires_at
  PROVE  k = l
BY DEF Twice

\* What Evict leaves: no more keys than the cap, and the places of all that
\* are left; the key that goes is that of the first current entry.
EvictLeaves(ks, q, e) ==
  /\ e.keys \in KeyMaps /\ e.order \in Seq(Places)
  /\ IsFiniteSet(Enrolled(e.keys)) /\ Cardinality(Enrolled(e.keys)) <= Cap
  /\ \E g : /\ Thins(g, e.order, q)
            /\ \A k \in DOMAIN q : Current(e.keys, q[k]) => \E i \in DOMAIN e.order : g[i] = k
  /\ \/ e.keys = ks
     \/ \E p \in DOMAIN q :
           /\ Current(ks, q[p]) /\ \A l \in DOMAIN q : Current(ks, q[l]) => p <= l
           /\ e.keys = [ks EXCEPT ![q[p].aid] = None]

\* Evict leaves that, on a map with one key too many at most.
LEMMA EvictMeans ==
  ASSUME NEW ks \in KeyMaps, NEW q \in Seq(Places),
         IsFiniteSet(Enrolled(ks)), Cardinality(Enrolled(ks)) <= Cap + 1,
         \A a \in Enrolled(ks) : \E k \in DOMAIN q : q[k].aid = a /\ q[k].expires_at = ks[a],
         NEW e, e = Evict(ks, q)
  PROVE  EvictLeaves(ks, q, e)
<1>1. /\ Len(q) \in Nat /\ DOMAIN q = 1..Len(q) /\ \A k \in DOMAIN q : q[k] \in Places
      /\ Cardinality(Enrolled(ks)) \in Nat
  BY FS_CardinalityType
<1>2. CASE Cardinality(Enrolled(ks)) <= Cap
  <2>1. e.keys = ks /\ e.order = q
    BY <1>2 DEF Evict
  <2>2. PICK g : g = [k \in DOMAIN q |-> k]
    OBVIOUS
  <2>3. Thins(g, e.order, q) /\ \A k \in DOMAIN q : g[k] = k
    BY <2>1, <2>2 DEF Thins
  <2> QED
    BY <1>2, <2>1, <2>3 DEF EvictLeaves
<1>3. CASE ~(Cardinality(Enrolled(ks)) <= Cap)
  <2>1. PICK current : current = {k \in DOMAIN q : Current(ks, q[k])}
    OBVIOUS
  <2>2. current # {}
    <3>1. Enrolled(ks) # {}
      BY <1>1, <1>3, CapPositive, FS_EmptySet
    <3>2. PICK a \in Enrolled(ks) : TRUE
      BY <3>1
    <3>3. PICK k \in DOMAIN q : q[k].aid = a /\ q[k].expires_at = ks[a]
      BY <3>2
    <3>4. Current(ks, q[k])
      BY <3>3 DEF Current
    <3> QED
      BY <2>1, <3>4
  <2>3. PICK p : p = CHOOSE k \in current : \A l \in current : k <= l
    OBVIOUS
  <2>4. current \in SUBSET (1..Len(q))
    BY <1>1, <2>1
  <2>5. p \in current /\ \A l \in current : p <= l
    BY <1>1, <2>2, <2>3, <2>4, Extremes
  <2>6. PICK d : d = q[p].aid
    OBVIOUS
  <2>7. e.keys = [ks EXCEPT ![d] = None] /\ e.order = SubSeq(q, p + 1, Len(q))
    BY <1>3, <2>1, <2>2, <2>3, <2>6 DEF Evict
  <2>8. p \in 1..Len(q) /\ Current(ks, q[p]) /\ \A l \in DOMAIN q : Current(ks, q[l]) => p <= l
    BY <1>1, <2>1, <2>5
  <2>9. d \in Holders /\ ks[d] \in Nat /\ ks[d] # None /\ None \notin Nat
    <3>1. q[p] \in Places
      BY <1>1, <2>8
    <3>2. d \in Holders /\ q[p].expires_at \in Nat
      BY <2>6, <3>1 DEF Places
    <3> QED
      BY <2>6, <2>8, <3>2, TokenAssumption DEF Current
  <2>10. e.keys \in KeyMaps /\ \A a \in Holders : e.keys[a] = IF a = d THEN None ELSE ks[a]
    BY <2>7, <2>9 DEF KeyMaps
  <2>11. Enrolled(e.keys) = Enrolled(ks) \ {d} /\ d \in Enrolled(ks)
    BY <2>9, <2>10 DEF Enrolled
  <2>12. IsFiniteSet(Enrolled(e.keys)) /\ Cardinality(Enrolled(e.keys)) = Cardinality(Enrolled(ks)) - 1
    BY <2>11, FS_RemoveElement
  <2>13. Cardinality(Enrolled(e.keys)) <= Cap
    BY <1>1, <2>12, CapPositive
  <2>14. PICK r : r = e.order
    OBVIOUS
  <2>15. /\ r \in Seq(Places) /\ Len(r) = Len(q) - p /\ DOMAIN r = 1..(Len(q) - p)
         /\ \A i \in 1..(Len(q) - p) : r[i] = q[p + i]
    <3>1. r = SubSeq(q, p + 1, Len(q)) /\ p + 1 \in 1..(Len(q) + 1) /\ Len(q) \in Nat
      BY <1>1, <2>7, <2>8, <2>14
    <3>2. /\ r \in Seq(Places) /\ Len(r) = (IF p + 1 <= Len(q) THEN Len(q) - (p + 1) + 1 ELSE 0)
          /\ \A i \in 1..(Len(q) - (p + 1) + 1) : r[i] = q[p + 1 + i - 1]
      BY <1>1, <2>8, <3>1, SubSeqProperties
    <3>3. Len(r) = Len(q) - p
      <4>1. PICK n \in Nat : n = Len(q)
        BY <1>1
      <4>2. p \in 1..n /\ Len(r) = IF p + 1 <= n THEN n - (p + 1) + 1 ELSE 0
        BY <2>8, <3>2, <4>1
      <4>3. Len(r) = n - p
        BY <4>2
      <4> QED
        BY <4>1, <4>3
    <3>4. ASSUME NEW i \in 1..(Len(q) - p) PROVE r[i] = q[p + i]
      <4>1. /\ i \in Nat /\ p \in Nat /\ p + 1 + i - 1 = p + i
            /\ Len(q) - (p + 1) + 1 = Len(q) - p
        BY <1>1, <2>8
      <4>2. i \in 1..(Len(q) - (p + 1) + 1)
        BY <4>1
      <4> QED
        BY <3>2, <4>1, <4>2
    <3> QED
      BY <3>2, <3>3, <3>4
  <2>16. PICK g : g = [i \in DOMAIN r |-> p + i]
    OBVIOUS
  <2>17. Thins(g, r, q)
    BY <1>1, <2>8, <2>15, <2>16 DEF Thins
  <2>18. ASSUME NEW k \in DOMAIN q, Current(e.keys, q[k]) PROVE \E i \in DOMAIN r : g[i] = k
    <3>1. q[k].aid \in Holders /\ q[k].expires_at \in Nat
      BY <1>1 DEF Places
    <3>2. q[k].aid # d /\ Current(ks, q[k])
      BY <2>9, <2>10, <2>18, <3>1 DEF Current
    <3>3. p <= k /\ p # k
      BY <2>6, <2>8, <3>2
    <3>4. k - p \in DOMAIN r /\ p + (k - p) = k
      BY <1>1, <2>8, <2>15, <3>3
    <3> QED
      BY <2>16, <3>4
  <2>19. \E x \in DOMAIN q :
           /\ Current(ks, q[x]) /\ \A l \in DOMAIN q : Current(ks, q[l]) => x <= l
           /\ e.keys = [ks EXCEPT ![q[x].aid] = None]
    BY <1>1, <2>6, <2>7, <2>8
  <2>20. \E h : /\ Thins(h, e.order, q)
                /\ \A k \in DOMAIN q : Current(e.keys, q[k]) => \E i \in DOMAIN e.order : h[i] = k
    BY <2>14, <2>17, <2>18
  <2>21. e.order \in Seq(Places)
    BY <2>14, <2>15
  <2> QED
    BY <2>10, <2>12, <2>13, <2>19, <2>20, <2>21 DEF EvictLeaves
<1> QED
  BY <1>2, <1>3

\* What Compact leaves: the current entries in their order.
CompactLeaves(ks, q, r) ==
  /\ r \in Seq(Places)
  /\ \E g : /\ Thins(g, r, q)
            /\ \A k \in DOMAIN q : Current(ks, q[k]) => \E i \in DOMAIN r : g[i] = k
  /\ Len(r) <= 2 * Cap \/ Len(r) = Cardinality({k \in DOMAIN q : Current(ks, q[k])})

\* Compact leaves that, of any queue.
LEMMA CompactMeans ==
  ASSUME NEW ks \in KeyMaps, NEW q \in Seq(Places), NEW r, r = Compact(ks, q)
  PROVE  CompactLeaves(ks, q, r)
<1>1. Len(q) \in Nat /\ DOMAIN q = 1..Len(q) /\ \A k \in DOMAIN q : q[k] \in Places
  OBVIOUS
<1>2. CASE ~(Len(q) > 2 * Cap)
  <2>1. r = q
    BY <1>2 DEF Compact
  <2>2. PICK g : g = [k \in DOMAIN q |-> k]
    OBVIOUS
  <2>3. Thins(g, r, q) /\ \A k \in DOMAIN q : g[k] = k
    BY <2>1, <2>2 DEF Thins
  <2>4. Len(r) <= 2 * Cap
    BY <1>1, <1>2, <2>1, CapPositive
  <2> QED
    BY <2>1, <2>3, <2>4 DEF CompactLeaves
<1>3. CASE Len(q) > 2 * Cap
  <2>1. PICK kept : kept = {k \in DOMAIN q : Current(ks, q[k])}
    OBVIOUS
  <2>2. PICK f : f = Ranks(kept)
    OBVIOUS
  <2>3. kept \in SUBSET (1..Len(q))
    BY <1>1, <2>1
  <2>4. /\ Cardinality(kept) \in Nat /\ f \in [kept -> 1..Cardinality(kept)]
        /\ \A i, j \in kept : i < j => f[i] < f[j]
        /\ \A m \in 1..Cardinality(kept) : \E k \in kept : f[k] = m
    <3>1. PICK n \in Nat : n = Len(q)
      BY <1>1
    <3>2. kept \in SUBSET (1..n)
      BY <2>3, <3>1
    <3>3. Cardinality(kept) \in Nat /\ f \in [kept -> 1..Cardinality(kept)]
      BY <2>2, <3>2, Ranked
    <3>4. \A i, j \in kept : i < j => f[i] < f[j]
      BY <2>2, <3>2, Ranked
    <3>5. f \in Surjection(kept, 1..Cardinality(kept))
      BY <2>2, <3>2, Ranked
    <3>6. \A m \in 1..Cardinality(kept) : \E k \in kept : f[k] = m
      BY <3>5 DEF Surjection
    <3> QED
      BY <3>3, <3>4, <3>6
  <2>5. PICK g : g = [n \in 1..Cardinality(kept) |->
                       CHOOSE k \in kept : Cardinality({l \in kept : l <= k}) = n]
    OBVIOUS
  <2>6. \A n \in 1..Cardinality(kept) : g[n] \in kept /\ f[g[n]] = n
    <3> SUFFICES ASSUME NEW n \in 1..Cardinality(kept) PROVE g[n] \in kept /\ f[g[n]] = n
      OBVIOUS
    <3>1. \A k \in kept : f[k] = Cardinality({l \in kept : l <= k})
      BY <2>2 DEF Ranks
    <3>2. \E k \in kept : Cardinality({l \in kept : l <= k}) = n
      BY <2>4, <3>1
    <3>3. g[n] = CHOOSE k \in kept : Cardinality({l \in kept : l <= k}) = n
      BY <2>5
    <3>4. g[n] \in kept /\ Cardinality({l \in kept : l <= g[n]}) = n
      BY <3>2, <3>3
    <3> QED
      BY <3>1, <3>4
  <2>7. r = [n \in 1..Cardinality(kept) |-> q[g[n]]]
    BY <1>3, <2>1, <2>5 DEF Compact
  <2>8. /\ DOMAIN r = 1..Cardinality(kept)
        /\ \A n \in 1..Cardinality(kept) : r[n] = q[g[n]] /\ r[n] \in Places
    BY <1>1, <2>3, <2>6, <2>7
  <2>9. r \in Seq(Places) /\ Len(r) = Cardinality(kept)
    BY <2>4, <2>7, <2>8
  <2>10. \A i, j \in kept : f[i] < f[j] => i < j
    <3> SUFFICES ASSUME NEW i \in kept, NEW j \in kept, f[i] < f[j] PROVE i < j
      OBVIOUS
    <3>1. i \in Nat /\ j \in Nat /\ f[i] \in Nat /\ f[j] \in Nat
      BY <2>3, <2>4
    <3>2. ~(j < i) /\ i # j
      BY <2>4, <3>1
    <3> QED
      BY <3>1, <3>2
  <2>11. Thins(g, r, q)
    <3>1. g \in [DOMAIN r -> DOMAIN q]
      BY <1>1, <2>3, <2>5, <2>6, <2>8
    <3>2. \A i, j \in DOMAIN r : i < j => g[i] < g[j]
      BY <2>6, <2>8, <2>10
    <3> QED
      BY <2>8, <3>1, <3>2 DEF Thins
  <2>12. ASSUME NEW k \in kept PROVE \E i \in DOMAIN r : g[i] = k
    <3>1. f[k] \in DOMAIN r /\ g[f[k]] \in kept /\ f[g[f[k]]] = f[k]
      BY <2>4, <2>6, <2>8
    <3>2. PICK x \in kept : x = g[f[k]]
      BY <3>1
    <3>3. x \in Nat /\ k \in Nat /\ f[x] \in Nat /\ f[x] = f[k]
      BY <2>3, <2>4, <3>1, <3>2
    <3>4. ~(x < k) /\ ~(k < x)
      BY <2>4, <3>3
    <3>5. g[f[k]] = k
      BY <3>2, <3>3, <3>4
    <3> QED
      BY <3>1, <3>5
  <2> QED
    BY <2>1, <2>9, <2>11, <2>12 DEF CompactLeaves
<1> QED
  BY <1>2, <1>3

\* Compaction alone bounds the queue: unless a key was enrolled twice with one
\* expiry, there is one current entry for each key in the map.
LEMMA CurrentFew ==
  ASSUME NEW ks \in KeyMaps, NEW q \in Seq(Places), NEW s \in Seq(Rows), NEW b \in Nat,
         IsFiniteSet(Enrolled(ks)), Cardinality(Enrolled(ks)) <= Cap, QueueOf(q, s, b), ~Twice(s, b)
  PROVE  Cardinality({k \in DOMAIN q : Current(ks, q[k])}) <= 2 * Cap
<1>1. PICK kept : kept = {k \in DOMAIN q : Current(ks, q[k])}
  OBVIOUS
<1>2. PICK f : f = [k \in kept |-> q[k].aid]
  OBVIOUS
<1>3. PICK at \in [DOMAIN q -> {k \in DOMAIN s : k > b}] :
        /\ \A i, j \in DOMAIN q : i < j => at[i] < at[j]
        /\ \A i \in DOMAIN q : q[i].aid = s[at[i]].aid /\ q[i].expires_at = s[at[i]].expires_at
  BY DEF QueueOf
<1>4. DOMAIN q = 1..Len(q) /\ Len(q) \in Nat /\ DOMAIN s = 1..Len(s) /\ Len(s) \in Nat
  OBVIOUS
<1>5. ASSUME NEW k \in kept PROVE f[k] \in Enrolled(ks) /\ f[k] = q[k].aid /\ k \in DOMAIN q
                                  /\ q[k].expires_at = ks[f[k]]
  <2>1. k \in DOMAIN q /\ q[k] \in Places /\ Current(ks, q[k]) /\ f[k] = q[k].aid
    BY <1>1, <1>2
  <2>2. q[k].aid \in Holders /\ q[k].expires_at \in Nat /\ ks[q[k].aid] = q[k].expires_at
    BY <2>1 DEF Places, Current
  <2>3. ks[q[k].aid] # None
    BY <2>2, TokenAssumption
  <2> QED
    BY <2>1, <2>2, <2>3 DEF Enrolled
<1>6. ASSUME NEW i \in kept, NEW j \in kept, f[i] = f[j] PROVE i = j
  <2>1. i \in DOMAIN q /\ j \in DOMAIN q /\ q[i].aid = q[j].aid /\ q[i].expires_at = q[j].expires_at
    BY <1>5, <1>6
  <2>2. PICK x, y : x = at[i] /\ y = at[j]
    OBVIOUS
  <2>3. /\ x \in DOMAIN s /\ x > b /\ y \in DOMAIN s /\ y > b
        /\ s[x].aid = s[y].aid /\ s[x].expires_at = s[y].expires_at
    BY <1>3, <2>1, <2>2
  <2>4. x = y /\ x \in Nat
    BY <1>4, <2>3, OnePlace
  <2>5. ~(i < j) /\ ~(j < i)
    <3>1. (i < j => x < y) /\ (j < i => y < x)
      BY <1>3, <2>1, <2>2
    <3> QED
      BY <2>4, <3>1
  <2> QED
    BY <1>4, <2>1, <2>5
<1>7. f \in Injection(kept, Enrolled(ks))
  <2>1. f \in [kept -> Enrolled(ks)]
    BY <1>2, <1>5
  <2> QED
    BY <1>6, <2>1 DEF Injection, IsInjective
<1>8. Cardinality(kept) <= Cardinality(Enrolled(ks)) /\ IsFiniteSet(kept)
  BY <1>7, FS_Injection
<1>9. Cardinality(kept) \in Nat /\ Cardinality(Enrolled(ks)) \in Nat
  BY <1>8, FS_CardinalityType
<1> QED
  BY <1>1, <1>8, <1>9, CapPositive

\* Insert, before anything is pruned.
PutAtEnd(ks, q, s, c, m, x, ks0, q0, s2) ==
  /\ ks0 = [ks EXCEPT ![c] = x]
  /\ q0 = Append(q, [aid |-> c, expires_at |-> x])
  /\ s2 = Append(s, [aid |-> c, nonce |-> m, expires_at |-> x])
PutLeaves(b, t, ks0, q0, s2) ==
  /\ ks0 \in KeyMaps /\ q0 \in Seq(Places) /\ s2 \in Seq(Rows) /\ b \in 0..Len(s2)
  /\ IsFiniteSet(Enrolled(ks0)) /\ Cardinality(Enrolled(ks0)) <= Cap + 1
  /\ \A a \in Enrolled(ks0) : \E k \in DOMAIN q0 : q0[k].aid = a /\ q0[k].expires_at = ks0[a]
  /\ \A a \in Enrolled(ks0) : Last(s2, b, a) # 0 /\ ks0[a] = s2[Last(s2, b, a)].expires_at
  /\ QueueOf(q0, s2, b)
  /\ Twice(s2, b) \/ GoesFirst(ks0, s2, b, t)

\* The map, the queue and the enrolments made, each with one more.
LEMMA PutFits ==
  ASSUME NEW ks, NEW q, NEW s, NEW b, NEW t, QueueFits(ks, q, s, b, t),
         NEW c \in Holders, NEW m \in Nat, NEW x \in Nat,
         NEW ks0, NEW q0, NEW s2, PutAtEnd(ks, q, s, c, m, x, ks0, q0, s2)
  PROVE  PutLeaves(b, t, ks0, q0, s2)
<1>1. /\ ks \in KeyMaps /\ q \in Seq(Places) /\ s \in Seq(Rows) /\ b \in 0..Len(s) /\ t \in Nat
      /\ IsFiniteSet(Enrolled(ks)) /\ Cardinality(Enrolled(ks)) <= Cap
  BY DEF QueueFits
<1>2. PICK row, place : row = [aid |-> c, nonce |-> m, expires_at |-> x]
                        /\ place = [aid |-> c, expires_at |-> x]
  OBVIOUS
<1>3. row \in Rows /\ row.aid = c /\ row.expires_at = x /\ place \in Places /\ place.aid = c
      /\ place.expires_at = x
  BY <1>2 DEF Rows, Places
<1>4. /\ s2 \in Seq(Rows) /\ Len(s2) = Len(s) + 1 /\ s2[Len(s) + 1] = row
      /\ \A k \in DOMAIN s : s2[k] = s[k]
      /\ Last(s2, b, c) = Len(s) + 1
      /\ \A a \in Holders \ {c} : Last(s2, b, a) = Last(s, b, a)
  <2>1. s2 = Append(s, row)
    BY <1>2 DEF PutAtEnd
  <2>2. LastMoves(s, b, row, Append(s, row))
    BY <1>1, <1>3, LastAfter
  <2>3. LastMoves(s, b, row, s2)
    BY <2>1, <2>2
  <2> QED
    BY <1>3, <2>3 DEF LastMoves
<1>5. /\ Len(s) \in Nat /\ DOMAIN s = 1..Len(s) /\ DOMAIN s2 = 1..(Len(s) + 1) /\ b \in Nat /\ b <= Len(s)
      /\ Len(q) \in Nat /\ DOMAIN q = 1..Len(q)
  BY <1>1, <1>4
<1>6. /\ q0 \in Seq(Places) /\ DOMAIN q0 = 1..(Len(q) + 1) /\ q0[Len(q) + 1] = place
      /\ \A k \in DOMAIN q : q0[k] = q[k]
  <2>1. q0 = Append(q, place)
    BY <1>2 DEF PutAtEnd
  <2> QED
    BY <1>1, <1>3, <2>1
<1>7. /\ ks0 \in KeyMaps /\ ks0[c] = x /\ x # None
      /\ \A a \in Holders \ {c} : ks0[a] = ks[a]
  BY <1>1, TokenAssumption DEF KeyMaps, PutAtEnd
<1>8. Enrolled(ks0) = Enrolled(ks) \cup {c} /\ Enrolled(ks) \subseteq Holders
  BY <1>7 DEF Enrolled
<1>9. IsFiniteSet(Enrolled(ks0)) /\ Cardinality(Enrolled(ks0)) <= Cap + 1
  <2>1. Cardinality(Enrolled(ks)) \in Nat
    BY <1>1, FS_CardinalityType
  <2>2. /\ IsFiniteSet(Enrolled(ks0))
        /\ Cardinality(Enrolled(ks0)) =
             IF c \in Enrolled(ks) THEN Cardinality(Enrolled(ks)) ELSE Cardinality(Enrolled(ks)) + 1
    <3>1. PICK S : S = Enrolled(ks)
      OBVIOUS
    <3>2. IsFiniteSet(S \cup {c}) /\ Cardinality(S \cup {c}) = IF c \in S THEN Cardinality(S) ELSE Cardinality(S) + 1
      BY <1>1, <3>1, FS_AddElement
    <3> QED
      BY <1>8, <3>1, <3>2
  <2> QED
    BY <1>1, <2>1, <2>2, CapPositive
<1>10. ASSUME NEW a \in Enrolled(ks0)
       PROVE  \E k \in DOMAIN q0 : q0[k].aid = a /\ q0[k].expires_at = ks0[a]
  <2>1. CASE a = c
    <3>1. Len(q) + 1 \in DOMAIN q0 /\ q0[Len(q) + 1].aid = c /\ q0[Len(q) + 1].expires_at = ks0[c]
      BY <1>3, <1>5, <1>6, <1>7
    <3> QED
      BY <2>1, <3>1
  <2>2. CASE a # c
    <3>1. a \in Enrolled(ks) /\ ks0[a] = ks[a]
      BY <1>7, <1>8, <2>2
    <3>2. PICK k \in DOMAIN q : q[k].aid = a /\ q[k].expires_at = ks[a]
      BY <3>1 DEF QueueFits
    <3>3. k \in DOMAIN q0 /\ q0[k] = q[k]
      BY <1>5, <1>6
    <3> QED
      BY <3>1, <3>2, <3>3
  <2> QED
    BY <2>1, <2>2
<1>11. ASSUME NEW a \in Enrolled(ks0)
       PROVE  Last(s2, b, a) # 0 /\ ks0[a] = s2[Last(s2, b, a)].expires_at
  <2>1. CASE a = c
    BY <1>3, <1>4, <1>5, <1>7, <2>1
  <2>2. CASE a # c
    <3>1. a \in Enrolled(ks) /\ a \in Holders \ {c} /\ ks0[a] = ks[a]
      BY <1>7, <1>8, <2>2
    <3>2. PICK l : l = Last(s, b, a)
      OBVIOUS
    <3>3. l # 0 /\ ks[a] = s[l].expires_at
      BY <3>1, <3>2 DEF QueueFits
    <3>4. l \in DOMAIN s
      BY <1>1, <1>5, <3>2, <3>3, LastMeans DEF MineOf
    <3> QED
      BY <1>4, <3>1, <3>2, <3>3, <3>4
  <2> QED
    BY <2>1, <2>2
<1>12. QueueOf(q0, s2, b)
  <2>1. PICK at \in [DOMAIN q -> {k \in DOMAIN s : k > b}] :
          /\ \A i, j \in DOMAIN q : i < j => at[i] < at[j]
          /\ \A i \in DOMAIN q : q[i].aid = s[at[i]].aid /\ q[i].expires_at = s[at[i]].expires_at
    BY DEF QueueFits, QueueOf
  <2>2. PICK n \in Nat : n = Len(q)
    BY <1>5
  <2>3. PICK w \in Nat : w = Len(s) + 1
    BY <1>5
  <2>4. PICK at0 : at0 = [i \in 1..(n + 1) |-> IF i = n + 1 THEN w ELSE at[i]]
    OBVIOUS
  <2>5. \A i \in 1..n : i \in DOMAIN q /\ at0[i] = at[i] /\ at[i] \in DOMAIN s /\ at[i] > b /\ at[i] < w
                        /\ at[i] \in Nat
    BY <1>5, <2>1, <2>2, <2>3, <2>4
  <2>6. at0[n + 1] = w /\ w \in DOMAIN s2 /\ w > b
    BY <1>5, <2>3, <2>4
  <2>7. \A i \in DOMAIN q0 : i \in 1..n \/ i = n + 1
    BY <1>6, <2>2
  <2>8. at0 \in [DOMAIN q0 -> {k \in DOMAIN s2 : k > b}]
    <3>1. DOMAIN s \subseteq DOMAIN s2 /\ DOMAIN q0 = 1..(n + 1)
      BY <1>5, <1>6, <2>2
    <3>2. \A i \in DOMAIN q0 : at0[i] \in {k \in DOMAIN s2 : k > b}
      BY <2>5, <2>6, <2>7, <3>1
    <3> QED
      BY <2>4, <3>1, <3>2
  <2>9. ASSUME NEW i \in DOMAIN q0, NEW j \in DOMAIN q0, i < j PROVE at0[i] < at0[j]
    <3>1. i \in 1..n
      BY <1>6, <2>2, <2>9
    <3>2. CASE j \in 1..n
      BY <2>1, <2>5, <2>9, <3>1, <3>2
    <3>3. CASE j = n + 1
      BY <2>5, <2>6, <3>1, <3>3
    <3> QED
      BY <2>7, <3>2, <3>3
  <2>10. ASSUME NEW i \in DOMAIN q0
         PROVE  q0[i].aid = s2[at0[i]].aid /\ q0[i].expires_at = s2[at0[i]].expires_at
    <3>1. CASE i \in 1..n
      <4>1. i \in DOMAIN q /\ at0[i] = at[i] /\ q0[i] = q[i] /\ s2[at[i]] = s[at[i]]
        BY <1>4, <1>6, <2>5, <3>1
      <4> QED
        BY <2>1, <4>1
    <3>2. CASE i = n + 1
      BY <1>3, <1>4, <1>6, <2>2, <2>3, <2>6, <3>2
    <3> QED
      BY <2>7, <3>1, <3>2
  <2> QED
    BY <2>8, <2>9, <2>10 DEF QueueOf
<1>13. ASSUME ~Twice(s2, b) PROVE GoesFirst(ks0, s2, b, t)
  <2>1. ~Twice(s, b)
    <3> SUFFICES ASSUME NEW k \in DOMAIN s, NEW l \in DOMAIN s, b < k, k < l, s[k].aid = s[l].aid,
                        s[k].expires_at = s[l].expires_at
                 PROVE  FALSE
      BY DEF Twice
    <3>1. k \in DOMAIN s2 /\ l \in DOMAIN s2 /\ s2[k] = s[k] /\ s2[l] = s[l]
      BY <1>4, <1>5
    <3> QED
      BY <1>13, <3>1 DEF Twice
  <2>2. GoesFirst(ks, s, b, t)
    BY <2>1 DEF QueueFits
  <2> SUFFICES ASSUME NEW a \in Holders, NEW d \in Holders, ks0[a] # None, ks0[d] = None,
                      Last(s2, b, d) > Last(s2, b, a), s2[Last(s2, b, d)].expires_at >= t
               PROVE  FALSE
    BY DEF GoesFirst
  <2>3. d # c
    BY <1>7
  <2>4. PICK l : l = Last(s, b, d)
    OBVIOUS
  <2>5. Last(s2, b, d) = l /\ l \in 0..Len(s)
    BY <1>1, <1>4, <1>5, <2>3, <2>4, LastMeans DEF MineOf
  <2>6. a # c
    BY <1>4, <1>5, <2>5
  <2>7. ks[a] # None /\ ks[d] = None /\ Last(s2, b, a) = Last(s, b, a) /\ l > Last(s, b, a)
    BY <1>4, <1>7, <2>3, <2>5, <2>6
  <2>8. Last(s, b, a) \in Nat
    <3>1. MineOf(s, b, a) \subseteq Nat
      BY <1>5 DEF MineOf
    <3> QED
      BY <1>1, <1>5, <3>1, LastMeans
  <2>9. l \in DOMAIN s
    BY <1>5, <2>5, <2>7, <2>8
  <2>10. s[l].expires_at >= t
    BY <1>4, <2>5, <2>9
  <2> QED
    BY <2>2, <2>4, <2>7, <2>10 DEF GoesFirst
<1>14. b \in 0..Len(s2)
  BY <1>4, <1>5
<1> QED
  BY <1>4, <1>6, <1>7, <1>9, <1>10, <1>11, <1>12, <1>13, <1>14 DEF PutLeaves

\* EnrolledKeys::insert.
LEMMA InsertFits ==
  ASSUME NEW ks, NEW q, NEW s, NEW b, NEW t, QueueFits(ks, q, s, b, t),
         NEW c \in Holders, NEW m \in Nat, NEW x \in Nat,
         NEW ks0, NEW q0, NEW s2, PutAtEnd(ks, q, s, c, m, x, ks0, q0, s2),
         NEW e, e = Evict(ks0, q0)
  PROVE  QueueFits(e.keys, Compact(e.keys, e.order), s2, b, t)
<1>1. PutLeaves(b, t, ks0, q0, s2)
  BY PutFits
<1>2. /\ ks0 \in KeyMaps /\ q0 \in Seq(Places) /\ s2 \in Seq(Rows) /\ b \in 0..Len(s2)
      /\ IsFiniteSet(Enrolled(ks0)) /\ Cardinality(Enrolled(ks0)) <= Cap + 1
  BY <1>1 DEF PutLeaves
<1>3. \A a \in Enrolled(ks0) : \E k \in DOMAIN q0 : q0[k].aid = a /\ q0[k].expires_at = ks0[a]
  BY <1>1 DEF PutLeaves
<1>4. \A a \in Enrolled(ks0) : Last(s2, b, a) # 0 /\ ks0[a] = s2[Last(s2, b, a)].expires_at
  BY <1>1 DEF PutLeaves
<1>5. QueueOf(q0, s2, b) /\ (Twice(s2, b) \/ GoesFirst(ks0, s2, b, t))
  BY <1>1 DEF PutLeaves
<1>6. EvictLeaves(ks0, q0, e)
  BY <1>2, <1>3, EvictMeans
<1>7. /\ e.keys \in KeyMaps /\ e.order \in Seq(Places)
      /\ IsFiniteSet(Enrolled(e.keys)) /\ Cardinality(Enrolled(e.keys)) <= Cap
  BY <1>6 DEF EvictLeaves
<1>8. PICK g : /\ Thins(g, e.order, q0)
               /\ \A k \in DOMAIN q0 : Current(e.keys, q0[k]) => \E i \in DOMAIN e.order : g[i] = k
  BY <1>6 DEF EvictLeaves
<1>9. \/ e.keys = ks0
      \/ \E p \in DOMAIN q0 :
            /\ Current(ks0, q0[p]) /\ \A l \in DOMAIN q0 : Current(ks0, q0[l]) => p <= l
            /\ e.keys = [ks0 EXCEPT ![q0[p].aid] = None]
  BY <1>6 DEF EvictLeaves
<1>10. PICK kr, q1, r : kr = e.keys /\ q1 = e.order /\ r = Compact(kr, q1)
  OBVIOUS
<1>11. CompactLeaves(kr, q1, r)
  BY <1>7, <1>10, CompactMeans
<1>12. PICK h : /\ Thins(h, r, q1)
                /\ \A k \in DOMAIN q1 : Current(kr, q1[k]) => \E i \in DOMAIN r : h[i] = k
  BY <1>11 DEF CompactLeaves
<1>13. QueueOf(q1, s2, b)
  BY <1>5, <1>8, <1>10, ThinQueue
<1>14. QueueOf(r, s2, b)
  BY <1>12, <1>13, ThinQueue
<1>15. \A a \in Holders : kr[a] = ks0[a] \/ kr[a] = None
  BY <1>2, <1>9, <1>10 DEF KeyMaps
<1>16. \A a \in Enrolled(kr) : a \in Enrolled(ks0) /\ kr[a] = ks0[a]
  BY <1>15 DEF Enrolled
<1>17. ASSUME NEW a \in Enrolled(kr) PROVE \E k \in DOMAIN r : r[k].aid = a /\ r[k].expires_at = kr[a]
  <2>1. PICK k \in DOMAIN q0 : q0[k].aid = a /\ q0[k].expires_at = kr[a]
    BY <1>3, <1>16
  <2>2. Current(kr, q0[k])
    BY <2>1 DEF Current
  <2>3. PICK i \in DOMAIN q1 : g[i] = k
    BY <1>8, <1>10, <2>2
  <2>4. q1[i] = q0[k]
    BY <1>8, <1>10, <2>3 DEF Thins
  <2>5. PICK j \in DOMAIN r : h[j] = i
    BY <1>12, <2>2, <2>4
  <2>6. r[j] = q0[k]
    BY <1>12, <2>4, <2>5 DEF Thins
  <2> QED
    BY <2>1, <2>6
<1>18. \A a \in Enrolled(kr) : Last(s2, b, a) # 0 /\ kr[a] = s2[Last(s2, b, a)].expires_at
  BY <1>4, <1>16
<1>19. b \in Nat /\ DOMAIN s2 = 1..Len(s2) /\ Len(s2) \in Nat /\ t \in Nat
  BY <1>2 DEF QueueFits
<1>20. ASSUME ~Twice(s2, b) PROVE Len(r) <= 2 * Cap
  <2>1. Cardinality({k \in DOMAIN q1 : Current(kr, q1[k])}) <= 2 * Cap
    BY <1>2, <1>7, <1>10, <1>13, <1>19, <1>20, CurrentFew
  <2> QED
    BY <1>11, <2>1 DEF CompactLeaves
<1>21. ASSUME ~Twice(s2, b) PROVE GoesFirst(kr, s2, b, t)
  <2> SUFFICES ASSUME NEW a \in Holders, NEW d \in Holders, kr[a] # None, kr[d] = None,
                      Last(s2, b, d) > Last(s2, b, a), s2[Last(s2, b, d)].expires_at >= t
               PROVE  FALSE
    BY DEF GoesFirst
  <2>1. GoesFirst(ks0, s2, b, t)
    BY <1>5, <1>21
  <2>2. ks0[a] # None /\ a \in Enrolled(ks0) /\ a \in Enrolled(kr)
    BY <1>15 DEF Enrolled
  <2>3. ks0[d] # None
    BY <2>1, <2>2 DEF GoesFirst
  <2>4. PICK p \in DOMAIN q0 :
          /\ Current(ks0, q0[p]) /\ \A l \in DOMAIN q0 : Current(ks0, q0[l]) => p <= l
          /\ kr = [ks0 EXCEPT ![q0[p].aid] = None]
    BY <1>9, <1>10, <2>3
  <2>5. q0[p].aid = d
    BY <1>2, <2>3, <2>4 DEF KeyMaps
  <2>6. PICK l \in DOMAIN q0 : q0[l].aid = a /\ q0[l].expires_at = ks0[a]
    BY <1>3, <2>2
  <2>7. p <= l /\ p # l
    <3>1. Current(ks0, q0[l])
      BY <2>6 DEF Current
    <3> QED
      BY <2>4, <2>5, <2>6, <3>1
  <2>8. PICK at \in [DOMAIN q0 -> {k \in DOMAIN s2 : k > b}] :
          /\ \A i, j \in DOMAIN q0 : i < j => at[i] < at[j]
          /\ \A i \in DOMAIN q0 : q0[i].aid = s2[at[i]].aid /\ q0[i].expires_at = s2[at[i]].expires_at
    BY <1>5 DEF QueueOf
  <2>9. ASSUME NEW i \in DOMAIN q0, Current(ks0, q0[i]), NEW z \in Enrolled(ks0), q0[i].aid = z
        PROVE  at[i] = Last(s2, b, z)
    <3>1. PICK y : y = Last(s2, b, z)
      OBVIOUS
    <3>2. y # 0 /\ s2[y].expires_at = q0[i].expires_at
      BY <1>4, <2>9, <3>1 DEF Current
    <3>3. y \in DOMAIN s2 /\ y > b /\ s2[y].aid = z
      <4>1. y \in MineOf(s2, b, z)
        BY <1>2, <1>19, <3>1, <3>2, LastMeans
      <4> QED
        BY <4>1 DEF MineOf
    <3>4. PICK x1 : x1 = at[i]
      OBVIOUS
    <3>5. x1 \in DOMAIN s2 /\ x1 > b /\ s2[x1].aid = z /\ s2[x1].expires_at = q0[i].expires_at
      BY <2>8, <2>9, <3>4
    <3>6. x1 = y
      BY <1>2, <1>19, <1>21, <3>2, <3>3, <3>5, OnePlace
    <3> QED
      BY <3>1, <3>4, <3>6
  <2>10. d \in Enrolled(ks0)
    BY <2>3 DEF Enrolled
  <2>11. at[p] = Last(s2, b, d)
    BY <2>4, <2>5, <2>9, <2>10
  <2>12. at[l] = Last(s2, b, a)
    BY <2>2, <2>6, <2>9 DEF Current
  <2>13. at[p] < at[l] /\ at[p] \in Nat /\ at[l] \in Nat
    <3>1. p \in Nat /\ l \in Nat
      BY <1>2
    <3>2. p < l
      BY <2>7, <3>1
    <3> QED
      BY <1>19, <2>8, <3>2
  <2> QED
    BY <2>11, <2>12, <2>13
<1>22. QueueFits(kr, r, s2, b, t)
  <2>1. r \in Seq(Places)
    BY <1>11 DEF CompactLeaves
  <2> QED
    BY <1>2, <1>7, <1>10, <1>14, <1>17, <1>18, <1>19, <1>20, <1>21, <2>1 DEF QueueFits
<1> QED
  BY <1>10, <1>22

\* The map loses keys that have lapsed, as time passes.
LEMMA LapseFits ==
  ASSUME NEW ks, NEW q, NEW s, NEW b, NEW t, QueueFits(ks, q, s, b, t), NEW t2 \in Nat, t <= t2,
         NEW ks2 \in KeyMaps, \A a \in Holders : ks2[a] = ks[a] \/ (ks2[a] = None /\ ks[a] < t2)
  PROVE  QueueFits(ks2, q, s, b, t2)
<1>1. Enrolled(ks2) \in SUBSET Enrolled(ks) /\ \A a \in Enrolled(ks2) : ks2[a] = ks[a]
  BY DEF Enrolled
<1>2. IsFiniteSet(Enrolled(ks)) /\ Cardinality(Enrolled(ks)) <= Cap
  BY DEF QueueFits
<1>3. IsFiniteSet(Enrolled(ks2)) /\ Cardinality(Enrolled(ks2)) <= Cardinality(Enrolled(ks))
  BY <1>1, <1>2, FS_Subset
<1>4. Cardinality(Enrolled(ks)) \in Nat /\ Cardinality(Enrolled(ks2)) \in Nat
  BY <1>2, <1>3, FS_CardinalityType
<1>5. Cardinality(Enrolled(ks2)) <= Cap
  BY <1>2, <1>3, <1>4, CapPositive
<1>6. ASSUME GoesFirst(ks, s, b, t) PROVE GoesFirst(ks2, s, b, t2)
  <2> SUFFICES ASSUME NEW a \in Holders, NEW c \in Holders, ks2[a] # None,
                      Last(s, b, c) > Last(s, b, a), s[Last(s, b, c)].expires_at >= t2, ks2[c] = None
               PROVE  FALSE
    BY DEF GoesFirst
  <2>1. PICK y : y = Last(s, b, c)
    OBVIOUS
  <2>2. ks[a] # None /\ a \in Enrolled(ks)
    BY <1>1 DEF Enrolled
  <2>3. y \in DOMAIN s
    <3>1. s \in Seq(Rows) /\ b \in Nat
      BY DEF QueueFits
    <3>2. Last(s, b, a) \in Nat
      <4>1. MineOf(s, b, a) \subseteq Nat
        BY <3>1 DEF MineOf
      <4> QED
        BY <3>1, <4>1, LastMeans
    <3>3. y # 0
      BY <2>1, <3>2
    <3> QED
      BY <2>1, <3>1, <3>3, LastMeans DEF MineOf
  <2>4. s[y].expires_at \in Nat /\ s[y].expires_at >= t2 /\ t \in Nat
    <3>1. s[y] \in Rows
      BY <2>3 DEF QueueFits
    <3> QED
      BY <2>1, <3>1 DEF QueueFits, Rows
  <2>5. s[y].expires_at >= t
    BY <2>4
  <2>6. ks[c] # None
    BY <1>6, <2>1, <2>2, <2>5 DEF GoesFirst
  <2>7. ks[c] < t2 /\ ks[c] = s[y].expires_at
    BY <2>1, <2>6 DEF QueueFits, Enrolled
  <2> QED
    BY <2>4, <2>7
<1> QED
  BY <1>1, <1>3, <1>5, <1>6 DEF QueueFits

(***************************************************************************)
(* Enrolment: challenges and requests.                                     *)
(***************************************************************************)

\* A holder signed an enrolment here on a challenge.
SignedHere(a, n) == <<a, Peer, n>> \in Signings

\* An enrolment that is worked on was signed here by the agent it names, and a
\* request read the clock no later than now.
WorkFits(w, cs, t) ==
  /\ DOMAIN w = DOMAIN Idle /\ w.pc \in {"idle", "consume", "insert", "answer", "commit"}
  /\ w.now \in Nat /\ w.now <= t
  /\ w.pc \in {"consume", "insert"} =>
       w.body.nonce \in DOMAIN cs /\ w.body.aid \in Holders /\ SignedHere(w.body.aid, w.body.nonce)

\* A challenge has enrolled an agent, or is about to.
Spent(n, ws, s) ==
  \/ \E k \in DOMAIN s : s[k].nonce = n
  \/ \E h \in Requests : ws[h].pc = "insert" /\ ws[h].body.nonce = n

\* A challenge is outstanding, or spent by one request, or lapsed: one made
\* since ba is never anything else.
ChallengesFit(ns, cs, ws, s, ba, t) ==
  /\ t \in Nat /\ cs \in Seq(Nat) /\ Len(cs) <= MaxEnrolments /\ s \in Seq(Rows) /\ ba \in Nat
  /\ ns \in [1..MaxEnrolments -> Nat \cup {None}]
  /\ DOMAIN ws = Requests /\ \A h \in Requests : WorkFits(ws[h], cs, t)
  /\ \A n \in 1..MaxEnrolments :
        ns[n] # None => n \in DOMAIN cs /\ ns[n] = cs[n] /\ ~Spent(n, ws, s)
  /\ \A g \in Requests : ws[g].pc = "insert" =>
        /\ \A k \in DOMAIN s : s[k].nonce # ws[g].body.nonce
        /\ \A h \in Requests : ws[h].pc = "insert" /\ ws[h].body.nonce = ws[g].body.nonce => h = g
  /\ \A k, l \in DOMAIN s : k # l => s[k].nonce # s[l].nonce
  /\ \A k \in DOMAIN s : /\ s[k].nonce \in DOMAIN cs /\ SignedHere(s[k].aid, s[k].nonce)
                         /\ s[k].expires_at <= t + ENROL_TTL
  /\ \A n \in (ba + 1)..Len(cs) : ns[n] # None \/ Spent(n, ws, s) \/ cs[n] < t

EnrolInv ==
  /\ ChallengesFit(nonces, asked, working, inserted, boot.asked, seconds)
  /\ QueueFits(keys, order, inserted, boot.inserted, seconds)

\* Only the request h changed.
Changed(ws, h, w, ws2) ==
  DOMAIN ws2 = Requests /\ ws2[h] = w /\ \A g \in Requests \ {h} : ws2[g] = ws[g]

\* Only challenges that have lapsed are gone.
Lapsed(ns, t, ns2) ==
  /\ ns2 \in [1..MaxEnrolments -> Nat \cup {None}]
  /\ \A n \in 1..MaxEnrolments : ns2[n] = ns[n] \/ (ns2[n] = None /\ ns[n] \in Nat /\ ns[n] < t)

\* The nonces in use are those of the challenges given out.
LEMMA InUse ==
  ASSUME NEW ns, NEW cs, NEW ws, NEW s, NEW ba, NEW t, ChallengesFit(ns, cs, ws, s, ba, t)
  PROVE  /\ DOMAIN cs = 1..Len(cs) /\ Len(cs) \in Nat
         /\ DOMAIN cs \subseteq 1..MaxEnrolments /\ (ba + 1)..Len(cs) \subseteq DOMAIN cs
<1>1. MaxEnrolments \in Nat
  BY InteropAssumption
<1>2. cs \in Seq(Nat) /\ ba \in Nat /\ Len(cs) <= MaxEnrolments
  BY DEF ChallengesFit
<1>3. PICK l \in Nat : l = Len(cs)
  BY <1>2
<1>4. 1..l \subseteq 1..MaxEnrolments /\ (ba + 1)..l \subseteq 1..l
  BY <1>1, <1>2, <1>3
<1> QED
  BY <1>2, <1>3, <1>4

\* A request that does not come to insert, and a store that forgets.
LEMMA QuietFits ==
  ASSUME NEW ns, NEW cs, NEW ws, NEW s, NEW ba, NEW t, ChallengesFit(ns, cs, ws, s, ba, t),
         NEW ns2, Lapsed(ns, t, ns2), NEW h \in Requests, NEW w, NEW ws2, Changed(ws, h, w, ws2),
         WorkFits(w, cs, t), w.pc # "insert", ws[h].pc # "insert"
  PROVE  ChallengesFit(ns2, cs, ws2, s, ba, t)
<1>1. \A g \in Requests : ws2[g].pc = "insert" <=> ws[g].pc = "insert"
  BY DEF Changed
<1>2. \A g \in Requests : ws[g].pc = "insert" => ws2[g] = ws[g]
  BY DEF Changed
<1>3. \A n : Spent(n, ws2, s) <=> Spent(n, ws, s)
  BY <1>1, <1>2 DEF Spent
<1>4. DOMAIN ws2 = Requests /\ \A g \in Requests : WorkFits(ws2[g], cs, t)
  BY DEF Changed, ChallengesFit
<1>5. ASSUME NEW n \in 1..MaxEnrolments, ns2[n] # None
      PROVE  n \in DOMAIN cs /\ ns2[n] = cs[n] /\ ~Spent(n, ws2, s)
  <2>1. ns[n] # None /\ ns2[n] = ns[n]
    BY <1>5 DEF Lapsed
  <2> QED
    BY <1>3, <2>1 DEF ChallengesFit
<1>6. ASSUME NEW n \in (ba + 1)..Len(cs) PROVE ns2[n] # None \/ Spent(n, ws2, s) \/ cs[n] < t
  <2>1. n \in 1..MaxEnrolments
    BY InUse
  <2>2. ns[n] # None \/ Spent(n, ws, s) \/ cs[n] < t
    BY DEF ChallengesFit
  <2>3. ns[n] # None => ns[n] = cs[n]
    BY <2>1 DEF ChallengesFit
  <2>4. ns2[n] = ns[n] \/ (ns2[n] = None /\ ns[n] < t)
    BY <2>1 DEF Lapsed
  <2>5. ns[n] # None => ns2[n] = ns[n] \/ cs[n] < t
    BY <2>3, <2>4
  <2> QED
    BY <1>3, <2>2, <2>5
<1>7. ns2 \in [1..MaxEnrolments -> Nat \cup {None}]
  BY DEF Lapsed
<1>8. ASSUME NEW g \in Requests, ws2[g].pc = "insert"
      PROVE  /\ \A k \in DOMAIN s : s[k].nonce # ws2[g].body.nonce
             /\ \A x \in Requests : ws2[x].pc = "insert" /\ ws2[x].body.nonce = ws2[g].body.nonce => x = g
  BY <1>1, <1>2, <1>8 DEF ChallengesFit
<1> QED
  BY <1>4, <1>5, <1>6, <1>7, <1>8 DEF ChallengesFit

\* A challenge is taken out by one request.
LEMMA ConsumeFits ==
  ASSUME NEW ns, NEW cs, NEW ws, NEW s, NEW ba, NEW t, ChallengesFit(ns, cs, ws, s, ba, t),
         NEW h \in Requests, ws[h].pc = "consume", NEW n, n = ws[h].body.nonce, ns[n] # None,
         NEW ns2 \in [1..MaxEnrolments -> Nat \cup {None}], ns2[n] = None,
         \A m \in (1..MaxEnrolments) \ {n} : ns2[m] = ns[m],
         NEW w, WorkFits(w, cs, t), w.pc = "insert", w.body = ws[h].body,
         NEW ws2, Changed(ws, h, w, ws2)
  PROVE  ChallengesFit(ns2, cs, ws2, s, ba, t)
<1>1. n \in DOMAIN cs /\ n \in 1..MaxEnrolments
  <2>1. n \in DOMAIN cs
    BY DEF ChallengesFit, WorkFits
  <2> QED
    BY <2>1, InUse
<1>2. ~Spent(n, ws, s)
  BY <1>1 DEF ChallengesFit
<1>3. \A g \in Requests \ {h} : ws2[g] = ws[g]
  BY DEF Changed
<1>4. ws2[h].pc = "insert" /\ ws2[h].body.nonce = n /\ DOMAIN ws2 = Requests
  BY DEF Changed
<1>5. \A m : Spent(m, ws2, s) <=> Spent(m, ws, s) \/ m = n
  BY <1>3, <1>4 DEF Spent
<1>6. \A g \in Requests : WorkFits(ws2[g], cs, t)
  BY DEF Changed, ChallengesFit
<1>7. ASSUME NEW m \in 1..MaxEnrolments, ns2[m] # None
      PROVE  m \in DOMAIN cs /\ ns2[m] = cs[m] /\ ~Spent(m, ws2, s)
  <2>1. m # n /\ ns2[m] = ns[m]
    BY <1>7
  <2> QED
    BY <1>5, <1>7, <2>1 DEF ChallengesFit
<1>8. ASSUME NEW m \in (ba + 1)..Len(cs) PROVE ns2[m] # None \/ Spent(m, ws2, s) \/ cs[m] < t
  <2>1. m \in 1..MaxEnrolments
    BY InUse
  <2>2. ns[m] # None \/ Spent(m, ws, s) \/ cs[m] < t
    BY DEF ChallengesFit
  <2> QED
    BY <1>5, <2>1, <2>2
<1>9. ASSUME NEW g \in Requests, ws2[g].pc = "insert"
      PROVE  /\ \A k \in DOMAIN s : s[k].nonce # ws2[g].body.nonce
             /\ \A x \in Requests : ws2[x].pc = "insert" /\ ws2[x].body.nonce = ws2[g].body.nonce => x = g
  <2>1. CASE g = h
    BY <1>2, <1>3, <1>4, <2>1 DEF Spent
  <2>2. CASE g # h
    <3>1. ws2[g] = ws[g] /\ ws[g].pc = "insert" /\ ws[g].body.nonce # n
      BY <1>2, <1>3, <1>9, <2>2 DEF Spent
    <3>2. \A k \in DOMAIN s : s[k].nonce # ws[g].body.nonce
      BY <3>1 DEF ChallengesFit
    <3>3. ASSUME NEW x \in Requests, ws2[x].pc = "insert", ws2[x].body.nonce = ws[g].body.nonce
          PROVE  x = g
      <4>1. x # h
        BY <1>4, <3>1, <3>3
      <4>2. ws2[x] = ws[x]
        BY <1>3, <4>1
      <4> QED
        BY <3>1, <3>3, <4>2 DEF ChallengesFit
    <3> QED
      BY <3>1, <3>2, <3>3
  <2> QED
    BY <2>1, <2>2
<1> QED
  BY <1>4, <1>6, <1>7, <1>8, <1>9 DEF ChallengesFit

\* The request that took a challenge out enrols an agent.
LEMMA EnrolFits ==
  ASSUME NEW ns, NEW cs, NEW ws, NEW s, NEW ba, NEW t, ChallengesFit(ns, cs, ws, s, ba, t),
         NEW h \in Requests, ws[h].pc = "insert",
         NEW row \in Rows, row.nonce = ws[h].body.nonce, row.aid = ws[h].body.aid,
         row.expires_at <= t + ENROL_TTL,
         NEW s2, s2 = Append(s, row), NEW ws2, Changed(ws, h, Idle, ws2)
  PROVE  ChallengesFit(ns, cs, ws2, s2, ba, t)
<1>1. PICK n : n = row.nonce
  OBVIOUS
<1>2. s \in Seq(Rows) /\ t \in Nat
  BY DEF ChallengesFit
<1>3. PICK z \in Nat : z = Len(s) + 1
  BY <1>2
<1>4. /\ s2 \in Seq(Rows) /\ DOMAIN s2 = DOMAIN s \cup {z} /\ z \notin DOMAIN s /\ s2[z] = row
      /\ \A k \in DOMAIN s : s2[k] = s[k]
  BY <1>2, <1>3
<1>5. n \in DOMAIN cs /\ SignedHere(row.aid, n) /\ ws[h].body.nonce = n
  BY <1>1 DEF ChallengesFit, WorkFits
<1>6. ws2[h].pc = "idle" /\ DOMAIN ws2 = Requests /\ \A g \in Requests \ {h} : ws2[g] = ws[g]
  BY DEF Changed, Idle
<1>7. \A m : Spent(m, ws2, s2) <=> Spent(m, ws, s)
  <2> SUFFICES ASSUME NEW m PROVE Spent(m, ws2, s2) <=> Spent(m, ws, s)
    OBVIOUS
  <2>1. (\E k \in DOMAIN s2 : s2[k].nonce = m) <=> (\E k \in DOMAIN s : s[k].nonce = m) \/ m = n
    BY <1>1, <1>4
  <2>2. (\E g \in Requests : ws[g].pc = "insert" /\ ws[g].body.nonce = m)
          <=> (\E g \in Requests : ws2[g].pc = "insert" /\ ws2[g].body.nonce = m) \/ m = n
    <3>1. ASSUME NEW g \in Requests, ws[g].pc = "insert", ws[g].body.nonce = m
          PROVE  (\E x \in Requests : ws2[x].pc = "insert" /\ ws2[x].body.nonce = m) \/ m = n
      <4>1. CASE g = h
        BY <1>5, <3>1, <4>1
      <4>2. CASE g # h
        BY <1>6, <3>1, <4>2
      <4> QED
        BY <4>1, <4>2
    <3>2. ASSUME NEW g \in Requests, ws2[g].pc = "insert", ws2[g].body.nonce = m
          PROVE  \E x \in Requests : ws[x].pc = "insert" /\ ws[x].body.nonce = m
      BY <1>6, <3>2
    <3>3. ws[h].pc = "insert" /\ ws[h].body.nonce = n
      BY <1>5
    <3> QED
      BY <3>1, <3>2, <3>3
  <2> QED
    BY <2>1, <2>2 DEF Spent
<1>8. \A g \in Requests : WorkFits(ws2[g], cs, t)
  <2>1. WorkFits(Idle, cs, t)
    BY <1>2 DEF WorkFits, Idle
  <2> QED
    BY <2>1 DEF Changed, ChallengesFit
<1>9. \A m \in 1..MaxEnrolments :
         ns[m] # None => m \in DOMAIN cs /\ ns[m] = cs[m] /\ ~Spent(m, ws2, s2)
  BY <1>7 DEF ChallengesFit
<1>10. \A m \in (ba + 1)..Len(cs) : ns[m] # None \/ Spent(m, ws2, s2) \/ cs[m] < t
  BY <1>7 DEF ChallengesFit
<1>11. \A k \in DOMAIN s : s[k].nonce # n
  BY <1>5 DEF ChallengesFit
<1>12. ASSUME NEW g \in Requests, ws2[g].pc = "insert"
       PROVE  /\ \A k \in DOMAIN s2 : s2[k].nonce # ws2[g].body.nonce
              /\ \A x \in Requests : ws2[x].pc = "insert" /\ ws2[x].body.nonce = ws2[g].body.nonce => x = g
  <2>1. g # h /\ ws2[g] = ws[g]
    BY <1>6, <1>12
  <2>2. ws[g].body.nonce # n
    BY <1>5, <1>12, <2>1 DEF ChallengesFit
  <2>3. \A k \in DOMAIN s : s[k].nonce # ws[g].body.nonce
    BY <1>12, <2>1 DEF ChallengesFit
  <2>4. \A k \in DOMAIN s2 : s2[k].nonce # ws2[g].body.nonce
    BY <1>1, <1>4, <2>1, <2>2, <2>3
  <2>5. ASSUME NEW x \in Requests, ws2[x].pc = "insert", ws2[x].body.nonce = ws2[g].body.nonce PROVE x = g
    <3>1. ws2[x] = ws[x]
      BY <1>6, <2>5
    <3> QED
      BY <1>12, <2>1, <2>5, <3>1 DEF ChallengesFit
  <2> QED
    BY <2>4, <2>5
<1>13. \A k, l \in DOMAIN s2 : k # l => s2[k].nonce # s2[l].nonce
  <2>1. \A k, l \in DOMAIN s : k # l => s[k].nonce # s[l].nonce
    BY DEF ChallengesFit
  <2> QED
    BY <1>1, <1>4, <1>11, <2>1
<1>14. \A k \in DOMAIN s2 : /\ s2[k].nonce \in DOMAIN cs /\ SignedHere(s2[k].aid, s2[k].nonce)
                            /\ s2[k].expires_at <= t + ENROL_TTL
  <2>1. \A k \in DOMAIN s : /\ s[k].nonce \in DOMAIN cs /\ SignedHere(s[k].aid, s[k].nonce)
                            /\ s[k].expires_at <= t + ENROL_TTL
    BY DEF ChallengesFit
  <2> QED
    BY <1>1, <1>4, <1>5, <2>1
<1> QED
  BY <1>4, <1>6, <1>8, <1>9, <1>10, <1>12, <1>13, <1>14 DEF ChallengesFit

\* The store gives out one more challenge and may drop some that have lapsed.
Asks(ns, cs, t, place, ns2, cs2) ==
  /\ cs2 = Append(cs, place) /\ Len(cs) + 1 <= MaxEnrolments
  /\ ns2 \in [1..MaxEnrolments -> Nat \cup {None}] /\ ns2[Len(cs) + 1] = place
  /\ \A m \in (1..MaxEnrolments) \ {Len(cs) + 1} :
        ns2[m] = ns[m] \/ (ns2[m] = None /\ ns[m] \in Nat /\ ns[m] < t)

\* Another challenge is given out, for whoever asks.
LEMMA AskFits ==
  ASSUME NEW ns, NEW cs, NEW ws, NEW s, NEW ba, NEW t, ChallengesFit(ns, cs, ws, s, ba, t),
         NEW place \in Nat, NEW ns2, NEW cs2, Asks(ns, cs, t, place, ns2, cs2)
  PROVE  ChallengesFit(ns2, cs2, ws, s, ba, t)
<1>0. /\ cs2 = Append(cs, place) /\ Len(cs) + 1 <= MaxEnrolments
      /\ ns2 \in [1..MaxEnrolments -> Nat \cup {None}] /\ ns2[Len(cs) + 1] = place
      /\ \A m \in (1..MaxEnrolments) \ {Len(cs) + 1} :
            ns2[m] = ns[m] \/ (ns2[m] = None /\ ns[m] \in Nat /\ ns[m] < t)
  BY DEF Asks
<1>1. cs \in Seq(Nat) /\ ba \in Nat
  BY DEF ChallengesFit
<1>2. PICK z \in Nat : z = Len(cs) + 1
  BY <1>1
<1>3. /\ cs2 \in Seq(Nat) /\ Len(cs2) = z /\ cs2[z] = place /\ DOMAIN cs = 1..(z - 1)
      /\ DOMAIN cs2 = 1..z /\ DOMAIN cs2 = DOMAIN cs \cup {z} /\ z \notin DOMAIN cs
      /\ \A m \in DOMAIN cs : cs2[m] = cs[m]
  BY <1>0, <1>1, <1>2
<1>4. DOMAIN cs \subseteq 1..MaxEnrolments /\ z \in 1..MaxEnrolments
  <2>1. MaxEnrolments \in Nat /\ z # 0
    BY <1>1, <1>2, InteropAssumption
  <2> QED
    BY <1>0, <1>2, <2>1, InUse
<1>5. \A m : Spent(m, ws, s) => m \in DOMAIN cs
  BY DEF Spent, ChallengesFit, WorkFits
<1>6. \A h \in Requests : WorkFits(ws[h], cs2, t)
  <2> SUFFICES ASSUME NEW h \in Requests PROVE WorkFits(ws[h], cs2, t)
    OBVIOUS
  <2>1. WorkFits(ws[h], cs, t)
    BY DEF ChallengesFit
  <2> QED
    BY <1>3, <2>1 DEF WorkFits
<1>7. ASSUME NEW m \in 1..MaxEnrolments, ns2[m] # None
      PROVE  m \in DOMAIN cs2 /\ ns2[m] = cs2[m] /\ ~Spent(m, ws, s)
  <2>1. CASE m = z
    BY <1>0, <1>2, <1>3, <1>5, <2>1
  <2>2. CASE m # z
    <3>1. ns2[m] = ns[m] /\ ns[m] # None
      BY <1>0, <1>2, <1>7, <2>2
    <3>2. m \in DOMAIN cs /\ ns[m] = cs[m] /\ ~Spent(m, ws, s)
      BY <3>1 DEF ChallengesFit
    <3> QED
      BY <1>3, <3>1, <3>2
  <2> QED
    BY <2>1, <2>2
<1>8. ASSUME NEW m \in (ba + 1)..Len(cs2)
      PROVE  ns2[m] # None \/ Spent(m, ws, s) \/ cs2[m] < t
  <2>1. CASE m = z
    BY <1>0, <1>2, <2>1, TokenAssumption
  <2>2. CASE m # z
    <3>1. m \in (ba + 1)..Len(cs) /\ m \in DOMAIN cs
      BY <1>1, <1>2, <1>3, <2>2
    <3>2. ns[m] # None \/ Spent(m, ws, s) \/ cs[m] < t
      BY <3>1 DEF ChallengesFit
    <3>3. m \in 1..MaxEnrolments /\ cs2[m] = cs[m]
      BY <1>3, <1>4, <3>1
    <3>4. ns[m] # None => ns[m] = cs[m]
      BY <3>3 DEF ChallengesFit
    <3>5. ns2[m] = ns[m] \/ (ns2[m] = None /\ ns[m] \in Nat /\ ns[m] < t)
      BY <1>0, <1>2, <2>2, <3>3
    <3>6. ns[m] # None => ns2[m] # None \/ cs[m] < t
      BY <3>4, <3>5
    <3> QED
      BY <3>2, <3>3, <3>6
  <2> QED
    BY <2>1, <2>2
<1>9. \A k \in DOMAIN s : /\ s[k].nonce \in DOMAIN cs2 /\ SignedHere(s[k].aid, s[k].nonce)
                          /\ s[k].expires_at <= t + ENROL_TTL
  <2>1. \A k \in DOMAIN s : /\ s[k].nonce \in DOMAIN cs /\ SignedHere(s[k].aid, s[k].nonce)
                            /\ s[k].expires_at <= t + ENROL_TTL
    BY DEF ChallengesFit
  <2> QED
    BY <1>3, <2>1
<1>10. Len(cs2) <= MaxEnrolments
  BY <1>0, <1>2, <1>3
<1> QED
  BY <1>0, <1>3, <1>6, <1>7, <1>8, <1>9, <1>10 DEF ChallengesFit

\* Time passes.
LEMMA LaterFits ==
  ASSUME NEW ns, NEW cs, NEW ws, NEW s, NEW ba, NEW t, ChallengesFit(ns, cs, ws, s, ba, t),
         NEW t2 \in Nat, t <= t2
  PROVE  ChallengesFit(ns, cs, ws, s, ba, t2)
<1>1. t \in Nat /\ ENROL_TTL \in Nat
  BY InteropAssumption DEF ChallengesFit
<1>2. \A h \in Requests : WorkFits(ws[h], cs, t2)
  <2> SUFFICES ASSUME NEW h \in Requests PROVE WorkFits(ws[h], cs, t2)
    OBVIOUS
  <2>1. WorkFits(ws[h], cs, t)
    BY DEF ChallengesFit
  <2>2. ws[h].now \in Nat /\ ws[h].now <= t2
    BY <1>1, <2>1 DEF WorkFits
  <2> QED
    BY <2>1, <2>2 DEF WorkFits
<1>3. ASSUME NEW k \in DOMAIN s PROVE s[k].expires_at \in Nat
  <2>1. s[k] \in Rows
    BY DEF ChallengesFit
  <2> QED
    BY <2>1 DEF Rows
<1>4. \A k \in DOMAIN s : s[k].expires_at <= t + ENROL_TTL => s[k].expires_at <= t2 + ENROL_TTL
  BY <1>1, <1>3
<1>5. ASSUME NEW n \in (ba + 1)..Len(cs) PROVE ns[n] # None \/ Spent(n, ws, s) \/ cs[n] < t2
  <2>1. n \in DOMAIN cs /\ cs \in Seq(Nat)
    BY InUse DEF ChallengesFit
  <2>2. cs[n] \in Nat
    BY <2>1
  <2>3. ns[n] # None \/ Spent(n, ws, s) \/ cs[n] < t
    BY DEF ChallengesFit
  <2> QED
    BY <1>1, <2>2, <2>3
<1>6. \A k \in DOMAIN s : /\ s[k].nonce \in DOMAIN cs /\ SignedHere(s[k].aid, s[k].nonce)
                          /\ s[k].expires_at <= t2 + ENROL_TTL
  BY <1>4 DEF ChallengesFit
<1> QED
  BY <1>2, <1>5, <1>6 DEF ChallengesFit

\* A start forgets what is under way, and every challenge.
Fresh(ns, ws, ks, q) ==
  /\ ns = [k \in 1..MaxEnrolments |-> None] /\ ws = [h \in Requests |-> Idle]
  /\ ks = [a \in Holders |-> None] /\ q = << >>

\* What is left after a start fits together.
LEMMA StartFits ==
  ASSUME NEW cs \in Seq(Nat), Len(cs) <= MaxEnrolments, NEW s \in Seq(Rows), NEW t \in Nat,
         \A k, l \in DOMAIN s : k # l => s[k].nonce # s[l].nonce,
         \A k \in DOMAIN s : /\ s[k].nonce \in DOMAIN cs /\ SignedHere(s[k].aid, s[k].nonce)
                             /\ s[k].expires_at <= t + ENROL_TTL,
         NEW ns, NEW ws, NEW ks, NEW q, Fresh(ns, ws, ks, q)
  PROVE  ChallengesFit(ns, cs, ws, s, Len(cs), t) /\ QueueFits(ks, q, s, Len(s), t)
<1>0. /\ ns = [k \in 1..MaxEnrolments |-> None] /\ ws = [h \in Requests |-> Idle]
      /\ ks = [a \in Holders |-> None] /\ q = << >>
  BY DEF Fresh
<1>1. \A h \in Requests : ws[h] = Idle /\ WorkFits(ws[h], cs, t) /\ ws[h].pc = "idle"
  BY <1>0 DEF WorkFits, Idle
<1>2. /\ ns \in [1..MaxEnrolments -> Nat \cup {None}] /\ \A n \in 1..MaxEnrolments : ns[n] = None
      /\ DOMAIN ws = Requests /\ Len(cs) \in Nat
  BY <1>0
<1>3. (Len(cs) + 1)..Len(cs) = {}
  BY <1>2
<1>4. ChallengesFit(ns, cs, ws, s, Len(cs), t)
  BY <1>1, <1>2, <1>3 DEF ChallengesFit
<1>5. Enrolled(ks) = {} /\ ks \in KeyMaps /\ \A a \in Holders : ks[a] = None
  BY <1>0 DEF Enrolled, KeyMaps
<1>6. IsFiniteSet(Enrolled(ks)) /\ Cardinality(Enrolled(ks)) <= Cap
  <2>1. IsFiniteSet(Enrolled(ks)) /\ Cardinality(Enrolled(ks)) = 0
    BY <1>5, FS_EmptySet
  <2> QED
    BY <2>1, CapPositive
<1>7. DOMAIN q = {} /\ q \in Seq(Places) /\ Len(q) = 0 /\ Len(s) \in 0..Len(s)
  BY <1>0
<1>8. QueueOf(q, s, Len(s))
  <2>1. PICK at : at = [i \in DOMAIN q |-> 0]
    OBVIOUS
  <2>2. at \in [DOMAIN q -> {k \in DOMAIN s : k > Len(s)}]
    BY <1>7, <2>1
  <2> QED
    BY <1>7, <2>2 DEF QueueOf
<1>9. GoesFirst(ks, s, Len(s), t) /\ Len(q) <= 2 * Cap
  BY <1>5, <1>7, CapPositive DEF GoesFirst
<1>10. QueueFits(ks, q, s, Len(s), t)
  BY <1>5, <1>6, <1>7, <1>8, <1>9 DEF QueueFits
<1> QED
  BY <1>4, <1>10

\* What verifies here was signed here by the holder it names, on the challenge
\* it names, however it was put together.
LEMMA SignedForChallenge ==
  ASSUME asked \in Seq(Nat), NEW r \in EnrollRequests, SignatureHolds(r)
  PROVE  r.nonce \in DOMAIN asked /\ r.aid \in Holders /\ SignedHere(r.aid, r.nonce)
<1> DEFINE Chosen == {x \in Signings : x[3] \in DOMAIN asked}
           Made(x) == SignEnroll(x[1], x[2], x[3])
           signed == {Made(x) : x \in Chosen}
<1>1. ASSUME NEW q \in signed
      PROVE  \E x \in Chosen :
               /\ DOMAIN q = {"aid", "nonce", "signature"}
               /\ q.aid = x[1] /\ q.nonce = x[3] /\ q.signature.by = x[1]
               /\ q.signature.over = <<"aitp-interop-enrol-v1", x[1], x[2], x[3]>>
  <2>1. PICK x \in Chosen : q = Made(x)
    OBVIOUS
  <2> QED
    BY <2>1 DEF SignEnroll, SigningDigest
<1>2. \A x \in Chosen : /\ x \in Signings /\ x[3] \in DOMAIN asked /\ x[1] \in Holders
                        /\ x = <<x[1], x[2], x[3]>>
  <2> SUFFICES ASSUME NEW x \in Chosen
               PROVE  /\ x \in Signings /\ x[3] \in DOMAIN asked /\ x[1] \in Holders
                      /\ x = <<x[1], x[2], x[3]>>
    OBVIOUS
  <2>1. x \in Signings /\ x[3] \in DOMAIN asked
    OBVIOUS
  <2>2. x \in Holders \X {Peer, Elsewhere} \X Nat
    BY <2>1, InteropAssumption
  <2> QED
    BY <2>1, <2>2
<1>3. r.signature.by = r.aid /\ r.signature.over = <<"aitp-interop-enrol-v1", r.aid, Peer, r.nonce>>
  BY DEF SignatureHolds, SigningDigest
<1>4. r \in signed \/ (\E q \in signed, a \in Holders : r = [q EXCEPT !.aid = a])
                  \/ (\E q \in signed, n \in DOMAIN asked : r = [q EXCEPT !.nonce = n])
  BY DEF EnrollRequests
<1> HIDE DEF signed, Chosen
<1>5. PICK q \in signed :
        \/ r = q
        \/ \E a \in Holders : r = [q EXCEPT !.aid = a]
        \/ \E n \in DOMAIN asked : r = [q EXCEPT !.nonce = n]
  BY <1>4
<1>6. PICK x \in Chosen :
        /\ DOMAIN q = {"aid", "nonce", "signature"}
        /\ q.aid = x[1] /\ q.nonce = x[3] /\ q.signature.by = x[1]
        /\ q.signature.over = <<"aitp-interop-enrol-v1", x[1], x[2], x[3]>>
  BY <1>1
<1>7. r.signature = q.signature
  BY <1>5, <1>6
<1>8. r.aid = x[1] /\ x[2] = Peer /\ r.nonce = x[3]
  BY <1>3, <1>6, <1>7
<1> QED
  BY <1>2, <1>8 DEF SignedHere

(***************************************************************************)
(* Enrolment: the steps.                                                   *)
(***************************************************************************)

\* Nothing of the enrolment changes.
LEMMA IdleStep ==
  ASSUME EnrolInv,
         UNCHANGED <<seconds, nonces, keys, order, working, asked, inserted, boot>>
  PROVE  EnrolInv'
BY DEF EnrolInv

\* The parts that do not concern the challenges.
LEMMA QueueStays ==
  ASSUME QueueFits(keys, order, inserted, boot.inserted, seconds),
         UNCHANGED <<seconds, keys, order, inserted, boot>>
  PROVE  QueueFits(keys, order, inserted, boot.inserted, seconds)'
OBVIOUS

\* A step of the request h.
LEMMA WorkChanges ==
  ASSUME EnrolInv, NEW h \in Requests, NEW w, Work(h, w)
  PROVE  Changed(working, h, w, working')
<1>1. DOMAIN working = Requests
  BY DEF EnrolInv, ChallengesFit
<1> QED
  BY <1>1 DEF Changed, Work

\* What the store drops has lapsed.
LEMMA DropsLapsed ==
  ASSUME EnrolInv, NEW read \in Nat, read <= seconds, NEW dropped, dropped \subseteq ExpiredNonces(read)
  PROVE  /\ Lapsed(nonces, seconds, Dropping(nonces, dropped))
         /\ Lapsed(nonces, seconds, nonces)
<1>1. nonces \in [1..MaxEnrolments -> Nat \cup {None}] /\ seconds \in Nat
  BY DEF EnrolInv, ChallengesFit
<1>2. PICK ns2 : ns2 = Dropping(nonces, dropped)
  OBVIOUS
<1>3. ns2 \in [1..MaxEnrolments -> Nat \cup {None}]
  BY <1>1, <1>2 DEF Dropping
<1>4. ASSUME NEW n \in 1..MaxEnrolments
      PROVE  ns2[n] = nonces[n] \/ (ns2[n] = None /\ nonces[n] \in Nat /\ nonces[n] < seconds)
  <2>1. CASE n \in dropped
    <3>1. ns2[n] = None /\ nonces[n] # None /\ nonces[n] < read
      BY <1>1, <1>2, <2>1 DEF Dropping, ExpiredNonces, Outstanding
    <3>2. nonces[n] \in Nat
      BY <1>1, <3>1
    <3>3. nonces[n] < seconds
      BY <1>1, <3>1, <3>2
    <3> QED
      BY <3>1, <3>2, <3>3
  <2>2. CASE n \notin dropped
    BY <1>1, <1>2, <2>2 DEF Dropping
  <2> QED
    BY <2>1, <2>2
<1> QED
  BY <1>1, <1>2, <1>3, <1>4 DEF Lapsed

\* A step of a request that neither takes a challenge out nor enrols.
LEMMA QuietStep ==
  ASSUME EnrolInv, NEW h \in Requests, NEW w, Work(h, w), WorkFits(w, asked, seconds),
         w.pc # "insert", working[h].pc # "insert", Lapsed(nonces, seconds, nonces'),
         UNCHANGED <<seconds, keys, order, asked, inserted, boot>>
  PROVE  EnrolInv'
<1>1. Changed(working, h, w, working')
  BY WorkChanges
<1>2. ChallengesFit(nonces', asked, working', inserted, boot.asked, seconds)
  BY <1>1, QuietFits DEF EnrolInv
<1>3. QueueFits(keys, order, inserted, boot.inserted, seconds)'
  BY QueueStays DEF EnrolInv
<1> QED
  BY <1>2, <1>3 DEF EnrolInv

\* enroll_challenge.
LEMMA AskStep ==
  ASSUME EnrolInv, NEW dropped, EnrollChallenge(dropped)
  PROVE  EnrolInv'
<1>1. /\ seconds \in Nat /\ asked \in Seq(Nat)
      /\ nonces \in [1..MaxEnrolments -> Nat \cup {None}]
  BY DEF EnrolInv, ChallengesFit
<1>2. PICK place : place = seconds + CHALLENGE_TTL
  OBVIOUS
<1>3. place \in Nat /\ place = seconds + CHALLENGE_TTL
  BY <1>1, <1>2, InteropAssumption
<1>4. PICK left : left = Dropping(nonces, dropped)
  OBVIOUS
<1>5. Lapsed(nonces, seconds, left)
  BY <1>1, <1>4, DropsLapsed DEF EnrollChallenge
<1>6. PICK z \in Nat : z = Len(asked) + 1
  BY <1>1
<1>7. /\ nonces' = [left EXCEPT ![z] = seconds + CHALLENGE_TTL]
      /\ asked' = Append(asked, place)
      /\ z <= MaxEnrolments
      /\ UNCHANGED <<seconds, keys, order, working, inserted, boot>>
  BY <1>2, <1>4, <1>6 DEF EnrollChallenge, store
<1>8. z \in 1..MaxEnrolments
  BY <1>1, <1>6, <1>7, InteropAssumption
<1>9. /\ nonces' \in [1..MaxEnrolments -> Nat \cup {None}]
      /\ nonces'[z] = place
      /\ \A m \in (1..MaxEnrolments) \ {z} : nonces'[m] = left[m]
  BY <1>3, <1>5, <1>7, <1>8 DEF Lapsed
<1>10. \A m \in (1..MaxEnrolments) \ {z} :
          nonces'[m] = nonces[m] \/ (nonces'[m] = None /\ nonces[m] \in Nat /\ nonces[m] < seconds)
  BY <1>5, <1>9 DEF Lapsed
<1>11. Asks(nonces, asked, seconds, place, nonces', asked')
  BY <1>6, <1>7, <1>9, <1>10 DEF Asks
<1>12. ChallengesFit(nonces', asked', working, inserted, boot.asked, seconds)
  BY <1>3, <1>11, AskFits DEF EnrolInv
<1>13. QueueFits(keys, order, inserted, boot.inserted, seconds)'
  BY <1>7, QueueStays DEF EnrolInv
<1> QED
  BY <1>7, <1>12, <1>13 DEF EnrolInv

\* enroll: the signature is looked at.
LEMMA EnrollStep ==
  ASSUME EnrolInv, NEW h \in Requests, Enroll(h)
  PROVE  EnrolInv'
<1>1. PICK r \in EnrollRequests :
        SignatureHolds(r) /\ Work(h, [Idle EXCEPT !.pc = "consume", !.body = r, !.now = seconds])
  BY DEF Enroll
<1>2. /\ working[h].pc = "idle"
      /\ UNCHANGED <<seconds, nonces, keys, order, asked, inserted, boot>>
  BY DEF Enroll, store, history
<1>3. asked \in Seq(Nat) /\ seconds \in Nat
  BY DEF EnrolInv, ChallengesFit
<1>4. r.nonce \in DOMAIN asked /\ r.aid \in Holders /\ SignedHere(r.aid, r.nonce)
  BY <1>1, <1>3, SignedForChallenge
<1>5. PICK w : w = [Idle EXCEPT !.pc = "consume", !.body = r, !.now = seconds]
  OBVIOUS
<1>6. DOMAIN w = DOMAIN Idle /\ w.pc = "consume" /\ w.body = r /\ w.now = seconds
  BY <1>5 DEF Idle
<1>7. WorkFits(w, asked, seconds) /\ w.pc # "insert"
  BY <1>3, <1>4, <1>6 DEF WorkFits
<1>8. Lapsed(nonces, seconds, nonces)
  <2>1. {} \subseteq ExpiredNonces(seconds) /\ seconds <= seconds
    BY <1>3
  <2> QED
    BY <1>3, <2>1, DropsLapsed
<1>9. Lapsed(nonces, seconds, nonces')
  BY <1>2, <1>8
<1> QED
  BY <1>1, <1>2, <1>5, <1>7, <1>9, QuietStep

\* enroll: the challenge is taken out, or it was not there, or it was late.
LEMMA ConsumeStep ==
  ASSUME EnrolInv, NEW h \in Requests, NEW dropped, ConsumeEnrolment(h, dropped)
  PROVE  EnrolInv'
<1>1. PICK n, read : n = working[h].body.nonce /\ read = working[h].now
  OBVIOUS
<1>2. /\ working[h].pc = "consume"
      /\ UNCHANGED <<seconds, keys, order, asked, inserted, boot>>
  BY DEF ConsumeEnrolment, store, history
<1>3. /\ seconds \in Nat /\ asked \in Seq(Nat)
      /\ nonces \in [1..MaxEnrolments -> Nat \cup {None}]
      /\ WorkFits(working[h], asked, seconds)
  BY DEF EnrolInv, ChallengesFit
<1>4. read \in Nat /\ read <= seconds /\ n \in DOMAIN asked
  BY <1>1, <1>2, <1>3 DEF WorkFits
<1>5. n \in 1..MaxEnrolments
  BY <1>4, InUse DEF EnrolInv
<1>6. WorkFits(Idle, asked, seconds) /\ Idle.pc # "insert"
  BY <1>3 DEF WorkFits, Idle
<1>7. ASSUME Work(h, Idle), Lapsed(nonces, seconds, nonces') PROVE EnrolInv'
  <2>1. PICK w : w = Idle
    OBVIOUS
  <2>2. Work(h, w) /\ WorkFits(w, asked, seconds) /\ w.pc # "insert"
    BY <1>6, <1>7, <2>1
  <2> QED
    BY <1>2, <1>7, <2>2, QuietStep
<1>8. CASE nonces[n] = None
  <2>1. dropped \subseteq ExpiredNonces(read) /\ nonces' = Dropping(nonces, dropped) /\ Work(h, Idle)
    BY <1>1, <1>8 DEF ConsumeEnrolment
  <2>2. Lapsed(nonces, seconds, Dropping(nonces, dropped))
    BY <1>4, <2>1, DropsLapsed
  <2> QED
    BY <1>7, <2>1, <2>2
<1>9. CASE nonces[n] # None /\ nonces[n] < read
  <2>1. nonces' = [nonces EXCEPT ![n] = None] /\ Work(h, Idle)
    BY <1>1, <1>9 DEF ConsumeEnrolment
  <2>2. nonces[n] \in Nat /\ nonces[n] < seconds
    BY <1>3, <1>4, <1>5, <1>9
  <2>3. Lapsed(nonces, seconds, nonces')
    BY <1>3, <1>5, <2>1, <2>2 DEF Lapsed
  <2> QED
    BY <1>7, <2>1, <2>3
<1>10. CASE nonces[n] # None /\ ~(nonces[n] < read)
  <2>1. nonces' = [nonces EXCEPT ![n] = None] /\ Work(h, [working[h] EXCEPT !.pc = "insert"])
    BY <1>1, <1>10 DEF ConsumeEnrolment
  <2>2. /\ nonces' \in [1..MaxEnrolments -> Nat \cup {None}] /\ nonces'[n] = None
        /\ \A m \in (1..MaxEnrolments) \ {n} : nonces'[m] = nonces[m]
    BY <1>3, <1>5, <2>1
  <2>3. PICK w : w = [working[h] EXCEPT !.pc = "insert"]
    OBVIOUS
  <2>4. /\ DOMAIN w = DOMAIN Idle /\ w.pc = "insert" /\ w.body = working[h].body /\ w.now = read
    <3>1. DOMAIN working[h] = {"pc", "body", "tct", "now"} /\ DOMAIN Idle = {"pc", "body", "tct", "now"}
      BY <1>3 DEF WorkFits, Idle
    <3> QED
      BY <1>1, <2>3, <3>1
  <2>5. WorkFits(w, asked, seconds)
    BY <1>2, <1>3, <1>4, <2>4 DEF WorkFits
  <2>6. Changed(working, h, w, working')
    BY <2>1, <2>3, WorkChanges
  <2>7. ChallengesFit(nonces, asked, working, inserted, boot.asked, seconds)
    BY DEF EnrolInv
  <2>8. ChallengesFit(nonces', asked, working', inserted, boot.asked, seconds)
    BY <1>1, <1>2, <1>10, <2>2, <2>4, <2>5, <2>6, <2>7, ConsumeFits
  <2>9. QueueFits(keys, order, inserted, boot.inserted, seconds)'
    BY <1>2, QueueStays DEF EnrolInv
  <2> QED
    BY <1>2, <2>8, <2>9 DEF EnrolInv
<1> QED
  BY <1>8, <1>9, <1>10

\* enroll: the key is put into the map, and the oldest one goes.
LEMMA InsertStep ==
  ASSUME EnrolInv, NEW h \in Requests, InsertEnrolment(h)
  PROVE  EnrolInv'
<1>1. PICK c, m, x : /\ c = working[h].body.aid /\ m = working[h].body.nonce
                     /\ x = working[h].now + ENROL_TTL
  OBVIOUS
<1>2. PICK row : row = [aid |-> c, nonce |-> m, expires_at |-> x]
  OBVIOUS
<1>3. /\ working[h].pc = "insert" /\ Work(h, Idle) /\ Insert(c, x)
      /\ inserted' = Append(inserted, row)
      /\ UNCHANGED <<seconds, nonces, asked, boot>>
  BY <1>1, <1>2 DEF InsertEnrolment
<1>4. /\ seconds \in Nat /\ asked \in Seq(Nat) /\ inserted \in Seq(Rows)
      /\ WorkFits(working[h], asked, seconds)
  BY DEF EnrolInv, ChallengesFit
<1>5. c \in Holders /\ m \in DOMAIN asked /\ x \in Nat /\ x <= seconds + ENROL_TTL
  <2>1. ENROL_TTL \in Nat
    BY InteropAssumption
  <2>2. /\ c \in Holders /\ m \in DOMAIN asked
        /\ working[h].now \in Nat /\ working[h].now <= seconds
    BY <1>1, <1>3, <1>4 DEF WorkFits
  <2> QED
    BY <1>1, <1>4, <2>1, <2>2
<1>6. m \in Nat
  BY <1>4, <1>5
<1>7. row \in Rows /\ row.nonce = m /\ row.aid = c /\ row.expires_at = x
  BY <1>2, <1>5, <1>6 DEF Rows
<1>8. ChallengesFit(nonces', asked', working', inserted', boot'.asked, seconds')
  <2>1. Changed(working, h, Idle, working')
    <3>1. PICK w : w = Idle
      OBVIOUS
    <3>2. Changed(working, h, w, working')
      BY <1>3, <3>1, WorkChanges
    <3> QED
      BY <3>1, <3>2
  <2>2. ChallengesFit(nonces, asked, working, inserted, boot.asked, seconds)
    BY DEF EnrolInv
  <2>3. ChallengesFit(nonces, asked, working', inserted', boot.asked, seconds)
    BY <1>1, <1>3, <1>5, <1>7, <2>1, <2>2, EnrolFits
  <2> QED
    BY <1>3, <2>3
<1>9. QueueFits(keys', order', inserted', boot'.inserted, seconds')
  <2>1. PICK ks0, q0 : ks0 = [keys EXCEPT ![c] = x] /\ q0 = Append(order, [aid |-> c, expires_at |-> x])
    OBVIOUS
  <2>2. PICK e : e = Evict(ks0, q0)
    OBVIOUS
  <2>3. keys' = e.keys /\ order' = Compact(e.keys, e.order)
    BY <1>3, <2>1, <2>2 DEF Insert
  <2>4. PutAtEnd(keys, order, inserted, c, m, x, ks0, q0, inserted')
    BY <1>2, <1>3, <2>1 DEF PutAtEnd
  <2>5. QueueFits(keys, order, inserted, boot.inserted, seconds)
    BY DEF EnrolInv
  <2>6. QueueFits(e.keys, Compact(e.keys, e.order), inserted', boot.inserted, seconds)
    BY <1>5, <1>6, <2>2, <2>4, <2>5, InsertFits
  <2> QED
    BY <1>3, <2>3, <2>6
<1> QED
  BY <1>8, <1>9 DEF EnrolInv

\* status.
LEMMA StatusStep ==
  ASSUME EnrolInv, Status
  PROVE  EnrolInv'
<1>1. /\ UNCHANGED <<seconds, nonces, order, working, asked, inserted, boot>>
      /\ keys' = [a \in Holders |-> IF IsTrusted(a) THEN keys[a] ELSE None]
  BY DEF Status, history
<1>2. keys \in KeyMaps /\ seconds \in Nat
  BY DEF EnrolInv, QueueFits
<1>3. keys' \in KeyMaps
  BY <1>1, <1>2 DEF KeyMaps
<1>4. ASSUME NEW a \in Holders PROVE keys'[a] = keys[a] \/ (keys'[a] = None /\ keys[a] < seconds)
  <2>1. CASE IsTrusted(a) \/ keys[a] = None
    BY <1>1, <2>1
  <2>2. CASE ~IsTrusted(a) /\ keys[a] # None
    <3>1. keys[a] \in Nat /\ ~(keys[a] >= seconds)
      BY <1>2, <2>2 DEF KeyMaps, IsTrusted
    <3> QED
      BY <1>1, <1>2, <2>2, <3>1
  <2> QED
    BY <2>1, <2>2
<1>5. QueueFits(keys', order, inserted, boot.inserted, seconds)
  BY <1>2, <1>3, <1>4, LapseFits DEF EnrolInv
<1> QED
  BY <1>1, <1>5 DEF EnrolInv

\* A second passes.
LEMMA TickStep ==
  ASSUME EnrolInv, IpTick
  PROVE  EnrolInv'
<1>1. /\ UNCHANGED <<nonces, keys, order, working, asked, inserted, boot>>
      /\ seconds' = seconds + 1
  BY DEF IpTick, store, history
<1>2. keys \in KeyMaps /\ seconds \in Nat
  BY DEF EnrolInv, QueueFits
<1>3. seconds' \in Nat /\ seconds <= seconds'
  BY <1>1, <1>2
<1>4. ChallengesFit(nonces, asked, working, inserted, boot.asked, seconds')
  BY <1>3, LaterFits DEF EnrolInv
<1>5. QueueFits(keys, order, inserted, boot.inserted, seconds')
  BY <1>2, <1>3, LapseFits DEF EnrolInv
<1> QED
  BY <1>1, <1>4, <1>5 DEF EnrolInv

\* The peer starts again.
LEMMA RestartStep ==
  ASSUME EnrolInv, Restart
  PROVE  EnrolInv'
<1>1. /\ Fresh(nonces', working', keys', order') /\ UNCHANGED <<seconds, asked, inserted>>
      /\ boot'.asked = Len(asked) /\ boot'.inserted = Len(inserted)
  BY DEF Restart, Started, Fresh
<1>2. /\ asked \in Seq(Nat) /\ Len(asked) <= MaxEnrolments /\ inserted \in Seq(Rows) /\ seconds \in Nat
      /\ \A k, l \in DOMAIN inserted : k # l => inserted[k].nonce # inserted[l].nonce
  BY DEF EnrolInv, ChallengesFit
<1>3. \A k \in DOMAIN inserted :
         /\ inserted[k].nonce \in DOMAIN asked /\ SignedHere(inserted[k].aid, inserted[k].nonce)
         /\ inserted[k].expires_at <= seconds + ENROL_TTL
  BY DEF EnrolInv, ChallengesFit
<1>4. /\ ChallengesFit(nonces', asked, working', inserted, Len(asked), seconds)
      /\ QueueFits(keys', order', inserted, Len(inserted), seconds)
  BY <1>1, <1>2, <1>3, StartFits
<1> QED
  BY <1>1, <1>4 DEF EnrolInv

\* The peer starts for the first time.
LEMMA EnrolStarts ==
  ASSUME IpInit
  PROVE  EnrolInv
<1>1. /\ Fresh(nonces, working, keys, order) /\ seconds = 0 /\ asked = << >> /\ inserted = << >>
      /\ boot.asked = 0 /\ boot.inserted = 0
  BY DEF IpInit, Fresh
<1>2. /\ asked \in Seq(Nat) /\ Len(asked) = 0 /\ 0 <= MaxEnrolments /\ inserted \in Seq(Rows)
      /\ seconds \in Nat /\ DOMAIN inserted = {} /\ Len(inserted) = 0
  BY <1>1, InteropAssumption
<1>3. /\ ChallengesFit(nonces, asked, working, inserted, Len(asked), seconds)
      /\ QueueFits(keys, order, inserted, Len(inserted), seconds)
  BY <1>1, <1>2, StartFits
<1> QED
  BY <1>1, <1>2, <1>3 DEF EnrolInv

\* A request of /echo or a COMMIT begins, or ends, as far as enrolment goes.
LEMMA EchoStep ==
  ASSUME EnrolInv, NEW h \in Requests,
         \/ Echo(h) \/ (\E dropped : CheckEcho(h, dropped))
         \/ (\E s : CommitTake(h, s)) \/ CommitIssue(h) \/ CommitDropped(h)
  PROVE  EnrolInv'
<1>1. /\ UNCHANGED <<seconds, nonces, keys, order, asked, inserted, boot>>
      /\ working[h].pc # "insert"
  BY DEF Echo, CheckEcho, CommitTake, CommitIssue, CommitDropped, store, history
<1>2. seconds \in Nat /\ Lapsed(nonces, seconds, nonces)
  <2>1. seconds \in Nat
    BY DEF EnrolInv, ChallengesFit
  <2>2. {} \subseteq ExpiredNonces(seconds) /\ seconds <= seconds
    BY <2>1
  <2> QED
    BY <2>1, <2>2, DropsLapsed
<1>3. PICK w : Work(h, w) /\ DOMAIN w = DOMAIN Idle /\ w.pc \in {"idle", "answer", "commit"} /\ w.now \in Nat
               /\ w.now <= seconds
  <2>1. CASE Echo(h)
    <3>1. PICK t \in tcts \cup OtherTokens, env \in Responses :
            Work(h, [pc |-> "answer", body |-> env, tct |-> t, now |-> seconds])
      BY <2>1 DEF Echo
    <3>2. PICK w : w = [pc |-> "answer", body |-> env, tct |-> t, now |-> seconds]
      OBVIOUS
    <3>3. DOMAIN w = DOMAIN Idle /\ w.pc = "answer" /\ w.now = seconds
      BY <3>2 DEF Idle
    <3> QED
      BY <1>2, <3>1, <3>2, <3>3
  <2>2. CASE \E s : CommitTake(h, s)
    <3>1. PICK b : Work(h, [Idle EXCEPT !.pc = "commit", !.now = seconds, !.body = b])
      BY <2>2 DEF CommitTake
    <3>2. PICK w : w = [Idle EXCEPT !.pc = "commit", !.now = seconds, !.body = b]
      OBVIOUS
    <3>3. DOMAIN w = DOMAIN Idle /\ w.pc = "commit" /\ w.now = seconds
      BY <3>2 DEF Idle
    <3>4. w.now \in Nat /\ w.now <= seconds /\ w.pc \in {"idle", "answer", "commit"}
      BY <1>2, <3>3
    <3>5. Work(h, w)
      BY <3>1, <3>2
    <3> QED
      BY <3>3, <3>4, <3>5
  <2>3. CASE (\E dropped : CheckEcho(h, dropped)) \/ CommitIssue(h) \/ CommitDropped(h)
    <3>1. PICK w : w = Idle
      OBVIOUS
    <3>2. Work(h, w)
      BY <2>3, <3>1 DEF CheckEcho, CommitIssue, CommitDropped
    <3>3. DOMAIN w = DOMAIN Idle /\ w.pc = "idle" /\ w.now = 0
      BY <3>1 DEF Idle
    <3> QED
      BY <1>2, <3>2, <3>3
  <2> QED
    BY <2>1, <2>2, <2>3
<1>4. WorkFits(w, asked, seconds) /\ w.pc # "insert"
  BY <1>3 DEF WorkFits
<1>5. Lapsed(nonces, seconds, nonces')
  BY <1>1, <1>2
<1> QED
  BY <1>1, <1>3, <1>4, <1>5, QuietStep

\* Every step keeps the challenges, the map and the queue in order.
LEMMA EnrolSteps ==
  ASSUME EnrolInv, [IpNext]_ipVars
  PROVE  EnrolInv'
<1>1. ASSUME NEW dropped \in SUBSET Outstanding(nonces), EnrollChallenge(dropped)
      PROVE  EnrolInv'
  BY <1>1, AskStep
<1>2. ASSUME NEW h \in Requests, Enroll(h) PROVE EnrolInv'
  BY <1>2, EnrollStep
<1>3. ASSUME NEW h \in Requests, NEW dropped \in SUBSET Outstanding(nonces), ConsumeEnrolment(h, dropped)
      PROVE  EnrolInv'
  BY <1>3, ConsumeStep
<1>4. ASSUME NEW h \in Requests, InsertEnrolment(h) PROVE EnrolInv'
  BY <1>4, InsertStep
<1>5. CASE Status
  BY <1>5, StatusStep
<1>6. ASSUME NEW a \in Holders, Hello(a) PROVE EnrolInv'
  BY <1>6, IdleStep DEF Hello, store, history
<1>7. ASSUME NEW h \in Requests, (\E s : CommitTake(h, s)) \/ CommitIssue(h) \/ CommitDropped(h)
      PROVE  EnrolInv'
  BY <1>7, EchoStep
<1>8. ASSUME NEW t \in tcts \cup OtherTokens, NEW dropped, EchoChallenge(t, dropped) PROVE EnrolInv'
  BY <1>8, IdleStep DEF EchoChallenge, store
<1>9. ASSUME NEW t \in tcts, NEW env \in Challenges, Respond(t, env) PROVE EnrolInv'
  BY <1>9, IdleStep DEF Respond, store
<1>10. ASSUME NEW h \in Requests, Echo(h) PROVE EnrolInv'
  BY <1>10, EchoStep
<1>11. ASSUME NEW h \in Requests, NEW dropped, CheckEcho(h, dropped) PROVE EnrolInv'
  BY <1>11, EchoStep
<1>12. CASE Rebuild
  BY <1>12, IdleStep DEF Rebuild, store, history
<1>13. CASE Restart
  BY <1>13, RestartStep
<1>14. CASE IpTick
  BY <1>14, TickStep
<1>15. CASE UNCHANGED ipVars
  BY <1>15, IdleStep DEF ipVars, store, history
<1> QED
  BY <1>1, <1>2, <1>3, <1>4, <1>5, <1>6, <1>7, <1>8, <1>9, <1>10, <1>11, <1>12, <1>13, <1>14, <1>15
     DEF IpNext

\* The challenges, the requests, the map of keys and its queue always fit
\* together and with the enrolments that were made.
THEOREM EnrolmentKept == IpSpec => []EnrolInv
<1>1. IpInit => EnrolInv
  BY EnrolStarts
<1>2. EnrolInv /\ [IpNext]_ipVars => EnrolInv'
  BY EnrolSteps
<1> QED
  BY <1>1, <1>2, PTL DEF IpSpec

\* Latest and SameExpiryTwice speak of the same enrolments as the invariant.
LEMMA LatestIsLast ==
  ASSUME EnrolInv
  PROVE  /\ \A a \in Holders : Latest(a) = Last(inserted, boot.inserted, a)
         /\ Twice(inserted, boot.inserted) => SameExpiryTwice
<1>1. inserted \in Seq(Rows) /\ boot.inserted \in Nat
  BY DEF EnrolInv, QueueFits
<1>2. ASSUME NEW a \in Holders PROVE Latest(a) = Last(inserted, boot.inserted, a)
  <2> DEFINE mine == {k \in Recent : inserted[k].aid = a}
             last == Last(inserted, boot.inserted, a)
  <2>1. mine = MineOf(inserted, boot.inserted, a)
    BY DEF Recent, MineOf
  <2>2. Latest(a) = IF mine = {} THEN 0 ELSE CHOOSE k \in mine : \A l \in mine : l <= k
    BY DEF Latest
  <2>3. mine \subseteq Nat
    BY <1>1 DEF Recent
  <2>4. (mine = {} /\ last = 0) \/ (last \in mine /\ \A l \in mine : l <= last)
    BY <1>1, <2>1, LastMeans
  <2> HIDE DEF mine, last
  <2>5. CASE mine = {}
    BY <2>2, <2>4, <2>5 DEF last
  <2>6. CASE mine # {}
    <3>1. \E k \in mine : \A l \in mine : l <= k
      BY <2>4, <2>6
    <3>2. Latest(a) \in mine /\ \A l \in mine : l <= Latest(a)
      BY <2>2, <2>6, <3>1
    <3>3. last \in mine /\ \A l \in mine : l <= last
      BY <2>4, <2>6
    <3>4. Latest(a) <= last /\ last <= Latest(a) /\ Latest(a) \in Nat /\ last \in Nat
      BY <2>3, <3>2, <3>3
    <3> QED
      BY <3>4 DEF last
  <2> QED
    BY <2>5, <2>6
<1>3. ASSUME Twice(inserted, boot.inserted) PROVE SameExpiryTwice
  BY <1>1, <1>3 DEF SameExpiryTwice, Twice, Recent
<1> QED
  BY <1>2, <1>3

\* EnrolmentSound is what the invariant comes to.
LEMMA EnrolmentFollows == EnrolInv => EnrolmentSound
<1> SUFFICES ASSUME EnrolInv PROVE EnrolmentSound
  OBVIOUS
<1>1. /\ inserted \in Seq(Rows) /\ seconds \in Nat /\ boot.inserted \in Nat /\ keys \in KeyMaps
      /\ Cardinality(Enrolled(keys)) <= Cap
  BY DEF EnrolInv, QueueFits
<1>2. \A k \in DOMAIN inserted : /\ SignedHere(inserted[k].aid, inserted[k].nonce)
                                 /\ inserted[k].expires_at <= seconds + ENROL_TTL
  BY DEF EnrolInv, ChallengesFit
<1>3. \A k, l \in DOMAIN inserted : k # l => inserted[k].nonce # inserted[l].nonce
  BY DEF EnrolInv, ChallengesFit
<1>4. ASSUME NEW n \in boot.asked + 1 .. Len(asked)
      PROVE  \/ nonces[n] # None
             \/ \E k \in DOMAIN inserted : inserted[k].nonce = n
             \/ \E h \in Requests : working[h].pc = "insert" /\ working[h].body.nonce = n
             \/ asked[n] < seconds
  BY DEF EnrolInv, ChallengesFit, Spent
<1>5. ASSUME NEW a \in Holders, IsTrusted(a)
      PROVE  \E k \in Recent : inserted[k].aid = a /\ inserted[k].expires_at >= seconds
                               /\ inserted[k].expires_at <= seconds + ENROL_TTL
  <2>1. PICK k : k = Last(inserted, boot.inserted, a)
    OBVIOUS
  <2>2. a \in Enrolled(keys) /\ keys[a] >= seconds
    BY <1>5 DEF IsTrusted, Enrolled
  <2>3. k # 0 /\ keys[a] = inserted[k].expires_at
    BY <2>1, <2>2 DEF EnrolInv, QueueFits
  <2>4. k \in MineOf(inserted, boot.inserted, a)
    BY <1>1, <2>1, <2>3, LastMeans
  <2>5. k \in Recent /\ k \in DOMAIN inserted /\ inserted[k].aid = a
    BY <2>4 DEF MineOf, Recent
  <2> QED
    BY <1>2, <2>2, <2>3, <2>5
<1>6. \A a \in Enrolled(keys) : \E k \in DOMAIN order : order[k].aid = a /\ order[k].expires_at = keys[a]
  BY DEF EnrolInv, QueueFits
<1>7. SameExpiryTwice \/ (OldestGoesFirst /\ QueueBounded)
  <2>1. CASE Twice(inserted, boot.inserted)
    BY <2>1, LatestIsLast
  <2>2. CASE GoesFirst(keys, inserted, boot.inserted, seconds) /\ Len(order) <= 2 * Cap
    <3>1. OldestGoesFirst
      <4> SUFFICES ASSUME NEW a \in Holders, NEW c \in Holders, keys[a] # None, Latest(c) > Latest(a),
                          inserted[Latest(c)].expires_at >= seconds
                   PROVE  keys[c] # None
        BY DEF OldestGoesFirst
      <4>1. PICK x, y : x = Last(inserted, boot.inserted, a) /\ y = Last(inserted, boot.inserted, c)
        OBVIOUS
      <4>2. Latest(a) = x /\ Latest(c) = y
        BY <4>1, LatestIsLast
      <4>3. y > x /\ inserted[y].expires_at >= seconds
        BY <4>2
      <4> QED
        BY <2>2, <4>1, <4>3 DEF GoesFirst
    <3> QED
      BY <2>2, <3>1 DEF QueueBounded
  <2> QED
    BY <2>1, <2>2 DEF EnrolInv, QueueFits
<1> QED
  BY <1>1, <1>2, <1>3, <1>4, <1>5, <1>6, <1>7 DEF EnrolmentSound, SignedHere

\* A key is trusted only on an enrolment its own holder signed for this peer on
\* that challenge, a challenge enrols once and is not lost, and the map and its
\* queue keep to their bounds.
THEOREM EnrolmentsSound == IpSpec => []EnrolmentSound
<1>1. IpSpec => []EnrolInv
  BY EnrolmentKept
<1>2. EnrolInv => EnrolmentSound
  BY EnrolmentFollows
<1> QED
  BY <1>1, <1>2, PTL

(***************************************************************************)
(* Echo: the inductive invariant.                                          *)
(***************************************************************************)
Half == MANIFEST_TTL \div 2

\* A token ends a session's, a request's and a token's lifetime after an
\* enrolment of its subject, at most; a session was opened during one.
Lag == SESSION_TTL + REQUEST_TIMEOUT + TCT_TTL
IssuedFits(t) ==
  /\ t.exp \in Nat
  /\ \E k \in DOMAIN inserted :
       inserted[k].aid = t.sub /\ t.exp <= inserted[k].expires_at + Lag
OpenFits(s) ==
  /\ s.created \in Nat
  /\ \E k \in DOMAIN inserted : inserted[k].aid = s.aid /\ s.created <= inserted[k].expires_at

\* Whoever sent an answer, it names a challenge that was given out.
BodyFits(env) ==
  /\ env.payload.nonce_echo \in DOMAIN challenged
  /\ env \in answers \/ env.sender \in Wild

\* A request that is checked has a token of this peer, in date at its reading.
PresentedFits(w) ==
  w.pc = "answer" => /\ w.now \in Nat /\ w.tct \in tcts /\ w.now <= w.tct.exp
                     /\ BodyFits(w.body)

\* A COMMIT took its session in time and keeps the manifest it found.
CommitFits(w) ==
  w.pc = "commit" => /\ OpenFits(w.body.session)
                     /\ w.now \in Nat /\ w.now - w.body.session.created <= SESSION_TTL
                     /\ w.body.manifest.expires_at \in Nat
RequestFits(w) == PresentedFits(w) /\ CommitFits(w)

\* An echo was earned, and its challenge is gone.
EchoFits(e) ==
  /\ e.now \in Nat /\ e.tct \in tcts /\ e.now <= e.tct.exp
  /\ e.nonce \in DOMAIN challenged /\ challenged[e.nonce] = e.tct.jti
  /\ e.tct.sub \in Wild \/
       \E env \in answers : env.sender = e.tct.sub /\ env.payload.nonce_echo = e.nonce
                            /\ env.payload.tct_jti = e.tct.jti

\* The manifest served is one of the refreshes, the last of which is not long
\* past due.
ManifestFits ==
  /\ DOMAIN routes = {"manifest", "sessions"}
  /\ next_refresh \in Nat /\ seconds <= next_refresh + Half
  /\ \E b \in Nat : routes.manifest = InteropManifest(b) /\ next_refresh <= b + Half

\* A challenge outstanding is for the token it was made for.
SlotsFit ==
  /\ \E S : challenged \in Seq(S)
  /\ Len(challenged) <= MaxEchoes
  /\ DOMAIN echo_nonces = 1..MaxEchoes
  /\ \A n \in 1..MaxEchoes :
       echo_nonces[n] # None => n \in DOMAIN challenged /\ echo_nonces[n].jti = challenged[n]

EchoInv ==
  /\ SlotsFit
  /\ \A t \in tcts : IssuedFits(t)
  /\ \A s \in routes.sessions : OpenFits(s)
  /\ \A env \in answers : BodyFits(env)
  /\ \A h \in Requests : RequestFits(working[h])
  /\ \A e \in echoed : EchoFits(e) /\ echo_nonces[e.nonce] = None
  /\ \A e, f \in echoed : e.nonce = f.nonce => e = f
  /\ ManifestFits

(***************************************************************************)
(* Echo: what is signed and verified.                                      *)
(***************************************************************************)

\* Half the life of a manifest, twice, is no longer than the manifest's life.
LEMMA HalfTwice ==
  Half \in Nat /\ MANIFEST_TTL \in Nat /\ Half + Half <= MANIFEST_TTL /\ Half >= 1
<1>1. MANIFEST_TTL \in Nat /\ MANIFEST_TTL >= 2
  BY InteropAssumption
<1> QED
  BY <1>1 DEF Half

\* The manifest of a refresh verifies for its whole life.
LEMMA OwnManifest ==
  ASSUME NEW b \in Nat, NEW m, m = InteropManifest(b)
  PROVE  /\ m.expires_at = b + MANIFEST_TTL
         /\ \A t \in Nat : t <= b + MANIFEST_TTL => VerifyManifest(m, t, FALSE, None) = "ok"
<1>1. PICK hint : hint = [kind |-> "pinned_key", subject |-> "interop", issuer |-> None, public_key |-> Peer]
  OBVIOUS
<1>2. PICK c : c = [hint |-> hint, handshake_endpoint |-> "https", anchors |-> << >>,
                    identity_types |-> <<"pinned_key">>, offered |-> <<ECHO_CAP>>, required |-> None,
                    ttl |-> MANIFEST_TTL]
  OBVIOUS
<1>3. m = Built(c, Peer, b, b, None)
  BY <1>1, <1>2 DEF InteropManifest
<1>4. MANIFEST_TTL \in Nat /\ MANIFEST_TTL >= 2 /\ Peer # None /\ ECHO_CAP # ""
  BY InteropAssumption, EchoAssumption, TokenAssumption
<1>5. PinnedDraft(c, Peer)
  <2>1. ASSUME NEW z, NEW l, l = <<z>> PROVE AllUnique(l) /\ DOMAIN l = {1} /\ l[1] = z
    <3>1. DOMAIN l = {1} /\ l[1] = z /\ Len(l) = 1
      BY <2>1
    <3>2. {l[k] : k \in DOMAIN l} = {z}
      BY <3>1
    <3> QED
      BY <3>1, <3>2, FS_Singleton DEF AllUnique
  <2>2. PICK l, n : l = <<"pinned_key">> /\ n = <<ECHO_CAP>>
    OBVIOUS
  <2>3. AllUnique(l) /\ IsCapabilityList(n)
    <3>1. AllUnique(l)
      BY <2>1, <2>2
    <3>2. AllUnique(n) /\ DOMAIN n = {1} /\ n[1] = ECHO_CAP
      BY <2>1, <2>2
    <3> QED
      BY <1>4, <3>1, <3>2 DEF IsCapabilityList
  <2>4. c.identity_types = l /\ c.offered = n
    BY <1>2, <2>2
  <2>5. /\ c.hint = hint /\ c.handshake_endpoint = "https" /\ c.anchors = << >> /\ c.required = None
        /\ hint.kind = "pinned_key" /\ hint.public_key = Peer /\ hint.issuer = None /\ hint.subject # ""
    BY <1>1, <1>2
  <2> QED
    BY <2>3, <2>4, <2>5 DEF PinnedDraft
<1>6. c.ttl = MANIFEST_TTL
  BY <1>2
<1>7. c.ttl \in Nat /\ b + c.ttl >= 1
  <2>1. MANIFEST_TTL \in Nat /\ MANIFEST_TTL >= 2
    BY <1>4
  <2> QED
    BY <1>6, <2>1
<1>8. m.expires_at = b + c.ttl /\ VerifiesUntil(m, b + c.ttl)
  <2>1. Peer # None
    BY <1>4
  <2> QED
    BY <1>3, <1>5, <1>7, <2>1, BuiltVerifies
<1> QED
  BY <1>6, <1>8 DEF VerifiesUntil

\* An answer as it is put into an envelope.
LEMMA ResponseMade ==
  ASSUME NEW w, NEW p
  PROVE  ResponseEnvelope(w, p).sender = w /\ ResponseEnvelope(w, p).payload = p
<1>1. PICK e : e = ResponseEnvelope(w, p)
  OBVIOUS
<1>2. e = SignedEnvelope(w, UnsignedEnvelope(w, "pop_response", p, 0, None), None)
  BY <1>1 DEF ResponseEnvelope
<1>3. e.sender = w /\ e.payload = p
  BY <1>2, EnvelopeMade
<1> QED
  BY <1>1, <1>3

\* A challenge as it is put into an envelope.
LEMMA ChallengeMade ==
  ASSUME NEW w, NEW jti, NEW k
  PROVE  ChallengeEnvelope(w, jti, k).payload.nonce = k
<1>1. PICK e, p : e = ChallengeEnvelope(w, jti, k) /\ p = [tct_jti |-> jti, nonce |-> k]
  OBVIOUS
<1>2. e = SignedEnvelope(w, UnsignedEnvelope(w, "pop_challenge", p, 0, None), None)
  BY <1>1 DEF ChallengeEnvelope
<1>3. e.payload = p /\ p.nonce = k
  BY <1>1, <1>2, EnvelopeMade
<1> QED
  BY <1>1, <1>3

\* Whatever reaches the peer as an answer names a challenge that was given out.
LEMMA ResponsesFit ==
  ASSUME EchoInv, NEW env \in Responses
  PROVE  BodyFits(env)
<1>1. \A e \in answers : BodyFits(e)
  BY DEF EchoInv
<1>2. CASE env \in answers
  BY <1>1, <1>2
<1>3. CASE env \notin answers
  <2> DEFINE Signs(w, t, k) == SignPopResponse([tct_jti |-> t.jti, nonce |-> k], w)
             own == {Signs(w, t, k) : w \in Wild, t \in tcts, k \in DOMAIN challenged}
  <2>1. PICK w \in Wild, p \in own \cup {e.payload : e \in answers} : env = ResponseEnvelope(w, p)
    BY <1>3 DEF Responses
  <2>2. env.sender = w /\ env.payload = p
    BY <2>1, ResponseMade
  <2>3. p.nonce_echo \in DOMAIN challenged
    <3>1. ASSUME p \in own PROVE p.nonce_echo \in DOMAIN challenged
      <4> HIDE DEF Signs
      <4>1. \E u \in Wild, t \in tcts, k \in DOMAIN challenged : p = Signs(u, t, k)
        BY <3>1
      <4>2. PICK u \in Wild, t \in tcts, k \in DOMAIN challenged : p = Signs(u, t, k)
        BY <4>1
      <4>3. p.nonce_echo = k
        BY <4>2 DEF Signs, SignPopResponse
      <4> QED
        BY <4>3
    <3>2. ASSUME NEW e \in answers, p = e.payload PROVE p.nonce_echo \in DOMAIN challenged
      BY <1>1, <3>2 DEF BodyFits
    <3> HIDE DEF own
    <3>3. p \in own \/ \E e \in answers : p = e.payload
      BY <2>1
    <3> QED
      BY <3>1, <3>2, <3>3
  <2> QED
    BY <2>1, <2>2, <2>3 DEF BodyFits
<1> QED
  BY <1>2, <1>3

\* verify_own_tct: a token that passes was issued here and is in date.
LEMMA OwnTokenMeans ==
  ASSUME NEW t \in tcts \cup OtherTokens, NEW now0 \in Nat, VerifyOwnTct(t, now0) = "ok",
         t \in tcts => t.exp \in Nat
  PROVE  t \in tcts /\ now0 <= t.exp
<1>1. PICK c : c = [issuer |-> Peer, for |-> t.sub, now |-> now0, clock_skew |-> 0,
                    cap |-> None, revocation |-> "fail_open"]
  OBVIOUS
<1>2. PICK v : v = VerifyTct(t, c, Answer("clear")).verdict
  OBVIOUS
<1> DEFINE a == Sub(v)
           b == <<ECHO_CAP \in t.grants, "POLICY_VIOLATION">>
<1>3. Verdict(<<a, b>>) = "ok"
  BY <1>1, <1>2 DEF VerifyOwnTct
<1>4. Fine(b)
  BY DEF Fine
<1>5. Fine(a) /\ (a[1] => v = "ok")
  BY SubFine
<1> HIDE DEF a, b
<1>6. a[1] /\ b[1]
  BY <1>3, <1>4, <1>5, TwoHold
<1>7. ECHO_CAP \in t.grants
  BY <1>6, ConditionOf DEF b
<1>8. VerifyTct(t, c, Answer("clear")).verdict = "ok"
  BY <1>2, <1>5, <1>6
<1>9. BeforeRevocation(t, c) = "ok"
  BY <1>8 DEF VerifyTct
<1>10. AllHold(SignedChecks(t, c.issuer))
  BY <1>9, BeforeMeans
<1>11. t.signer = Peer
  <2>1. t.signer = c.issuer
    BY <1>10, SignedMeans
  <2> QED
    BY <1>1, <2>1
<1>12. t \in tcts
  BY <1>7, <1>11, EchoAssumption
<1>13. t.exp >= c.now - c.clock_skew
  BY <1>8, TctInDate
<1>14. c.now = now0 /\ c.clock_skew = 0 /\ t.exp \in Nat
  BY <1>1, <1>12
<1> QED
  BY <1>12, <1>13, <1>14

\* echo: an answer that passes is the subject's, to a challenge for its token.
LEMMA EchoVerdictMeans ==
  ASSUME NEW t, NEW env, NEW now0, EchoVerdict(t, env, now0) = "ok"
  PROVE  env.sender = t.sub /\ env.payload.tct_jti = t.jti
<1>1. PICK challenge : challenge = [tct_jti |-> t.jti, nonce |-> env.payload.nonce_echo, expires_at |-> now0]
  OBVIOUS
<1>2. PICK v : v = VerifyPopResponse(challenge, env.payload, t, now0)
  OBVIOUS
<1> DEFINE a == <<env.message_type = "pop_response", "POP_RESPONSE_INVALID">>
           b == <<env.sender = t.sub, "POP_RESPONSE_INVALID">>
           c == <<VerifyEnvelopeSignature(env, t.sub), "POP_RESPONSE_INVALID">>
           d == Sub(v)
<1>3. Verdict(<<a, b, c, d>>) = "ok"
  BY <1>1, <1>2 DEF EchoVerdict
<1>4. Fine(a) /\ Fine(b) /\ Fine(c)
  BY DEF Fine
<1>5. Fine(d) /\ (d[1] => v = "ok")
  BY SubFine
<1> HIDE DEF a, b, c, d
<1>6. b[1] /\ d[1]
  BY <1>3, <1>4, <1>5, FourHold
<1>7. env.sender = t.sub
  BY <1>6, ConditionOf DEF b
<1>8. v = "ok"
  BY <1>5, <1>6
<1>9. env.payload.tct_jti = t.jti
  <2> DEFINE p == <<env.payload.tct_jti = challenge.tct_jti /\ env.payload.tct_jti = t.jti, "PopJtiMismatch">>
             q == <<env.payload.nonce_echo = challenge.nonce, "PopNonceMismatch">>
             r == <<now0 <= challenge.expires_at, "PopChallengeExpired">>
             s == <<t.jkt = t.sub, "CnfMalformed">>
             u == <<env.payload.signer = t.sub /\ env.payload.signed = challenge.nonce, "PopFailed">>
  <2>1. Verdict(<<p, q, r, s, u>>) = "ok"
    BY <1>2, <1>8 DEF VerifyPopResponse
  <2>2. Fine(p) /\ Fine(q) /\ Fine(r) /\ Fine(s) /\ Fine(u)
    BY DEF Fine
  <2> HIDE DEF p, q, r, s, u
  <2>3. p[1]
    BY <2>1, <2>2, FiveHold
  <2>4. env.payload.tct_jti = challenge.tct_jti /\ env.payload.tct_jti = t.jti
    BY <2>3, ConditionOf DEF p
  <2> QED
    BY <2>4
<1> QED
  BY <1>7, <1>9

(***************************************************************************)
(* Echo: what only grows.                                                  *)
(***************************************************************************)
Extends(s, s2) == DOMAIN s \subseteq DOMAIN s2 /\ \A k \in DOMAIN s : s2[k] = s[k]
Grown ==
  /\ Extends(inserted, inserted') /\ Extends(challenged, challenged')
  /\ tcts \subseteq tcts' /\ answers \subseteq answers'

\* An append extends.
LEMMA AppendExtends ==
  ASSUME NEW S, NEW s \in Seq(S), NEW x, NEW s2, s2 = Append(s, x)
  PROVE  /\ Extends(s, s2) /\ \E T : s2 \in Seq(T)
         /\ Len(s2) = Len(s) + 1 /\ s2[Len(s) + 1] = x /\ DOMAIN s2 = 1..(Len(s) + 1)
<1>1. PICK T : T = S \cup {x}
  OBVIOUS
<1>2. s \in Seq(T) /\ x \in T
  BY <1>1
<1>3. s2 \in Seq(T) /\ Len(s2) = Len(s) + 1 /\ s2[Len(s) + 1] = x /\ DOMAIN s2 = 1..(Len(s) + 1)
      /\ \A k \in 1..Len(s) : s2[k] = s[k]
  BY <1>2
<1>4. DOMAIN s = 1..Len(s) /\ Len(s) \in Nat
  BY <1>2
<1> QED
  BY <1>3, <1>4 DEF Extends

\* What was true of tokens, sessions, answers and echoes stays true.
LEMMA EchoGrows ==
  ASSUME Grown
  PROVE  /\ \A t : IssuedFits(t) => IssuedFits(t)'
         /\ \A s : OpenFits(s) => OpenFits(s)'
         /\ \A env : BodyFits(env) => BodyFits(env)'
         /\ \A w : RequestFits(w) => RequestFits(w)'
         /\ \A e : EchoFits(e) => EchoFits(e)'
<1>1. /\ DOMAIN inserted \subseteq DOMAIN inserted' /\ \A k \in DOMAIN inserted : inserted'[k] = inserted[k]
      /\ DOMAIN challenged \subseteq DOMAIN challenged'
      /\ \A k \in DOMAIN challenged : challenged'[k] = challenged[k]
      /\ tcts \subseteq tcts' /\ answers \subseteq answers'
  BY DEF Grown, Extends
<1>2. ASSUME NEW t, IssuedFits(t) PROVE IssuedFits(t)'
  BY <1>1, <1>2 DEF IssuedFits
<1>3. ASSUME NEW s, OpenFits(s) PROVE OpenFits(s)'
  BY <1>1, <1>3 DEF OpenFits
<1>4. ASSUME NEW env, BodyFits(env) PROVE BodyFits(env)'
  BY <1>1, <1>4 DEF BodyFits
<1>5. ASSUME NEW w, RequestFits(w) PROVE RequestFits(w)'
  <2>1. PresentedFits(w)'
    BY <1>1, <1>4, <1>5 DEF RequestFits, PresentedFits
  <2>2. CommitFits(w)'
    BY <1>3, <1>5 DEF RequestFits, CommitFits
  <2> QED
    BY <2>1, <2>2 DEF RequestFits
<1>6. ASSUME NEW e, EchoFits(e) PROVE EchoFits(e)'
  BY <1>1, <1>6 DEF EchoFits
<1> QED
  BY <1>2, <1>3, <1>4, <1>5, <1>6

(***************************************************************************)
(* Echo: the steps.                                                        *)
(***************************************************************************)

\* What a step has to add.
LEMMA StepFits ==
  ASSUME EchoInv, Grown, SlotsFit', ManifestFits',
         \A t \in tcts' : t \in tcts \/ IssuedFits(t)',
         \A s \in routes'.sessions : s \in routes.sessions \/ OpenFits(s)',
         \A env \in answers' : env \in answers \/ BodyFits(env)',
         \A h \in Requests : working'[h] = working[h] \/ RequestFits(working[h])',
         \A e \in echoed' : (e \in echoed \/ EchoFits(e)') /\ echo_nonces'[e.nonce] = None,
         \A e, f \in echoed' : e.nonce = f.nonce => e = f
  PROVE  EchoInv'
<1>1. \A t \in tcts' : IssuedFits(t)'
  BY EchoGrows DEF EchoInv
<1>2. \A s \in routes'.sessions : OpenFits(s)'
  BY EchoGrows DEF EchoInv
<1>3. \A env \in answers' : BodyFits(env)'
  BY EchoGrows DEF EchoInv
<1>4. \A e \in echoed' : EchoFits(e)'
  BY EchoGrows DEF EchoInv
<1>5. ASSUME NEW h \in Requests PROVE RequestFits(working[h])'
  <2>1. CASE RequestFits(working[h])'
    BY <2>1
  <2>2. CASE working'[h] = working[h]
    <3>1. PICK w : w = working[h]
      OBVIOUS
    <3>2. RequestFits(w)
      BY <3>1 DEF EchoInv
    <3>3. RequestFits(w)'
      BY <3>2, EchoGrows
    <3> QED
      BY <2>2, <3>1, <3>3 DEF RequestFits, PresentedFits, CommitFits, BodyFits, OpenFits
  <2> QED
    BY <2>1, <2>2
<1> QED
  BY <1>1, <1>2, <1>3, <1>4, <1>5 DEF EchoInv

\* A step of the request h leaves the others as they are.
LEMMA WorkLeaves ==
  ASSUME EnrolInv, NEW h \in Requests, NEW w, Work(h, w), RequestFits(w)'
  PROVE  \A g \in Requests : working'[g] = working[g] \/ RequestFits(working[g])'
<1>1. Changed(working, h, w, working')
  BY WorkChanges
<1>2. working'[h] = w /\ \A g \in Requests \ {h} : working'[g] = working[g]
  BY <1>1 DEF Changed
<1>3. RequestFits(working[h])'
  BY <1>2 DEF RequestFits, PresentedFits, CommitFits, BodyFits, OpenFits
<1> QED
  BY <1>2, <1>3

\* A request that is about neither an echo nor a COMMIT.
LEMMA NotPresented ==
  ASSUME NEW w, w.pc \notin {"answer", "commit"}
  PROVE  RequestFits(w) /\ RequestFits(w)'
BY DEF RequestFits, PresentedFits, CommitFits

\* Nothing of the echo changes but what is worked on.
LEMMA EchoAside ==
  ASSUME EchoInv, Extends(inserted, inserted'),
         \A h \in Requests : working'[h] = working[h] \/ RequestFits(working[h])',
         UNCHANGED <<seconds, echo_nonces, routes, next_refresh, challenged, answers, tcts, echoed>>
  PROVE  EchoInv'
<1>1. Grown
  BY DEF Grown, Extends
<1>2. SlotsFit'
  BY DEF EchoInv, SlotsFit
<1>3. ManifestFits'
  BY DEF EchoInv, ManifestFits
<1>4. /\ \A t \in tcts' : t \in tcts \/ IssuedFits(t)'
      /\ \A s \in routes'.sessions : s \in routes.sessions \/ OpenFits(s)'
      /\ \A env \in answers' : env \in answers \/ BodyFits(env)'
  OBVIOUS
<1>5. \A e \in echoed' : (e \in echoed \/ EchoFits(e)') /\ echo_nonces'[e.nonce] = None
  BY DEF EchoInv
<1>6. \A e, f \in echoed' : e.nonce = f.nonce => e = f
  BY DEF EchoInv
<1> QED
  BY <1>1, <1>2, <1>3, <1>4, <1>5, <1>6, StepFits

\* The requests, when none is taken further.
LEMMA SameWork ==
  ASSUME UNCHANGED working
  PROVE  \A h \in Requests : working'[h] = working[h] \/ RequestFits(working[h])'
OBVIOUS

\* The enrolments, when none is made.
LEMMA SameEnrolments ==
  ASSUME UNCHANGED inserted
  PROVE  Extends(inserted, inserted')
BY DEF Extends

\* What concerns enrolment.
LEMMA EnrolmentAside ==
  ASSUME EnrolInv, EchoInv,
         \/ \E dropped \in SUBSET Outstanding(nonces) : EnrollChallenge(dropped)
         \/ \E h \in Requests : Enroll(h)
         \/ \E h \in Requests, dropped \in SUBSET Outstanding(nonces) : ConsumeEnrolment(h, dropped)
         \/ \E h \in Requests : InsertEnrolment(h)
         \/ Status \/ UNCHANGED ipVars
  PROVE  EchoInv'
<1>1. ASSUME NEW dropped, EnrollChallenge(dropped) PROVE EchoInv'
  BY <1>1, EchoAside, SameWork, SameEnrolments DEF EnrollChallenge
<1>2. ASSUME NEW h \in Requests, Enroll(h) PROVE EchoInv'
  <2>1. PICK r : Work(h, [Idle EXCEPT !.pc = "consume", !.body = r, !.now = seconds])
    BY <1>2 DEF Enroll
  <2>2. PICK w : w = [Idle EXCEPT !.pc = "consume", !.body = r, !.now = seconds]
    OBVIOUS
  <2>3. w.pc = "consume"
    BY <2>2 DEF Idle
  <2>4. Work(h, w) /\ RequestFits(w)'
    BY <2>1, <2>2, <2>3, NotPresented
  <2> QED
    BY <1>2, <2>4, WorkLeaves, EchoAside, SameEnrolments DEF Enroll, history
<1>3. ASSUME NEW h \in Requests, NEW dropped, ConsumeEnrolment(h, dropped) PROVE EchoInv'
  <2>1. Work(h, Idle) \/ Work(h, [working[h] EXCEPT !.pc = "insert"])
    BY <1>3 DEF ConsumeEnrolment
  <2>2. "pc" \in DOMAIN working[h]
    BY DEF EnrolInv, ChallengesFit, WorkFits, Idle
  <2>3. PICK w : Work(h, w) /\ w.pc \notin {"answer", "commit"}
    <3>1. CASE Work(h, Idle)
      BY <3>1 DEF Idle
    <3>2. CASE Work(h, [working[h] EXCEPT !.pc = "insert"])
      BY <2>2, <3>2
    <3> QED
      BY <2>1, <3>1, <3>2
  <2>4. RequestFits(w)'
    BY <2>3, NotPresented
  <2> QED
    BY <1>3, <2>3, <2>4, WorkLeaves, EchoAside, SameEnrolments DEF ConsumeEnrolment, history
<1>4. ASSUME NEW h \in Requests, InsertEnrolment(h) PROVE EchoInv'
  <2>1. PICK e : inserted' = Append(inserted, e)
    BY <1>4 DEF InsertEnrolment
  <2>2. inserted \in Seq(Rows)
    BY DEF EnrolInv, QueueFits
  <2>3. Extends(inserted, inserted')
    <3>1. PICK s2 : s2 = Append(inserted, e)
      OBVIOUS
    <3>2. Extends(inserted, s2)
      BY <2>2, <3>1, AppendExtends
    <3> QED
      BY <2>1, <3>1, <3>2
  <2>4. PICK w : w = Idle
    OBVIOUS
  <2>5. Work(h, w) /\ w.pc = "idle"
    BY <1>4, <2>4 DEF InsertEnrolment, Idle
  <2>6. RequestFits(w)'
    BY <2>5, NotPresented
  <2> QED
    BY <1>4, <2>3, <2>5, <2>6, WorkLeaves, EchoAside DEF InsertEnrolment
<1>5. CASE Status
  BY <1>5, EchoAside, SameWork, SameEnrolments DEF Status, history
<1>6. CASE UNCHANGED ipVars
  BY <1>6, EchoAside, SameWork, SameEnrolments DEF ipVars, history
<1> QED
  BY <1>1, <1>2, <1>3, <1>4, <1>5, <1>6

\* What concerns the handshake and its routes.
LEMMA RoutesStep ==
  ASSUME EchoInv, tcts \subseteq tcts', ManifestFits',
         UNCHANGED <<echo_nonces, challenged, answers, echoed, inserted, working>>,
         \A t \in tcts' : t \in tcts \/ IssuedFits(t)',
         \A s \in routes'.sessions : s \in routes.sessions \/ OpenFits(s)'
  PROVE  EchoInv'
<1>1. Grown
  BY DEF Grown, Extends
<1>2. SlotsFit'
  BY DEF EchoInv, SlotsFit
<1>3. \A e \in echoed' : (e \in echoed \/ EchoFits(e)') /\ echo_nonces'[e.nonce] = None
  BY DEF EchoInv
<1>4. \A e, f \in echoed' : e.nonce = f.nonce => e = f
  BY DEF EchoInv
<1>5. \A env \in answers' : env \in answers \/ BodyFits(env)'
  OBVIOUS
<1> QED
  BY <1>1, <1>2, <1>3, <1>4, <1>5, SameWork, StepFits

\* The sessions come and go while the manifest stays.
LEMMA SessionsChange ==
  ASSUME ManifestFits, NEW ss, routes' = [routes EXCEPT !.sessions = ss], UNCHANGED <<seconds, next_refresh>>
  PROVE  ManifestFits' /\ routes'.sessions = ss
<1>1. routes'.manifest = routes.manifest /\ routes'.sessions = ss /\ DOMAIN routes' = DOMAIN routes
  BY DEF ManifestFits
<1> QED
  BY <1>1 DEF ManifestFits

\* A session is opened for a key that is trusted.
LEMMA HelloEcho ==
  ASSUME EnrolInv, EchoInv, NEW a \in Holders, Hello(a)
  PROVE  EchoInv'
<1>1. PICK s : s = [aid |-> a, created |-> seconds]
  OBVIOUS
<1>2. PICK ss : ss = routes.sessions \cup {s}
  OBVIOUS
<1>3. routes' = [routes EXCEPT !.sessions = ss] /\ UNCHANGED <<seconds, next_refresh>>
  BY <1>1, <1>2 DEF Hello
<1>4. ManifestFits' /\ routes'.sessions = ss
  BY <1>3, SessionsChange DEF EchoInv
<1>5. OpenFits(s)'
  <2>1. IsTrusted(a)
    BY DEF Hello
  <2>2. \E k \in Recent : inserted[k].aid = a /\ inserted[k].expires_at >= seconds
    BY <2>1, EnrolmentFollows DEF EnrolmentSound
  <2>3. PICK k \in DOMAIN inserted : inserted[k].aid = a /\ inserted[k].expires_at >= seconds
    BY <2>2 DEF Recent
  <2>4. inserted \in Seq(Rows) /\ seconds \in Nat
    BY DEF EnrolInv, QueueFits
  <2>5. inserted[k].expires_at \in Nat
    <3>1. inserted[k] \in Rows
      BY <2>4
    <3> QED
      BY <3>1 DEF Rows
  <2>6. seconds <= inserted[k].expires_at
    BY <2>3, <2>4, <2>5
  <2>7. s.aid = a /\ s.created = seconds
    BY <1>1
  <2>8. UNCHANGED inserted
    BY DEF Hello, history
  <2> QED
    BY <2>3, <2>4, <2>6, <2>7, <2>8 DEF OpenFits
<1>6. \A x \in routes'.sessions : x \in routes.sessions \/ OpenFits(x)'
  BY <1>2, <1>4, <1>5
<1> QED
  BY <1>4, <1>6, RoutesStep DEF Hello, history

\* What is issued for a second at least lapses with its manifest or its
\* lifetime.
LEMMA LeastFits ==
  ASSUME NEW t \in Nat, NEW y \in Nat, Least(TCT_TTL, y - t) >= 1
  PROVE  t + Least(TCT_TTL, y - t) \in Nat /\ t + Least(TCT_TTL, y - t) <= t + TCT_TTL
<1>1. TCT_TTL \in Nat
  BY InteropAssumption
<1>2. CASE TCT_TTL < y - t
  BY <1>1, <1>2 DEF Least
<1>3. CASE ~(TCT_TTL < y - t)
  BY <1>1, <1>3 DEF Least
<1> QED
  BY <1>2, <1>3

\* Where the manifest served stands.
LEMMA ServedManifest ==
  ASSUME ManifestFits, seconds \in Nat
  PROVE  /\ routes.manifest.expires_at \in Nat /\ seconds <= routes.manifest.expires_at
         /\ VerifyManifest(routes.manifest, seconds, FALSE, None) = "ok"
<1>1. PICK b \in Nat : routes.manifest = InteropManifest(b) /\ next_refresh <= b + Half
  BY DEF ManifestFits
<1>2. seconds <= b + MANIFEST_TTL /\ b + MANIFEST_TTL \in Nat
  <2>1. next_refresh \in Nat /\ seconds <= next_refresh + Half
    BY DEF ManifestFits
  <2> QED
    BY <1>1, <2>1, HalfTwice
<1>3. PICK m : m = routes.manifest
  OBVIOUS
<1>4. /\ m.expires_at = b + MANIFEST_TTL
      /\ \A t \in Nat : t <= b + MANIFEST_TTL => VerifyManifest(m, t, FALSE, None) = "ok"
  BY <1>1, <1>3, OwnManifest
<1>5. VerifyManifest(m, seconds, FALSE, None) = "ok"
  BY <1>2, <1>4
<1> QED
  BY <1>2, <1>3, <1>4, <1>5

\* A COMMIT takes the session of a HELLO, in time after it.
LEMMA TakeEcho ==
  ASSUME EnrolInv, EchoInv, NEW h \in Requests, NEW s \in routes.sessions, CommitTake(h, s)
  PROVE  EchoInv'
<1>1. PICK ss, b : ss = routes.sessions \ {s} /\ b = [session |-> s, manifest |-> routes.manifest]
  OBVIOUS
<1>2. PICK now0 : now0 = seconds
  OBVIOUS
<1>3. PICK w : w = [Idle EXCEPT !.pc = "commit", !.now = now0, !.body = b]
  OBVIOUS
<1>4. /\ routes' = [routes EXCEPT !.sessions = ss] /\ Work(h, w)
      /\ UNCHANGED <<seconds, next_refresh, echo_nonces, challenged, answers, tcts, inserted, echoed>>
  BY <1>1, <1>2, <1>3 DEF CommitTake, history
<1>5. ManifestFits' /\ routes'.sessions = ss
  BY <1>4, SessionsChange DEF EchoInv
<1>6. w.pc = "commit" /\ w.now = now0 /\ w.body = b /\ b.session = s /\ b.manifest = routes.manifest
  BY <1>1, <1>3 DEF Idle
<1>7. OpenFits(s) /\ now0 \in Nat /\ now0 - s.created <= SESSION_TTL
  BY <1>2 DEF EchoInv, EnrolInv, QueueFits, CommitTake
<1>8. PICK y : y = routes.manifest.expires_at
  OBVIOUS
<1>9. y \in Nat /\ b.manifest.expires_at = y
  BY <1>2, <1>6, <1>7, <1>8, ServedManifest DEF EchoInv
<1>10. RequestFits(w)'
  <2>1. OpenFits(s)'
    BY <1>4, <1>7 DEF OpenFits
  <2> QED
    BY <1>6, <1>7, <1>9, <2>1 DEF RequestFits, PresentedFits, CommitFits
<1>11. \A g \in Requests : working'[g] = working[g] \/ RequestFits(working[g])'
  BY <1>4, <1>10, WorkLeaves
<1>12. Grown
  BY <1>4 DEF Grown, Extends
<1>13. SlotsFit'
  BY <1>4 DEF EchoInv, SlotsFit
<1>14. \A e \in echoed' : (e \in echoed \/ EchoFits(e)') /\ echo_nonces'[e.nonce] = None
  BY <1>4 DEF EchoInv
<1>15. \A e, f \in echoed' : e.nonce = f.nonce => e = f
  BY <1>4 DEF EchoInv
<1>16. /\ \A t \in tcts' : t \in tcts \/ IssuedFits(t)'
       /\ \A x \in routes'.sessions : x \in routes.sessions \/ OpenFits(x)'
       /\ \A env \in answers' : env \in answers \/ BodyFits(env)'
  BY <1>1, <1>4, <1>5
<1> QED
  BY <1>5, <1>11, <1>12, <1>13, <1>14, <1>15, <1>16, StepFits

\* A token for the subject, by the clock at its issue.
LEMMA TokenIssued ==
  ASSUME NEW a, NEW ttl, NEW j, NEW now0, NEW d,
         d = [subject |-> a, audience |-> a, subject_pubkey |-> a, grants |-> {ECHO_CAP},
              ttl |-> ttl, jti |-> j, ext |-> FALSE, attestation |-> FALSE, mint_voucher |-> TRUE],
         NEW t, t = BuiltTct(Peer, d, now0)
  PROVE  t.sub = a /\ t.exp = now0 + ttl
<1>1. d.attestation = FALSE /\ d.subject = a /\ d.ttl = ttl
  OBVIOUS
<1>2. Attesting(Peer, d) = d
  BY <1>1 DEF Attesting
<1> QED
  BY <1>1, <1>2 DEF BuiltTct

\* It issues the token while its request lasts, whatever became of the routes.
LEMMA IssueEcho ==
  ASSUME EnrolInv, EchoInv, NEW h \in Requests, CommitIssue(h)
  PROVE  EchoInv'
<1>1. PICK w0, s, y, now0 : /\ w0 = working[h] /\ s = w0.body.session
                            /\ y = w0.body.manifest.expires_at /\ now0 = seconds
  OBVIOUS
<1>2. PICK ttl, j : ttl = Least(TCT_TTL, y - now0) /\ j = FreshJti
  OBVIOUS
<1>3. PICK d : d = [subject |-> s.aid, audience |-> s.aid, subject_pubkey |-> s.aid, grants |-> {ECHO_CAP},
                    ttl |-> ttl, jti |-> j, ext |-> FALSE, attestation |-> FALSE, mint_voucher |-> TRUE]
  OBVIOUS
<1>4. PICK t : t = BuiltTct(Peer, d, now0)
  OBVIOUS
<1>5. /\ tcts' = tcts \cup {t} /\ Work(h, Idle) /\ ttl >= 1
      /\ w0.pc = "commit" /\ now0 <= w0.now + REQUEST_TIMEOUT
      /\ UNCHANGED <<seconds, routes, next_refresh, echo_nonces, challenged, answers, inserted, echoed>>
  BY <1>1, <1>2, <1>3, <1>4 DEF CommitIssue
<1>6. t.sub = s.aid /\ t.exp = now0 + ttl
  <2>1. PICK a : a = s.aid
    OBVIOUS
  <2>2. t.sub = a /\ t.exp = now0 + ttl
    BY <1>3, <1>4, <2>1, TokenIssued
  <2> QED
    BY <2>1, <2>2
<1>7. now0 \in Nat /\ inserted \in Seq(Rows)
  BY <1>1 DEF EnrolInv, QueueFits
<1>8. OpenFits(s) /\ w0.now \in Nat /\ w0.now - s.created <= SESSION_TTL /\ y \in Nat
  BY <1>1, <1>5 DEF EchoInv, RequestFits, CommitFits
<1>9. PICK k \in DOMAIN inserted : inserted[k].aid = s.aid /\ s.created <= inserted[k].expires_at
  BY <1>8 DEF OpenFits
<1>10. PICK c, x, taken : c = s.created /\ x = inserted[k].expires_at /\ taken = w0.now
  OBVIOUS
<1>11. /\ c \in Nat /\ x \in Nat /\ taken \in Nat /\ c <= x
       /\ taken - c <= SESSION_TTL /\ now0 <= taken + REQUEST_TIMEOUT
  <2>1. inserted[k] \in Rows
    BY <1>7, <1>9
  <2>2. x \in Nat
    BY <1>10, <2>1 DEF Rows
  <2> QED
    BY <1>5, <1>8, <1>9, <1>10, <2>2 DEF OpenFits
<1>12. t.exp \in Nat /\ t.exp <= now0 + TCT_TTL
  BY <1>2, <1>5, <1>6, <1>7, <1>8, LeastFits
<1>13. t.exp <= x + Lag
  <2>1. SESSION_TTL \in Nat /\ REQUEST_TIMEOUT \in Nat /\ TCT_TTL \in Nat
    BY InteropAssumption
  <2>2. t.exp <= x + SESSION_TTL + REQUEST_TIMEOUT + TCT_TTL
    BY <1>7, <1>11, <1>12, <2>1
  <2> QED
    BY <1>11, <2>1, <2>2 DEF Lag
<1>14. IssuedFits(t)'
  <2>1. IssuedFits(t)
    BY <1>6, <1>9, <1>10, <1>12, <1>13 DEF IssuedFits
  <2> QED
    BY <1>5, <2>1 DEF IssuedFits
<1>15. PICK w : w = Idle
  OBVIOUS
<1>16. Work(h, w) /\ w.pc = "idle"
  BY <1>5, <1>15 DEF Idle
<1>17. RequestFits(w)'
  BY <1>16, NotPresented
<1>18. \A g \in Requests : working'[g] = working[g] \/ RequestFits(working[g])'
  BY <1>16, <1>17, WorkLeaves
<1>19. Grown
  BY <1>5 DEF Grown, Extends
<1>20. SlotsFit' /\ ManifestFits'
  BY <1>5 DEF EchoInv, SlotsFit, ManifestFits
<1>21. \A e \in echoed' : (e \in echoed \/ EchoFits(e)') /\ echo_nonces'[e.nonce] = None
  BY <1>5 DEF EchoInv
<1>22. \A e, f \in echoed' : e.nonce = f.nonce => e = f
  BY <1>5 DEF EchoInv
<1>23. /\ \A u \in tcts' : u \in tcts \/ IssuedFits(u)'
       /\ \A u \in routes'.sessions : u \in routes.sessions \/ OpenFits(u)'
       /\ \A env \in answers' : env \in answers \/ BodyFits(env)'
  BY <1>5, <1>14
<1> QED
  BY <1>18, <1>19, <1>20, <1>21, <1>22, <1>23, StepFits

\* A COMMIT comes to nothing.
LEMMA DropEcho ==
  ASSUME EnrolInv, EchoInv, NEW h \in Requests, CommitDropped(h)
  PROVE  EchoInv'
<1>1. PICK w : w = Idle
  OBVIOUS
<1>2. Work(h, w) /\ w.pc = "idle"
  BY <1>1 DEF CommitDropped, Idle
<1>3. RequestFits(w)'
  BY <1>2, NotPresented
<1> QED
  BY <1>2, <1>3, WorkLeaves, EchoAside, SameEnrolments DEF CommitDropped, history

\* The manifest is signed anew, and later again.
LEMMA RebuildEcho ==
  ASSUME EnrolInv, EchoInv, Rebuild
  PROVE  EchoInv'
<1>1. seconds \in Nat /\ next_refresh \in Nat /\ Half \in Nat /\ seconds >= next_refresh
      /\ seconds <= next_refresh + Half
  BY HalfTwice DEF EnrolInv, QueueFits, EchoInv, ManifestFits, Rebuild
<1>2. next_refresh' = next_refresh + Half /\ seconds' = seconds
  BY DEF Rebuild, Half
<1>3. next_refresh' \in Nat /\ seconds' <= next_refresh' + Half /\ next_refresh' <= seconds + Half
  BY <1>1, <1>2
<1>4. PICK b : b = seconds
  OBVIOUS
<1>5. /\ DOMAIN routes' = {"manifest", "sessions"} /\ routes'.manifest = InteropManifest(b)
      /\ routes'.sessions = {}
  BY <1>4 DEF Rebuild, Routes
<1>6. ManifestFits'
  BY <1>1, <1>3, <1>4, <1>5 DEF ManifestFits
<1> QED
  BY <1>5, <1>6, RoutesStep DEF Rebuild, history

\* The clock advances while the refresh is not long past due.
LEMMA TickEcho ==
  ASSUME EnrolInv, EchoInv, IpTick
  PROVE  EchoInv'
<1>1. seconds \in Nat /\ next_refresh \in Nat /\ Half \in Nat /\ seconds < next_refresh + Half
      /\ seconds' = seconds + 1
  BY HalfTwice DEF EnrolInv, QueueFits, EchoInv, ManifestFits, IpTick, Half
<1>2. seconds' <= next_refresh + Half
  BY <1>1
<1>3. UNCHANGED <<routes, next_refresh>>
  BY DEF IpTick
<1>4. ManifestFits'
  BY <1>2, <1>3 DEF EchoInv, ManifestFits
<1> QED
  BY <1>3, <1>4, RoutesStep DEF IpTick, history

\* The echo challenges are within their bound.
LEMMA ChallengedFew ==
  ASSUME SlotsFit
  PROVE  /\ DOMAIN challenged = 1..Len(challenged) /\ Len(challenged) \in Nat
         /\ DOMAIN challenged \subseteq 1..MaxEchoes
<1>1. MaxEchoes \in Nat
  BY InteropAssumption
<1>2. PICK S : challenged \in Seq(S)
  BY DEF SlotsFit
<1>3. PICK l \in Nat : l = Len(challenged) /\ DOMAIN challenged = 1..l
  BY <1>2
<1>4. l <= MaxEchoes
  BY <1>3 DEF SlotsFit
<1>5. 1..l \subseteq 1..MaxEchoes
  BY <1>1, <1>4
<1> QED
  BY <1>3, <1>5

\* A restart: the challenges and the sessions are forgotten.
LEMMA RestartEcho ==
  ASSUME EnrolInv, EchoInv, Restart
  PROVE  EchoInv'
<1>1. /\ UNCHANGED <<seconds, challenged, answers, tcts, inserted, echoed>>
      /\ echo_nonces' = [k \in 1..MaxEchoes |-> None] /\ working' = [h \in Requests |-> Idle]
      /\ routes' = Routes(seconds) /\ next_refresh' = seconds + Half
  BY DEF Restart, Started, Half
<1>2. PICK b : b = seconds
  OBVIOUS
<1>3. /\ DOMAIN routes' = {"manifest", "sessions"} /\ routes'.manifest = InteropManifest(b)
      /\ routes'.sessions = {}
  BY <1>1, <1>2 DEF Routes
<1>4. b \in Nat /\ Half \in Nat /\ next_refresh' \in Nat /\ seconds' <= next_refresh' + Half
      /\ next_refresh' <= b + Half
  <2>1. seconds \in Nat /\ Half \in Nat
    BY HalfTwice DEF EnrolInv, QueueFits
  <2> QED
    BY <1>1, <1>2, <2>1
<1>5. ManifestFits'
  BY <1>3, <1>4 DEF ManifestFits
<1>6. \A n \in 1..MaxEchoes : echo_nonces'[n] = None
  BY <1>1
<1>7. SlotsFit'
  BY <1>1, <1>6 DEF EchoInv, SlotsFit
<1>8. \A e \in echoed : e.nonce \in 1..MaxEchoes
  <2>1. DOMAIN challenged \subseteq 1..MaxEchoes
    BY ChallengedFew DEF EchoInv
  <2> QED
    BY <2>1 DEF EchoInv, EchoFits
<1>9. Grown
  BY <1>1 DEF Grown, Extends
<1>10. \A h \in Requests : working'[h] = working[h] \/ RequestFits(working[h])'
  <2>1. Idle.pc = "idle"
    BY DEF Idle
  <2>2. \A h \in Requests : working'[h].pc = "idle"
    BY <1>1, <2>1
  <2> QED
    BY <2>2 DEF RequestFits, PresentedFits, CommitFits
<1>11. \A e \in echoed' : (e \in echoed \/ EchoFits(e)') /\ echo_nonces'[e.nonce] = None
  BY <1>1, <1>6, <1>8
<1>12. \A e, f \in echoed' : e.nonce = f.nonce => e = f
  BY <1>1 DEF EchoInv
<1>13. /\ \A t \in tcts' : t \in tcts \/ IssuedFits(t)'
       /\ \A s \in routes'.sessions : s \in routes.sessions \/ OpenFits(s)'
       /\ \A env \in answers' : env \in answers \/ BodyFits(env)'
  BY <1>1, <1>3
<1> QED
  BY <1>5, <1>7, <1>9, <1>10, <1>11, <1>12, <1>13, StepFits

\* What a store drops, and what it keeps.
LEMMA DroppedSlots ==
  ASSUME NEW s, NEW dropped, NEW s2, s2 = Dropping(s, dropped)
  PROVE  DOMAIN s2 = DOMAIN s /\ \A n \in DOMAIN s : s2[n] = None \/ s2[n] = s[n]
BY DEF Dropping

\* A challenge for a token.
LEMMA ChallengeEcho ==
  ASSUME EchoInv, NEW t, NEW dropped, EchoChallenge(t, dropped)
  PROVE  EchoInv'
<1>1. PICK n, left, slot :
        /\ n = Len(challenged) + 1 /\ left = Dropping(echo_nonces, dropped)
        /\ slot = [jti |-> t.jti, expires_at |-> seconds + CHALLENGE_TTL]
  OBVIOUS
<1>2. /\ n <= MaxEchoes /\ echo_nonces' = [left EXCEPT ![n] = slot]
      /\ challenged' = Append(challenged, t.jti)
  BY <1>1 DEF EchoChallenge
<1>3. /\ DOMAIN challenged = 1..Len(challenged) /\ Len(challenged) \in Nat
      /\ DOMAIN challenged \subseteq 1..MaxEchoes /\ MaxEchoes \in Nat
  BY ChallengedFew, InteropAssumption DEF EchoInv
<1>4. n \in 1..MaxEchoes /\ n \notin DOMAIN challenged
  BY <1>1, <1>2, <1>3
<1>5. /\ DOMAIN echo_nonces = 1..MaxEchoes
      /\ \A k \in 1..MaxEchoes :
           echo_nonces[k] # None => k \in DOMAIN challenged /\ echo_nonces[k].jti = challenged[k]
  BY DEF EchoInv, SlotsFit
<1>6. DOMAIN left = 1..MaxEchoes /\ \A k \in 1..MaxEchoes : left[k] = None \/ left[k] = echo_nonces[k]
  <2>1. DOMAIN left = DOMAIN echo_nonces /\ \A k \in DOMAIN echo_nonces : left[k] = None \/ left[k] = echo_nonces[k]
    BY <1>1, DroppedSlots
  <2> QED
    BY <1>5, <2>1
<1>7. /\ DOMAIN echo_nonces' = 1..MaxEchoes /\ echo_nonces'[n] = slot
      /\ \A k \in 1..MaxEchoes \ {n} : echo_nonces'[k] = left[k]
  BY <1>2, <1>4, <1>6
<1>8. PICK S : challenged \in Seq(S)
  BY DEF EchoInv, SlotsFit
<1>9. /\ Extends(challenged, challenged') /\ \E T : challenged' \in Seq(T)
      /\ Len(challenged') = n /\ challenged'[n] = t.jti /\ DOMAIN challenged' = 1..n
  <2>1. PICK x, c2 : x = t.jti /\ c2 = Append(challenged, x)
    OBVIOUS
  <2>2. /\ Extends(challenged, c2) /\ \E T : c2 \in Seq(T)
        /\ Len(c2) = Len(challenged) + 1 /\ c2[Len(challenged) + 1] = x
        /\ DOMAIN c2 = 1..(Len(challenged) + 1)
    BY <1>8, <2>1, AppendExtends
  <2>3. challenged' = c2
    BY <1>2, <2>1
  <2> QED
    BY <1>1, <2>1, <2>2, <2>3
<1>10. SlotsFit'
  <2>1. ASSUME NEW k \in 1..MaxEchoes, echo_nonces'[k] # None
        PROVE  k \in DOMAIN challenged' /\ echo_nonces'[k].jti = challenged'[k]
    <3>1. CASE k = n
      <4>1. n \in DOMAIN challenged'
        BY <1>3, <1>1, <1>9
      <4> QED
        BY <1>1, <1>7, <1>9, <3>1, <4>1
    <3>2. CASE k # n
      <4>1. echo_nonces'[k] = echo_nonces[k] /\ echo_nonces[k] # None
        BY <1>6, <1>7, <2>1, <3>2
      <4>2. k \in DOMAIN challenged /\ echo_nonces[k].jti = challenged[k]
        BY <1>5, <4>1
      <4> QED
        BY <1>9, <4>1, <4>2 DEF Extends
    <3> QED
      BY <3>1, <3>2
  <2> QED
    BY <1>2, <1>7, <1>9, <2>1 DEF SlotsFit
<1>11. UNCHANGED <<seconds, routes, next_refresh, working, answers, tcts, inserted, echoed>>
  BY DEF EchoChallenge
<1>12. Grown
  BY <1>9, <1>11 DEF Grown, Extends
<1>13. ManifestFits'
  BY <1>11 DEF EchoInv, ManifestFits
<1>14. ASSUME NEW e \in echoed' PROVE (e \in echoed \/ EchoFits(e)') /\ echo_nonces'[e.nonce] = None
  <2>1. e \in echoed /\ e.nonce \in DOMAIN challenged /\ echo_nonces[e.nonce] = None
    BY <1>11, <1>14 DEF EchoInv, EchoFits
  <2>2. e.nonce \in 1..MaxEchoes \ {n}
    BY <1>3, <1>4, <2>1
  <2>3. echo_nonces'[e.nonce] = left[e.nonce] /\ left[e.nonce] = None
    BY <1>6, <1>7, <2>1, <2>2
  <2> QED
    BY <2>1, <2>3
<1>15. \A e, f \in echoed' : e.nonce = f.nonce => e = f
  BY <1>11 DEF EchoInv
<1>16. /\ \A u \in tcts' : u \in tcts \/ IssuedFits(u)'
       /\ \A s \in routes'.sessions : s \in routes.sessions \/ OpenFits(s)'
       /\ \A env \in answers' : env \in answers \/ BodyFits(env)'
  BY <1>11
<1> QED
  BY <1>10, <1>11, <1>12, <1>13, <1>14, <1>15, <1>16, SameWork, StepFits

\* A challenge that reaches a holder names one that was given out.
LEMMA ChallengesName ==
  ASSUME NEW env \in Challenges
  PROVE  env.payload.nonce \in DOMAIN challenged
<1> DEFINE Sent(k) == ChallengeEnvelope(Peer, challenged[k], k)
           Made(w, t, k) == ChallengeEnvelope(w, t.jti, k)
           sent == {Sent(k) : k \in DOMAIN challenged}
           made == {Made(w, t, k) : w \in Wild, t \in tcts, k \in DOMAIN challenged}
<1>1. env \in sent \cup made
  BY DEF Challenges
<1>2. ASSUME NEW k \in DOMAIN challenged, env = Sent(k) PROVE env.payload.nonce \in DOMAIN challenged
  <2>1. PICK w, j, n : w = Peer /\ j = challenged[k] /\ n = k
    OBVIOUS
  <2>2. env = ChallengeEnvelope(w, j, n)
    BY <1>2, <2>1
  <2> QED
    BY <2>1, <2>2, ChallengeMade
<1>3. ASSUME NEW w \in Wild, NEW t \in tcts, NEW k \in DOMAIN challenged, env = Made(w, t, k)
      PROVE  env.payload.nonce \in DOMAIN challenged
  <2>1. PICK j, n : j = t.jti /\ n = k
    OBVIOUS
  <2>2. env = ChallengeEnvelope(w, j, n)
    BY <1>3, <2>1
  <2> QED
    BY <2>1, <2>2, ChallengeMade
<1> HIDE DEF Sent, Made
<1>4. ASSUME env \in sent PROVE \E k \in DOMAIN challenged : env = Sent(k)
  BY <1>4
<1>5. ASSUME env \in made PROVE \E w \in Wild, t \in tcts, k \in DOMAIN challenged : env = Made(w, t, k)
  BY <1>5
<1> HIDE DEF sent, made
<1> QED
  BY <1>1, <1>2, <1>3, <1>4, <1>5

\* A holder answers a challenge.
LEMMA RespondEcho ==
  ASSUME EchoInv, NEW t \in tcts, NEW env \in Challenges, Respond(t, env)
  PROVE  EchoInv'
<1>1. PICK c, w, p, r : c = env.payload /\ w = t.sub /\ p = SignPopResponse(c, w) /\ r = ResponseEnvelope(w, p)
  OBVIOUS
<1>2. answers' = answers \cup {r}
  BY <1>1 DEF Respond
<1>3. UNCHANGED <<seconds, echo_nonces, routes, next_refresh, working, challenged, tcts, inserted, echoed>>
  BY DEF Respond
<1>4. r.payload = p
  BY <1>1, ResponseMade
<1>5. p.nonce_echo = c.nonce
  BY <1>1 DEF SignPopResponse
<1>6. c.nonce \in DOMAIN challenged
  BY <1>1, ChallengesName
<1>7. BodyFits(r)'
  BY <1>2, <1>3, <1>4, <1>5, <1>6 DEF BodyFits
<1>8. Grown
  BY <1>2, <1>3 DEF Grown, Extends
<1>9. SlotsFit' /\ ManifestFits'
  BY <1>3 DEF EchoInv, SlotsFit, ManifestFits
<1>10. \A e \in echoed' : (e \in echoed \/ EchoFits(e)') /\ echo_nonces'[e.nonce] = None
  BY <1>3 DEF EchoInv
<1>11. \A e, f \in echoed' : e.nonce = f.nonce => e = f
  BY <1>3 DEF EchoInv
<1>12. /\ \A u \in tcts' : u \in tcts \/ IssuedFits(u)'
       /\ \A s \in routes'.sessions : s \in routes.sessions \/ OpenFits(s)'
       /\ \A x \in answers' : x \in answers \/ BodyFits(x)'
  BY <1>2, <1>3, <1>7
<1> QED
  BY <1>3, <1>8, <1>9, <1>10, <1>11, <1>12, SameWork, StepFits

\* A token and an answer are presented.
LEMMA PresentEcho ==
  ASSUME EnrolInv, EchoInv, NEW h \in Requests, Echo(h)
  PROVE  EchoInv'
<1>1. PICK t \in tcts \cup OtherTokens, env \in Responses :
        VerifyOwnTct(t, seconds) = "ok" /\ Work(h, [pc |-> "answer", body |-> env, tct |-> t, now |-> seconds])
  BY DEF Echo
<1>2. PICK now0 : now0 = seconds
  OBVIOUS
<1>3. PICK w : w = [pc |-> "answer", body |-> env, tct |-> t, now |-> now0]
  OBVIOUS
<1>4. Work(h, w)
  BY <1>1, <1>2, <1>3
<1>5. now0 \in Nat /\ VerifyOwnTct(t, now0) = "ok"
  BY <1>1, <1>2 DEF EnrolInv, QueueFits
<1>6. t \in tcts => t.exp \in Nat
  BY DEF EchoInv, IssuedFits
<1>7. t \in tcts /\ now0 <= t.exp
  BY <1>5, <1>6, OwnTokenMeans
<1>8. BodyFits(env)
  BY ResponsesFit
<1>9. w.pc = "answer" /\ w.now = now0 /\ w.tct = t /\ w.body = env
  BY <1>3
<1>10. UNCHANGED <<seconds, echo_nonces, routes, next_refresh, challenged, answers, tcts, echoed, inserted>>
  BY DEF Echo, history
<1>11. RequestFits(w)'
  BY <1>5, <1>7, <1>8, <1>9, <1>10 DEF RequestFits, PresentedFits, CommitFits, BodyFits
<1> QED
  BY <1>4, <1>10, <1>11, WorkLeaves, EchoAside, SameEnrolments

\* The challenge is consumed, and the answer to it is looked at.
LEMMA CheckedEcho ==
  ASSUME EnrolInv, EchoInv, NEW h \in Requests, NEW dropped, CheckEcho(h, dropped)
  PROVE  EchoInv'
<1>1. PICK t, env, now0, n :
        t = working[h].tct /\ env = working[h].body /\ now0 = working[h].now /\ n = env.payload.nonce_echo
  OBVIOUS
<1>2. PresentedFits(working[h]) /\ working[h].pc = "answer"
  BY DEF EchoInv, RequestFits, CheckEcho
<1>3. /\ now0 \in Nat /\ t \in tcts /\ now0 <= t.exp /\ n \in DOMAIN challenged
      /\ env \in answers \/ env.sender \in Wild
  BY <1>1, <1>2 DEF PresentedFits, BodyFits
<1>4. UNCHANGED <<seconds, routes, next_refresh, challenged, answers, tcts, inserted>> /\ Work(h, Idle)
  BY DEF CheckEcho
<1>5. n \in 1..MaxEchoes
  BY <1>3, ChallengedFew DEF EchoInv
<1>6. /\ DOMAIN echo_nonces = 1..MaxEchoes
      /\ \A k \in 1..MaxEchoes :
           echo_nonces[k] # None => k \in DOMAIN challenged /\ echo_nonces[k].jti = challenged[k]
  BY DEF EchoInv, SlotsFit
<1>7. /\ DOMAIN echo_nonces' = 1..MaxEchoes
      /\ \A k \in 1..MaxEchoes : echo_nonces'[k] = None \/ echo_nonces'[k] = echo_nonces[k]
      /\ EchoSlot(t.jti, n) => echo_nonces'[n] = None
  <2>1. CASE EchoSlot(t.jti, n)
    <3>1. echo_nonces' = [echo_nonces EXCEPT ![n] = None]
      BY <1>1, <2>1 DEF CheckEcho
    <3> QED
      BY <1>5, <1>6, <3>1
  <2>2. CASE ~EchoSlot(t.jti, n)
    <3>1. echo_nonces' = Dropping(echo_nonces, dropped)
      BY <1>1, <2>2 DEF CheckEcho
    <3>2. PICK s2 : s2 = Dropping(echo_nonces, dropped)
      OBVIOUS
    <3>3. DOMAIN s2 = DOMAIN echo_nonces /\ \A k \in DOMAIN echo_nonces : s2[k] = None \/ s2[k] = echo_nonces[k]
      BY <3>2, DroppedSlots
    <3> QED
      BY <1>6, <2>2, <3>1, <3>2, <3>3
  <2> QED
    BY <2>1, <2>2
<1>8. SlotsFit'
  <2>1. \A k \in 1..MaxEchoes :
          echo_nonces'[k] # None => k \in DOMAIN challenged /\ echo_nonces'[k].jti = challenged[k]
    BY <1>6, <1>7
  <2> QED
    BY <1>4, <1>7, <2>1 DEF EchoInv, SlotsFit
<1>9. PICK e0 : e0 = [tct |-> t, nonce |-> n, now |-> now0, nth |-> Cardinality(echoed)]
  OBVIOUS
<1>10. \/ UNCHANGED echoed
       \/ echoed' = echoed \cup {e0} /\ EchoSlot(t.jti, n) /\ EchoVerdict(t, env, now0) = "ok"
  <2>1. CASE EchoSlot(t.jti, n)
    <3>1. echoed' = IF echo_nonces[n].expires_at >= now0 /\ EchoVerdict(t, env, now0) = "ok"
                    THEN echoed \cup {e0} ELSE echoed
      BY <1>1, <1>9, <2>1 DEF CheckEcho
    <3> QED
      BY <2>1, <3>1
  <2>2. CASE ~EchoSlot(t.jti, n)
    BY <1>1, <2>2 DEF CheckEcho
  <2> QED
    BY <2>1, <2>2
<1>11. ASSUME NEW e \in echoed PROVE echo_nonces'[e.nonce] = None
  <2>1. e.nonce \in DOMAIN challenged /\ echo_nonces[e.nonce] = None
    BY DEF EchoInv, EchoFits
  <2>2. e.nonce \in 1..MaxEchoes
    BY <2>1, ChallengedFew DEF EchoInv
  <2> QED
    BY <1>7, <2>1, <2>2
<1>12. ASSUME EchoSlot(t.jti, n), EchoVerdict(t, env, now0) = "ok"
       PROVE  EchoFits(e0)' /\ echo_nonces'[n] = None /\ \A e \in echoed : e.nonce # n
  <2>1. echo_nonces[n] # None /\ challenged[n] = t.jti
    BY <1>5, <1>6, <1>12 DEF EchoSlot
  <2>2. env.sender = t.sub /\ env.payload.tct_jti = t.jti
    BY <1>12, EchoVerdictMeans
  <2>3. e0.tct = t /\ e0.nonce = n /\ e0.now = now0
    BY <1>9
  <2>4. EchoFits(e0)'
    BY <1>1, <1>3, <1>4, <2>1, <2>2, <2>3 DEF EchoFits
  <2>5. \A e \in echoed : echo_nonces[e.nonce] = None
    BY DEF EchoInv
  <2> QED
    BY <1>7, <1>12, <2>1, <2>4, <2>5
<1>13. e0.nonce = n
  BY <1>9
<1>14. \A e \in echoed' : (e \in echoed \/ EchoFits(e)') /\ echo_nonces'[e.nonce] = None
  <2>1. CASE UNCHANGED echoed
    BY <1>11, <2>1
  <2>2. CASE echoed' = echoed \cup {e0} /\ EchoSlot(t.jti, n) /\ EchoVerdict(t, env, now0) = "ok"
    BY <1>11, <1>12, <1>13, <2>2
  <2> QED
    BY <1>10, <2>1, <2>2
<1>15. \A e, f \in echoed' : e.nonce = f.nonce => e = f
  <2>1. \A e, f \in echoed : e.nonce = f.nonce => e = f
    BY DEF EchoInv
  <2>2. CASE UNCHANGED echoed
    BY <2>1, <2>2
  <2>3. CASE echoed' = echoed \cup {e0} /\ EchoSlot(t.jti, n) /\ EchoVerdict(t, env, now0) = "ok"
    BY <1>12, <1>13, <2>1, <2>3
  <2> QED
    BY <1>10, <2>2, <2>3
<1>16. ManifestFits'
  BY <1>4 DEF EchoInv, ManifestFits
<1>17. Grown
  BY <1>4 DEF Grown, Extends
<1>18. \A g \in Requests : working'[g] = working[g] \/ RequestFits(working[g])'
  <2>1. PICK w : w = Idle
    OBVIOUS
  <2>2. Work(h, w) /\ w.pc = "idle"
    BY <1>4, <2>1 DEF Idle
  <2>3. RequestFits(w)'
    BY <2>2, NotPresented
  <2> QED
    BY <2>2, <2>3, WorkLeaves
<1>19. /\ \A u \in tcts' : u \in tcts \/ IssuedFits(u)'
       /\ \A s \in routes'.sessions : s \in routes.sessions \/ OpenFits(s)'
       /\ \A x \in answers' : x \in answers \/ BodyFits(x)'
  BY <1>4
<1> QED
  BY <1>8, <1>14, <1>15, <1>16, <1>17, <1>18, <1>19, StepFits

\* Nothing is issued, challenged or echoed at the start.
LEMMA EchoStarts == IpInit => EchoInv
<1> SUFFICES ASSUME IpInit PROVE EchoInv
  OBVIOUS
<1>1. /\ challenged = << >> /\ answers = {} /\ tcts = {} /\ echoed = {} /\ seconds = 0
      /\ echo_nonces = [k \in 1..MaxEchoes |-> None] /\ working = [h \in Requests |-> Idle]
      /\ routes = Routes(0) /\ next_refresh = Half
  BY DEF IpInit, Half
<1>2. SlotsFit
  <2>1. challenged \in Seq({}) /\ Len(challenged) = 0
    BY <1>1
  <2>2. MaxEchoes \in Nat
    BY InteropAssumption
  <2>3. Len(challenged) <= MaxEchoes
    BY <2>1, <2>2
  <2> QED
    BY <1>1, <2>1, <2>3 DEF SlotsFit
<1>3. /\ DOMAIN routes = {"manifest", "sessions"} /\ routes.manifest = InteropManifest(0)
      /\ routes.sessions = {}
  BY <1>1 DEF Routes
<1>4. ManifestFits
  <2>1. Half \in Nat /\ Half <= 0 + Half /\ 0 <= Half + Half
    BY HalfTwice
  <2> QED
    BY <1>1, <1>3, <2>1 DEF ManifestFits
<1>5. \A h \in Requests : RequestFits(working[h])
  BY <1>1 DEF RequestFits, PresentedFits, CommitFits, Idle
<1> QED
  BY <1>1, <1>2, <1>3, <1>4, <1>5 DEF EchoInv

\* Every step keeps the tokens, the challenges and the echoes in order.
LEMMA EchoSteps ==
  ASSUME EnrolInv, EchoInv, [IpNext]_ipVars
  PROVE  EchoInv'
<1>1. CASE \E dropped \in SUBSET Outstanding(nonces) : EnrollChallenge(dropped)
  BY <1>1, EnrolmentAside
<1>2. CASE \E h \in Requests : Enroll(h)
  BY <1>2, EnrolmentAside
<1>3. CASE \E h \in Requests, dropped \in SUBSET Outstanding(nonces) : ConsumeEnrolment(h, dropped)
  BY <1>3, EnrolmentAside
<1>4. CASE \E h \in Requests : InsertEnrolment(h)
  BY <1>4, EnrolmentAside
<1>5. CASE Status
  BY <1>5, EnrolmentAside
<1>6. ASSUME NEW a \in Holders, Hello(a) PROVE EchoInv'
  BY <1>6, HelloEcho
<1>7. ASSUME NEW h \in Requests, NEW s \in routes.sessions, CommitTake(h, s) PROVE EchoInv'
  BY <1>7, TakeEcho
<1>16. ASSUME NEW h \in Requests, CommitIssue(h) PROVE EchoInv'
  BY <1>16, IssueEcho
<1>17. ASSUME NEW h \in Requests, CommitDropped(h) PROVE EchoInv'
  BY <1>17, DropEcho
<1>8. ASSUME NEW t \in tcts \cup OtherTokens, NEW dropped, EchoChallenge(t, dropped) PROVE EchoInv'
  BY <1>8, ChallengeEcho
<1>9. ASSUME NEW t \in tcts, NEW env \in Challenges, Respond(t, env) PROVE EchoInv'
  BY <1>9, RespondEcho
<1>10. ASSUME NEW h \in Requests, Echo(h) PROVE EchoInv'
  BY <1>10, PresentEcho
<1>11. ASSUME NEW h \in Requests, NEW dropped, CheckEcho(h, dropped) PROVE EchoInv'
  BY <1>11, CheckedEcho
<1>12. CASE Rebuild
  BY <1>12, RebuildEcho
<1>13. CASE Restart
  BY <1>13, RestartEcho
<1>14. CASE IpTick
  BY <1>14, TickEcho
<1>15. CASE UNCHANGED ipVars
  BY <1>15, EnrolmentAside
<1> QED
  BY <1>1, <1>2, <1>3, <1>4, <1>5, <1>6, <1>7, <1>8, <1>9, <1>10, <1>11, <1>12, <1>13, <1>14, <1>15,
     <1>16, <1>17 DEF IpNext

\* What is issued goes back to an enrolment, every answer names a challenge,
\* and the manifest is never past its refresh for long.
THEOREM EchoKept == IpSpec => [](EnrolInv /\ EchoInv)
<1>1. IpInit => EnrolInv /\ EchoInv
  BY EnrolStarts, EchoStarts
<1>2. EnrolInv /\ EchoInv /\ [IpNext]_ipVars => (EnrolInv /\ EchoInv)'
  BY EnrolSteps, EchoSteps
<1> QED
  BY <1>1, <1>2, PTL DEF IpSpec

\* EchoEarned is what the two come to.
LEMMA EchoFollows == EnrolInv /\ EchoInv => EchoEarned
<1> SUFFICES ASSUME EnrolInv, EchoInv PROVE EchoEarned
  OBVIOUS
<1>1. seconds \in Nat /\ inserted \in Seq(Rows)
  BY DEF EnrolInv, QueueFits
<1>2. VerifyManifest(routes.manifest, seconds, FALSE, None) = "ok"
  BY <1>1, ServedManifest DEF EchoInv
<1>3. ASSUME NEW e \in echoed
      PROVE  /\ e.tct \in tcts /\ e.now <= e.tct.exp
             /\ challenged[e.nonce] = e.tct.jti
             /\ e.tct.sub \in Wild \/
                  \E env \in answers : env.sender = e.tct.sub /\ env.payload.nonce_echo = e.nonce
                                       /\ env.payload.tct_jti = e.tct.jti
  BY DEF EchoInv, EchoFits
<1>4. ASSUME NEW e \in echoed
      PROVE  \E k \in DOMAIN inserted :
               inserted[k].aid = e.tct.sub /\ e.now <= inserted[k].expires_at + Lag
  <2>1. IssuedFits(e.tct) /\ e.now \in Nat /\ e.now <= e.tct.exp
    BY <1>3 DEF EchoInv, EchoFits
  <2>2. PICK k \in DOMAIN inserted :
          inserted[k].aid = e.tct.sub /\ e.tct.exp <= inserted[k].expires_at + Lag
    BY <2>1 DEF IssuedFits
  <2>3. inserted[k].expires_at \in Nat
    <3>1. inserted[k] \in Rows
      BY <1>1
    <3> QED
      BY <3>1 DEF Rows
  <2>4. e.tct.exp \in Nat /\ Lag \in Nat
    BY <2>1, InteropAssumption DEF IssuedFits, Lag
  <2> QED
    BY <2>1, <2>2, <2>3, <2>4
<1>5. \A e, f \in echoed : e.nonce = f.nonce => e = f
  BY DEF EchoInv
<1>6. ASSUME NEW e \in echoed
      PROVE  \E k \in DOMAIN inserted :
               /\ inserted[k].aid = e.tct.sub
               /\ e.now <= inserted[k].expires_at + SESSION_TTL + REQUEST_TIMEOUT + TCT_TTL
  <2>1. PICK k \in DOMAIN inserted : inserted[k].aid = e.tct.sub /\ e.now <= inserted[k].expires_at + Lag
    BY <1>4
  <2>2. inserted[k].expires_at \in Nat
    <3>1. inserted[k] \in Rows
      BY <1>1
    <3> QED
      BY <3>1 DEF Rows
  <2>3. SESSION_TTL \in Nat /\ REQUEST_TIMEOUT \in Nat /\ TCT_TTL \in Nat
    BY InteropAssumption
  <2>4. inserted[k].expires_at + Lag = inserted[k].expires_at + SESSION_TTL + REQUEST_TIMEOUT + TCT_TTL
    BY <2>2, <2>3 DEF Lag
  <2> QED
    BY <2>1, <2>4
<1> QED
  BY <1>2, <1>3, <1>6, <1>5 DEF EchoEarned

\* What /echo confirms was issued here on an enrolment a session, a request and
\* a token ago at most, and its holder answered a challenge for it, once; the
\* manifest is in date.
THEOREM EchoesEarned == IpSpec => []EchoEarned
<1>1. IpSpec => [](EnrolInv /\ EchoInv)
  BY EchoKept
<1>2. EnrolInv /\ EchoInv => EchoEarned
  BY EchoFollows
<1> QED
  BY <1>1, <1>2, PTL
=============================================================================
