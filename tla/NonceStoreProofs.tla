-------------------------- MODULE NonceStoreProofs --------------------------
(***************************************************************************)
(* The nonce store's counter, capacity and single-use invariants for any   *)
(* number of threads, nonces and shards, and the proof that it implements  *)
(* the ledger.                                                             *)
(***************************************************************************)
EXTENDS NonceStore, FiniteSetTheorems, TLAPS

(***************************************************************************)
(* Counting what is held and what is owed.                                 *)
(***************************************************************************)

\* A call that removes S from the maps lowers the number of records by |S|.
LEMMA HeldMinus ==
  ASSUME NEW m, NEW S \in SUBSET HeldIn(m),
         NEW w, w = [n \in Nonces |-> IF n \in S THEN NoRecord ELSE m[n]]
  PROVE  /\ HeldIn(w) = HeldIn(m) \ S
         /\ IsFiniteSet(HeldIn(m)) /\ IsFiniteSet(S)
         /\ Cardinality(HeldIn(w)) = Cardinality(HeldIn(m)) - Cardinality(S)
         /\ Cardinality(HeldIn(m)) \in Nat /\ Cardinality(S) \in Nat
<1>1. HeldIn(w) = HeldIn(m) \ S
  BY DEF HeldIn
<1>2. IsFiniteSet(HeldIn(m))
  BY ConstantAssumption, FS_Subset DEF HeldIn
<1>3. IsFiniteSet(S)
  BY <1>2, FS_Subset
<1>4. Cardinality(HeldIn(m) \ S) = Cardinality(HeldIn(m)) - Cardinality(S)
  <2>1. (HeldIn(m) \cap S) = S
    OBVIOUS
  <2> QED
    BY <1>2, <1>3, <2>1, FS_Difference
<1> QED
  BY <1>1, <1>2, <1>3, <1>4, FS_CardinalityType

\* A row {c} x S of the debt counts as much as S.
LEMMA RowCount ==
  ASSUME NEW c, NEW S, IsFiniteSet(S)
  PROVE  IsFiniteSet({c} \X S) /\ Cardinality({c} \X S) = Cardinality(S)
<1>1. IsFiniteSet({c}) /\ Cardinality({c}) = 1
  BY FS_Singleton
<1>2. Cardinality({c} \X S) = 1 * Cardinality(S) /\ IsFiniteSet({c} \X S)
  BY <1>1, FS_Product
<1> QED
  BY <1>2, FS_CardinalityType

\* What calls owe to the counter is finite.
LEMMA DebtFinite ==
  ASSUME NEW f
  PROVE  IsFiniteSet(DebtOf(f)) /\ Cardinality(DebtOf(f)) \in Nat
<1>1. IsFiniteSet(Callers \X Nonces)
  BY ConstantAssumption, FS_Product
<1> QED
  BY <1>1, FS_Subset, FS_CardinalityType DEF DebtOf

\* What a call removes, it owes to the counter.
LEMMA DebtPlus ==
  ASSUME NEW f \in [Callers -> SUBSET Nonces], NEW c \in Callers,
         NEW S \in SUBSET Nonces, f[c] \cap S = {},
         NEW g, g = [f EXCEPT ![c] = f[c] \cup S]
  PROVE  Cardinality(DebtOf(g)) = Cardinality(DebtOf(f)) + Cardinality(S)
<1> DEFINE D == DebtOf(f)
           R == {c} \X S
<1>1. IsFiniteSet(S)
  BY ConstantAssumption, FS_Subset
<1>2. DebtOf(g) = D \cup R /\ D \cap R = {}
  BY DEF DebtOf
<1>3. IsFiniteSet(R) /\ Cardinality(R) = Cardinality(S) /\ Cardinality(S) \in Nat
  BY <1>1, RowCount, FS_CardinalityType
<1>4. IsFiniteSet(D) /\ Cardinality(D) \in Nat
  BY DebtFinite
<1> HIDE DEF D, R
<1>5. Cardinality(D \cup R) = Cardinality(D) + Cardinality(R) - Cardinality(D \cap R)
  BY <1>3, <1>4, FS_Union
<1>6. Cardinality(D \cap R) = 0
  BY <1>2, FS_EmptySet
<1>7. Cardinality(DebtOf(g)) = Cardinality(D \cup R)
  BY <1>2
<1>8. Cardinality(DebtOf(g)) = Cardinality(D) + Cardinality(S)
  BY <1>3, <1>4, <1>5, <1>6, <1>7
<1> QED
  BY <1>8 DEF D

\* release pays the call's debt in full, and there is at least that much.
LEMMA DebtPaid ==
  ASSUME NEW f \in [Callers -> SUBSET Nonces], NEW c \in Callers,
         NEW g, g = [f EXCEPT ![c] = {}]
  PROVE  /\ Cardinality(DebtOf(g)) = Cardinality(DebtOf(f)) - Cardinality(f[c])
         /\ Cardinality(f[c]) \in Nat
         /\ Cardinality(f[c]) <= Cardinality(DebtOf(f))
<1> DEFINE D == DebtOf(f)
           R == {c} \X f[c]
<1>1. IsFiniteSet(f[c])
  BY ConstantAssumption, FS_Subset
<1>2. DebtOf(g) = D \ R /\ R \subseteq D /\ D \cap R = R
  BY DEF DebtOf
<1>3. IsFiniteSet(R) /\ Cardinality(R) = Cardinality(f[c]) /\ Cardinality(f[c]) \in Nat
  BY <1>1, RowCount, FS_CardinalityType
<1>4. IsFiniteSet(D) /\ Cardinality(D) \in Nat
  BY DebtFinite
<1> HIDE DEF D, R
<1>5. Cardinality(D \ R) = Cardinality(D) - Cardinality(R)
  BY <1>2, <1>4, FS_Difference
<1>6. Cardinality(R) <= Cardinality(D)
  BY <1>2, <1>4, FS_Subset
<1> QED
  BY <1>2, <1>3, <1>5, <1>6 DEF D

\* The reserved slots after caller c has moved to section x.
LEMMA ReservedSame ==
  ASSUME NEW p \in [Callers -> Sections], NEW c \in Callers, NEW x \in Sections,
         x \in {"insert", "undo"} <=> p[c] \in {"insert", "undo"}
  PROVE  ReservingIn([p EXCEPT ![c] = x]) = ReservingIn(p)
BY DEF ReservingIn

\* The reservations not yet turned into records are finite.
LEMMA ReservedFinite ==
  ASSUME NEW p
  PROVE  IsFiniteSet(ReservingIn(p)) /\ Cardinality(ReservingIn(p)) \in Nat
BY ConstantAssumption, FS_Subset, FS_CardinalityType DEF ReservingIn

\* A call that reserves (try_reserve) adds one reservation.
LEMMA ReservedPlus ==
  ASSUME NEW p \in [Callers -> Sections], NEW c \in Callers,
         p[c] \notin {"insert", "undo"}
  PROVE  Cardinality(ReservingIn([p EXCEPT ![c] = "insert"])) = Cardinality(ReservingIn(p)) + 1
<1> DEFINE P == ReservingIn(p)
<1>1. ReservingIn([p EXCEPT ![c] = "insert"]) = P \cup {c} /\ c \notin P
  BY DEF ReservingIn
<1>2. IsFiniteSet(P)
  BY ReservedFinite
<1> HIDE DEF P
<1>3. Cardinality(P \cup {c}) = Cardinality(P) + 1
  BY <1>1, <1>2, FS_AddElement
<1>4. Cardinality(ReservingIn([p EXCEPT ![c] = "insert"])) = Cardinality(P) + 1
  BY <1>1, <1>3
<1> QED
  BY <1>4 DEF P

\* A call that inserts, or undoes, gives its reservation up.
LEMMA ReservedMinus ==
  ASSUME NEW p \in [Callers -> Sections], NEW c \in Callers, NEW x \in Sections,
         p[c] \in {"insert", "undo"}, x \notin {"insert", "undo"}
  PROVE  Cardinality(ReservingIn([p EXCEPT ![c] = x])) = Cardinality(ReservingIn(p)) - 1
<1> DEFINE P == ReservingIn(p)
<1>1. ReservingIn([p EXCEPT ![c] = x]) = P \ {c} /\ c \in P
  BY DEF ReservingIn
<1>2. IsFiniteSet(P)
  BY ReservedFinite
<1> HIDE DEF P
<1>3. Cardinality(P \ {c}) = Cardinality(P) - 1
  BY <1>1, <1>2, FS_RemoveElement
<1>4. Cardinality(ReservingIn([p EXCEPT ![c] = x])) = Cardinality(P) - 1
  BY <1>1, <1>3
<1> QED
  BY <1>4 DEF P

(***************************************************************************)
(* The shard operations.                                                   *)
(***************************************************************************)

\* purge removes held records only, and leaves every other covered.
LEMMA PurgeFacts ==
  ASSUME TypeOK, NEW s \in Shards, NEW now \in Nat
  PROVE  /\ Purged(s, now) \in SUBSET HeldIn(map)
         /\ Without(Purged(s, now)) \in [Nonces -> Record \cup {NoRecord}]
         /\ expiry \ Popped(s, now) \subseteq Nat \X Nonces
         /\ \A n \in Purged(s, now) : ShardOf[n] = s /\ map[n].expires_at < now
         /\ HeapCoversMap => Covers(expiry \ Popped(s, now), Without(Purged(s, now)))
<1>1. Purged(s, now) \in SUBSET HeldIn(map)
  BY DEF Purged, InShard, HeldIn
<1>2. Without(Purged(s, now)) \in [Nonces -> Record \cup {NoRecord}]
  BY DEF TypeOK, Without
<1>3. expiry \ Popped(s, now) \subseteq Nat \X Nonces
  BY DEF TypeOK
<1>4. \A n \in Purged(s, now) : ShardOf[n] = s /\ map[n].expires_at < now
  BY DEF Purged, Popped, InShard
<1>5. ASSUME HeapCoversMap, NEW n \in HeldIn(Without(Purged(s, now)))
      PROVE  <<Without(Purged(s, now))[n].expires_at, n>> \in expiry \ Popped(s, now)
  <2>1. n \in HeldIn(map) /\ n \notin Purged(s, now) /\ Without(Purged(s, now))[n] = map[n]
    BY <1>5 DEF HeldIn, Without
  <2>2. <<map[n].expires_at, n>> \in expiry
    BY <1>5, <2>1 DEF HeapCoversMap, Covers
  <2>3. ASSUME <<map[n].expires_at, n>> \in Popped(s, now) PROVE FALSE
    BY <2>1, <2>3 DEF Popped, HeapOf, Purged, InShard, HeldIn
  <2> QED
    BY <2>1, <2>2, <2>3
<1> QED
  BY <1>1, <1>2, <1>3, <1>4, <1>5 DEF Covers

\* compact drops stale pairs only.
LEMMA CompactFacts ==
  ASSUME NEW s \in Shards, NEW h \in SUBSET (Nat \X Nonces),
         NEW m \in [Nonces -> Record \cup {NoRecord}]
  PROVE  /\ Compacted(s, h, m) \subseteq Nat \X Nonces
         /\ Covers(h, m) => Covers(Compacted(s, h, m), m)
<1> DEFINE held == HeldIn(m) \cap InShard(s)
           fresh == {<<m[n].expires_at, n>> : n \in held}
<1>1. fresh \subseteq Nat \X Nonces
  BY DEF HeldIn, Record
<1>2. Compacted(s, h, m) = h \/ Compacted(s, h, m) = (h \ HeapOf(s, h)) \cup fresh
  BY DEF Compacted
<1>3. ASSUME Covers(h, m) PROVE Covers((h \ HeapOf(s, h)) \cup fresh, m)
  <2> SUFFICES ASSUME NEW n \in HeldIn(m)
               PROVE  <<m[n].expires_at, n>> \in (h \ HeapOf(s, h)) \cup fresh
    BY DEF Covers
  <2>1. CASE ShardOf[n] = s
    BY <2>1 DEF InShard, HeldIn
  <2>2. CASE ShardOf[n] # s
    BY <1>3, <2>2 DEF Covers, HeapOf
  <2> QED
    BY <2>1, <2>2
<1> HIDE DEF fresh
<1> QED
  BY <1>1, <1>2, <1>3

\* The running minimum of a sweep is a time, and a minimum.
LEMMA EarlierType ==
  ASSUME NEW s \in Shards, NEW h \in SUBSET (Nat \X Nonces), NEW least \in Nat
  PROVE  /\ EarlierOf(s, h, least) \in Nat /\ EarlierOf(s, h, least) <= least
         /\ \A e \in HeapOf(s, h) : EarlierOf(s, h, least) <= e[1]
<1> DEFINE times == {e[1] : e \in HeapOf(s, h)} \cup {least}
<1>1. times \in SUBSET Nat /\ times # {}
  BY DEF HeapOf
<1> HIDE DEF times
<1>2. \E t \in times : \A u \in times : t <= u
  <2>1. \E t \in times : \A u \in times : <<u, t>> \notin OpToRel(<, Nat)
    BY <1>1, NatLessThanWellFounded, WFMin
  <2>2. PICK t \in times : \A u \in times : <<u, t>> \notin OpToRel(<, Nat)
    BY <2>1
  <2>3. \A u \in times : ~(u < t)
    BY <1>1, <2>2 DEF OpToRel
  <2> QED
    BY <1>1, <2>3
<1> DEFINE first == CHOOSE t \in times : \A u \in times : t <= u
<1>3. first \in times /\ \A u \in times : first <= u
  BY <1>2
<1>4. EarlierOf(s, h, least) = first
  BY DEF EarlierOf, times
<1>5. least \in times /\ \A e \in HeapOf(s, h) : e[1] \in times
  BY DEF times
<1> HIDE DEF first
<1> QED
  BY <1>1, <1>3, <1>4, <1>5

(***************************************************************************)
(* The inductive invariant: one lemma per group of actions.                *)
(***************************************************************************)

\* A new store (with_shards) satisfies the invariant.
LEMMA InitInv == Init => StoreInv
<1> SUFFICES ASSUME Init PROVE StoreInv
  OBVIOUS
<1>1. TypeOK
  BY ConstantAssumption DEF Init, TypeOK, ArgsOK, Sections
<1>2. Held = {} /\ Reserving = {} /\ Debt = {}
  BY DEF Init, Held, HeldIn, Reserving, ReservingIn, Debt, DebtOf
<1>3. CounterExact /\ outstanding <= Capacity
  BY <1>2, ConstantAssumption, FS_EmptySet DEF Init, CounterExact
<1>4. \A c \in Callers : CallOK(c)
  BY DEF Init, CallOK
<1>5. SingleUse /\ HeapCoversMap /\ OneSweepPerSecond
  BY DEF Init, SingleUse, HeapCoversMap, Covers, HeldIn, OneSweepPerSecond
<1> QED
  BY <1>1, <1>3, <1>4, <1>5 DEF StoreInv

\* Entering issue, consume or sweep reads the clock and changes no count.
LEMMA BeginInv ==
  ASSUME StoreInv, NEW c \in Callers,
         \/ \E n \in Nonces, v \in Verifiers, d \in Ttls : BeginIssue(c, n, v, d)
         \/ \E n \in Nonces, v \in Verifiers : BeginConsume(c, n, v)
         \/ BeginSweep(c)
  PROVE  StoreInv'
<1>1. PICK x \in {"purge", "consume", "sweep"}, a \in IssueArgs \cup ConsumeArgs \cup SweepArgs :
        /\ Begin(c, x, a)
        /\ a.now = clock
        /\ \/ x = "purge" /\ a \in IssueArgs
           \/ x = "consume" /\ a \in ConsumeArgs
           \/ x = "sweep" /\ a \in SweepArgs
  <2>0. clock \in Nat
    BY ConstantAssumption DEF StoreInv, TypeOK
  <2>1. ASSUME NEW n \in Nonces, NEW v \in Verifiers, NEW d \in Ttls, BeginIssue(c, n, v, d)
        PROVE  \E a : Begin(c, "purge", a) /\ a \in IssueArgs /\ a.now = clock
    <3>1. [op |-> "issue", now |-> clock, nonce |-> n,
           rec |-> [verifier |-> v, expires_at |-> clock + d]] \in IssueArgs
      BY <2>0, ConstantAssumption DEF IssueArgs, Record
    <3> QED
      BY <2>1, <3>1 DEF BeginIssue
  <2>2. ASSUME NEW n \in Nonces, NEW v \in Verifiers, BeginConsume(c, n, v)
        PROVE  \E a : Begin(c, "consume", a) /\ a \in ConsumeArgs /\ a.now = clock
    <3>1. [op |-> "consume", now |-> clock, nonce |-> n, verifier |-> v, outcome |-> "none"]
            \in ConsumeArgs
      BY <2>0 DEF ConsumeArgs
    <3> QED
      BY <2>2, <3>1 DEF BeginConsume
  <2>3. ASSUME BeginSweep(c)
        PROVE  \E a : Begin(c, "sweep", a) /\ a \in SweepArgs /\ a.now = clock
    <3>1. [op |-> "sweep", now |-> clock] \in SweepArgs
      BY <2>0 DEF SweepArgs
    <3> QED
      BY <2>3, <3>1 DEF BeginSweep
  <2> QED
    BY <2>1, <2>2, <2>3
<1>a. /\ pc[c] = "idle" /\ pc' = [pc EXCEPT ![c] = x] /\ args' = [args EXCEPT ![c] = a]
      /\ UNCHANGED <<store, freed, cursor, earliest, clock, issued, consumed>>
  BY <1>1 DEF Begin, Goto, At
<1>c. a \in IssueArgs \cup ConsumeArgs \cup SweepArgs \cup {NoRecord}
  BY <1>1
<1>b. pc \in [Callers -> Sections] /\ x \in Sections \ {"insert", "undo"}
  BY DEF StoreInv, TypeOK, Sections
<1>2. TypeOK'
  <2>1. \A d \in Callers : ArgsOK(d)'
    <3> SUFFICES ASSUME NEW d \in Callers PROVE ArgsOK(d)'
      OBVIOUS
    <3>1. CASE d = c
      <4>1. pc'[c] = x
        BY <1>a, <1>b
      <4>2. args'[c] = a
        BY <1>a DEF StoreInv, TypeOK
      <4> QED
        BY <1>1, <3>1, <4>1, <4>2 DEF ArgsOK, IssueSections, SweepSections
    <3>2. CASE d # c
      BY <1>a, <3>2 DEF StoreInv, TypeOK, ArgsOK
    <3> QED
      BY <3>1, <3>2
  <2> QED
    BY <1>a, <1>b, <1>c, <2>1 DEF StoreInv, TypeOK, store
<1>3. \A d \in Callers : CallOK(d)'
  BY <1>1, <1>a, <1>b, ConstantAssumption DEF StoreInv, TypeOK, CallOK
<1>4. CounterExact'
  <2>1. ReservingIn(pc') = ReservingIn(pc)
    <3>1. x \in {"insert", "undo"} <=> pc[c] \in {"insert", "undo"}
      BY <1>a, <1>b
    <3> QED
      BY <1>a, <1>b, <3>1, ReservedSame
  <2> QED
    BY <1>a, <2>1 DEF StoreInv, CounterExact, Reserving, Held, Debt, store
<1>5. SingleUse' /\ HeapCoversMap' /\ OneSweepPerSecond' /\ outstanding' <= Capacity
  BY <1>a DEF StoreInv, SingleUse, HeapCoversMap, Covers, HeldIn, OneSweepPerSecond, store
<1> QED
  BY <1>2, <1>3, <1>4, <1>5 DEF StoreInv

\* Removing S from the maps and owing it leaves the account balanced.
LEMMA RemoveCount ==
  ASSUME StoreInv, NEW c \in Callers, NEW S \in SUBSET HeldIn(map), freed[c] \cap S = {},
         map' = Without(S), freed' = [freed EXCEPT ![c] = freed[c] \cup S],
         ReservingIn(pc') = ReservingIn(pc), outstanding' = outstanding
  PROVE  CounterExact'
<1>1. Cardinality(HeldIn(map')) = Cardinality(HeldIn(map)) - Cardinality(S)
      /\ Cardinality(HeldIn(map)) \in Nat /\ Cardinality(S) \in Nat
  BY HeldMinus DEF Without
<1>2. Cardinality(DebtOf(freed')) = Cardinality(DebtOf(freed)) + Cardinality(S)
  BY DebtPlus DEF StoreInv, TypeOK, HeldIn
<1>3. Cardinality(DebtOf(freed)) \in Nat /\ Cardinality(ReservingIn(pc)) \in Nat
  BY DebtFinite, ReservedFinite
<1> QED
  BY <1>1, <1>2, <1>3 DEF StoreInv, CounterExact, Held, Reserving, Debt

\* release(n) after n records were removed: the counter neither wraps below
\* zero nor loses its meaning.
LEMMA PayCount ==
  ASSUME StoreInv, NEW c \in Callers, Release(c), map' = map,
         freed' = [freed EXCEPT ![c] = {}], ReservingIn(pc') = ReservingIn(pc)
  PROVE  CounterExact' /\ outstanding' \in Nat /\ outstanding' <= Capacity
<1>1. /\ Cardinality(DebtOf(freed')) = Cardinality(DebtOf(freed)) - Cardinality(freed[c])
      /\ Cardinality(freed[c]) \in Nat
      /\ Cardinality(freed[c]) <= Cardinality(DebtOf(freed))
  BY DebtPaid DEF StoreInv, TypeOK
<1>2. /\ Cardinality(DebtOf(freed)) \in Nat /\ Cardinality(ReservingIn(pc)) \in Nat
      /\ Cardinality(HeldIn(map)) \in Nat
  BY DebtFinite, ReservedFinite, ConstantAssumption, FS_Subset, FS_CardinalityType DEF HeldIn
<1>3. outstanding = Cardinality(HeldIn(map)) + Cardinality(ReservingIn(pc)) + Cardinality(DebtOf(freed))
  BY DEF StoreInv, CounterExact, Held, Reserving, Debt
<1>4. outstanding \in Nat /\ outstanding <= Capacity /\ Capacity \in Nat
  BY ConstantAssumption DEF StoreInv, TypeOK
<1>5. HeldIn(map') = HeldIn(map)
  OBVIOUS
<1> QED
  BY <1>1, <1>2, <1>3, <1>4, <1>5 DEF Release, CounterExact, Held, Reserving, Debt

\* A call that goes back to idle leaves every call well-formed.
LEMMA ReturnInv ==
  ASSUME StoreInv, NEW c \in Callers, Return(c), clock' = clock
  PROVE  /\ pc' \in [Callers -> Sections]
         /\ args' \in [Callers -> IssueArgs \cup ConsumeArgs \cup SweepArgs \cup {NoRecord}]
         /\ \A d \in Callers : ArgsOK(d)'
         /\ freed' \in [Callers -> SUBSET Nonces]
         /\ cursor' \in [Callers -> 1..(NumShards + 1)]
         /\ earliest' \in [Callers -> Nat]
         /\ \A d \in Callers : CallOK(d)'
<1> USE DEF Return, Goto, StoreInv
<1>1. pc' \in [Callers -> Sections] /\ pc' = [pc EXCEPT ![c] = "idle"]
  BY DEF TypeOK, Sections
<1>2. args' \in [Callers -> IssueArgs \cup ConsumeArgs \cup SweepArgs \cup {NoRecord}]
  BY DEF TypeOK
<1>3. \A d \in Callers : ArgsOK(d)'
  BY DEF TypeOK, ArgsOK
<1>4. freed' \in [Callers -> SUBSET Nonces] /\ earliest' \in [Callers -> Nat]
  BY ConstantAssumption DEF TypeOK
<1>5. cursor' \in [Callers -> 1..(NumShards + 1)]
  BY ConstantAssumption DEF TypeOK
<1>6. \A d \in Callers : CallOK(d)'
  BY DEF TypeOK, CallOK
<1> QED
  BY <1>1, <1>2, <1>3, <1>4, <1>5, <1>6

\* Facts about the call whose next section is an issue's.
LEMMA IssueCall ==
  ASSUME StoreInv, NEW c \in Callers, pc[c] \in IssueSections
  PROVE  /\ args[c] \in IssueArgs
         /\ args[c].nonce \in Nonces /\ args[c].now \in Nat /\ args[c].rec \in Record
         /\ ShardOf[args[c].nonce] \in Shards
<1>1. args[c] \in IssueArgs
  BY DEF StoreInv, TypeOK, ArgsOK, IssueSections, SweepSections
<1> QED
  BY <1>1, ConstantAssumption DEF IssueArgs

\* issue_sync: the purge of the nonce's shard moves records into the debt.
LEMMA IssuePurgeInv ==
  ASSUME StoreInv, NEW c \in Callers, IssuePurge(c)
  PROVE  StoreInv'
<1> DEFINE s == ShardOf[args[c].nonce]
           now == args[c].now
<1>1. /\ args[c] \in IssueArgs /\ s \in Shards /\ now \in Nat
  BY IssueCall DEF IssuePurge, At, IssueSections
<1>2. /\ pc[c] = "purge" /\ freed' = [freed EXCEPT ![c] = Purged(s, now)]
      /\ map' = Without(Purged(s, now)) /\ expiry' = expiry \ Popped(s, now)
      /\ pc' = [pc EXCEPT ![c] = "release"]
      /\ UNCHANGED <<outstanding, last_sweep, next_expiry, full_sweeps,
                     args, cursor, earliest, clock, issued, consumed>>
  BY DEF IssuePurge, At, Goto
<1>3. freed[c] = {} /\ pc \in [Callers -> Sections] /\ freed \in [Callers -> SUBSET Nonces]
  BY <1>2 DEF StoreInv, TypeOK, CallOK
<1> HIDE DEF s, now
<1>4. /\ Purged(s, now) \in SUBSET HeldIn(map)
      /\ map' \in [Nonces -> Record \cup {NoRecord}]
      /\ expiry' \subseteq Nat \X Nonces
      /\ HeapCoversMap'
  BY <1>1, <1>2, PurgeFacts DEF StoreInv, HeapCoversMap
<1>5. Purged(s, now) \in SUBSET Nonces
  BY <1>4 DEF HeldIn
<1>6. TypeOK'
  <2>1. pc' \in [Callers -> Sections] /\ freed' \in [Callers -> SUBSET Nonces]
    BY <1>2, <1>3, <1>5 DEF Sections
  <2>2. \A d \in Callers : ArgsOK(d)'
    BY <1>1, <1>2, <1>3 DEF StoreInv, TypeOK, ArgsOK, IssueSections
  <2> QED
    BY <1>2, <1>4, <2>1, <2>2 DEF StoreInv, TypeOK
<1>7. \A d \in Callers : CallOK(d)'
  BY <1>2, <1>3 DEF StoreInv, CallOK
<1>8. CounterExact'
  <2>1. ReservingIn(pc') = ReservingIn(pc)
    BY <1>2, <1>3, ReservedSame DEF Sections
  <2> QED
    BY <1>2, <1>3, <1>4, <2>1, RemoveCount
<1>9. SingleUse'
  BY <1>2 DEF StoreInv, TypeOK, SingleUse, Without
<1> QED
  BY <1>2, <1>4, <1>6, <1>7, <1>8, <1>9 DEF StoreInv, OneSweepPerSecond

\* issue_sync: release pays the debt of that purge.
LEMMA IssueReleaseInv ==
  ASSUME StoreInv, NEW c \in Callers, IssueRelease(c)
  PROVE  StoreInv'
<1>1. /\ pc[c] = "release" /\ Release(c) /\ freed' = [freed EXCEPT ![c] = {}]
      /\ pc' = [pc EXCEPT ![c] = "reserve"]
      /\ UNCHANGED <<map, expiry, last_sweep, next_expiry, full_sweeps,
                     args, cursor, earliest, clock, issued, consumed>>
  BY DEF IssueRelease, At, Goto
<1>2. pc \in [Callers -> Sections] /\ freed \in [Callers -> SUBSET Nonces]
  BY DEF StoreInv, TypeOK
<1>3. CounterExact' /\ outstanding' \in Nat /\ outstanding' <= Capacity
  <2>1. ReservingIn(pc') = ReservingIn(pc)
    BY <1>1, <1>2, ReservedSame DEF Sections
  <2> QED
    BY <1>1, <2>1, PayCount
<1>4. \A d \in Callers : ArgsOK(d)'
  BY <1>1, <1>2 DEF StoreInv, TypeOK, ArgsOK, IssueSections, SweepSections
<1>5. TypeOK'
  BY <1>1, <1>2, <1>3, <1>4 DEF StoreInv, TypeOK, Sections
<1>6. \A d \in Callers : CallOK(d)'
  BY <1>1, <1>2 DEF StoreInv, CallOK
<1> QED
  BY <1>1, <1>3, <1>5, <1>6
     DEF StoreInv, SingleUse, HeapCoversMap, OneSweepPerSecond

\* try_reserve raises the counter below Capacity only, for one reservation.
LEMMA TryReserveInv ==
  ASSUME StoreInv, NEW c \in Callers, NEW x \in {"gate", "refuse"}, TryReserve(c, x),
         \/ pc[c] = "reserve" /\ x = "gate"
         \/ pc[c] = "retry" /\ x = "refuse"
  PROVE  StoreInv'
<1>1. /\ \/ outstanding < Capacity /\ outstanding' = outstanding + 1
            /\ pc' = [pc EXCEPT ![c] = "insert"]
         \/ outstanding' = outstanding /\ pc' = [pc EXCEPT ![c] = x]
      /\ UNCHANGED <<map, expiry, last_sweep, next_expiry, full_sweeps,
                     args, freed, cursor, earliest, clock, issued, consumed>>
  BY DEF TryReserve, Goto
<1>2. pc \in [Callers -> Sections] /\ outstanding \in Nat /\ Capacity \in Nat
  BY ConstantAssumption DEF StoreInv, TypeOK
<1>3. CounterExact'
  <2>1. CASE outstanding' = outstanding + 1 /\ pc' = [pc EXCEPT ![c] = "insert"]
    <3>1. Cardinality(ReservingIn(pc')) = Cardinality(ReservingIn(pc)) + 1
      BY <1>2, <2>1, ReservedPlus
    <3>2. /\ Cardinality(DebtOf(freed)) \in Nat /\ Cardinality(ReservingIn(pc)) \in Nat
          /\ Cardinality(HeldIn(map)) \in Nat
      BY DebtFinite, ReservedFinite, ConstantAssumption, FS_Subset, FS_CardinalityType DEF HeldIn
    <3>3. HeldIn(map') = HeldIn(map) /\ DebtOf(freed') = DebtOf(freed)
      BY <1>1
    <3> QED
      BY <2>1, <3>1, <3>2, <3>3 DEF StoreInv, CounterExact, Held, Reserving, Debt
  <2>2. CASE outstanding' = outstanding /\ pc' = [pc EXCEPT ![c] = x]
    <3>1. ReservingIn(pc') = ReservingIn(pc)
      <4>1. x \in Sections /\ x \notin {"insert", "undo"} /\ pc[c] \notin {"insert", "undo"}
        BY DEF Sections
      <4>2. ReservingIn([pc EXCEPT ![c] = x]) = ReservingIn(pc)
        BY <1>2, <4>1, ReservedSame
      <4> QED
        BY <2>2, <4>2
    <3>2. HeldIn(map') = HeldIn(map) /\ DebtOf(freed') = DebtOf(freed)
      BY <1>1
    <3> QED
      BY <2>2, <3>1, <3>2 DEF StoreInv, CounterExact, Held, Reserving, Debt
  <2> QED
    BY <1>1, <2>1, <2>2
<1>4. \A d \in Callers : ArgsOK(d)'
  BY <1>1, <1>2 DEF StoreInv, TypeOK, ArgsOK, IssueSections, SweepSections
<1>5. TypeOK'
  BY <1>1, <1>2, <1>4 DEF StoreInv, TypeOK, Sections
<1>6. \A d \in Callers : CallOK(d)'
  BY <1>1, <1>2 DEF StoreInv, CallOK
<1>7. outstanding' <= Capacity
  BY <1>1, <1>2 DEF StoreInv
<1> QED
  BY <1>1, <1>3, <1>5, <1>6, <1>7
     DEF StoreInv, SingleUse, HeapCoversMap, OneSweepPerSecond

\* reserve: of the callers of one second, the first alone begins a sweep.
LEMMA SweepGateInv ==
  ASSUME StoreInv, NEW c \in Callers, SweepGate(c)
  PROVE  StoreInv'
<1>1. args[c] \in IssueArgs /\ args[c].now \in Nat
  BY IssueCall DEF SweepGate, At, IssueSections
<1>2. PICK x \in {"sweep", "refuse"} : pc' = [pc EXCEPT ![c] = x]
  BY DEF SweepGate, Goto
<1>3. /\ pc[c] = "gate"
      /\ \/ last_sweep < args[c].now /\ last_sweep' = args[c].now
            /\ full_sweeps' = full_sweeps + 1
         \/ last_sweep' = last_sweep /\ full_sweeps' = full_sweeps
      /\ UNCHANGED <<map, expiry, outstanding, next_expiry,
                     args, freed, cursor, earliest, clock, issued, consumed>>
  BY DEF SweepGate, At
<1>4. /\ pc \in [Callers -> Sections] /\ last_sweep \in Int /\ last_sweep >= -1
      /\ full_sweeps \in Nat /\ full_sweeps <= last_sweep + 1
  BY DEF StoreInv, TypeOK, OneSweepPerSecond
<1>5. /\ full_sweeps' \in Nat /\ last_sweep' \in Int /\ last_sweep' >= -1
      /\ OneSweepPerSecond'
  BY <1>1, <1>3, <1>4 DEF OneSweepPerSecond
<1>6. \A d \in Callers : ArgsOK(d)'
  BY <1>1, <1>2, <1>3, <1>4 DEF StoreInv, TypeOK, ArgsOK, IssueSections, SweepSections
<1>7. TypeOK'
  BY <1>2, <1>3, <1>4, <1>5, <1>6 DEF StoreInv, TypeOK, Sections
<1>8. \A d \in Callers : CallOK(d)'
  BY <1>2, <1>3, <1>4, ConstantAssumption DEF StoreInv, CallOK
<1>9. CounterExact'
  <2>1. ReservingIn(pc') = ReservingIn(pc)
    BY <1>2, <1>3, <1>4, ReservedSame DEF Sections
  <2> QED
    BY <1>3, <2>1 DEF StoreInv, CounterExact, Reserving, Held, Debt
<1> QED
  BY <1>3, <1>5, <1>7, <1>8, <1>9 DEF StoreInv, SingleUse, HeapCoversMap

\* reserve: a refused call leaves with nothing reserved and nothing owed.
LEMMA RefuseInv ==
  ASSUME StoreInv, NEW c \in Callers, Refuse(c) \/ PublishExpiry(c)
  PROVE  StoreInv'
<1>1. /\ pc[c] \in {"refuse", "publish"} /\ Return(c)
      /\ UNCHANGED <<map, expiry, outstanding, last_sweep, full_sweeps,
                     clock, issued, consumed>>
  BY DEF Refuse, PublishExpiry, At, store
<1>2. next_expiry' \in Nat
  <2>1. CASE Refuse(c)
    BY <2>1 DEF Refuse, store, StoreInv, TypeOK
  <2>2. CASE PublishExpiry(c)
    <3>1. args[c].rec \in Record
      BY <2>2, IssueCall DEF PublishExpiry, At, IssueSections
    <3> QED
      BY <2>2, <3>1 DEF PublishExpiry, Record, StoreInv, TypeOK
  <2> QED
    BY <2>1, <2>2
<1>3. TypeOK' /\ \A d \in Callers : CallOK(d)'
  BY <1>1, <1>2, ReturnInv DEF StoreInv, TypeOK
<1>4. CounterExact'
  <2>1. pc \in [Callers -> Sections] /\ pc' = [pc EXCEPT ![c] = "idle"]
    BY <1>1 DEF StoreInv, TypeOK, Return, Goto
  <2>2. ReservingIn(pc') = ReservingIn(pc)
    BY <1>1, <2>1, ReservedSame DEF Sections
  <2>3. freed' = freed
    BY <1>1 DEF Return, StoreInv, TypeOK, CallOK
  <2> QED
    BY <1>1, <2>2, <2>3 DEF StoreInv, CounterExact, Reserving, Held, Debt
<1> QED
  BY <1>1, <1>3, <1>4 DEF StoreInv, SingleUse, HeapCoversMap, OneSweepPerSecond

\* issue_sync: a duplicate nonce gives its reservation back.
LEMMA UndoReserveInv ==
  ASSUME StoreInv, NEW c \in Callers, UndoReserve(c)
  PROVE  StoreInv'
<1>1. /\ pc[c] = "undo" /\ Return(c) /\ outstanding' = outstanding - 1
      /\ UNCHANGED <<map, expiry, last_sweep, next_expiry, full_sweeps,
                     clock, issued, consumed>>
  BY DEF UndoReserve, At
<1>2. pc \in [Callers -> Sections] /\ pc' = [pc EXCEPT ![c] = "idle"]
  BY <1>1 DEF StoreInv, TypeOK, Return, Goto
<1>3. Cardinality(ReservingIn(pc')) = Cardinality(ReservingIn(pc)) - 1
  BY <1>1, <1>2, ReservedMinus DEF Sections
<1>4. freed' = freed
  BY <1>1 DEF Return, StoreInv, TypeOK, CallOK
<1>5. /\ Cardinality(DebtOf(freed)) \in Nat /\ Cardinality(ReservingIn(pc)) \in Nat
      /\ Cardinality(ReservingIn(pc')) \in Nat /\ Cardinality(HeldIn(map)) \in Nat
  BY DebtFinite, ReservedFinite, ConstantAssumption, FS_Subset, FS_CardinalityType DEF HeldIn
<1>6. outstanding = Cardinality(HeldIn(map)) + Cardinality(ReservingIn(pc)) + Cardinality(DebtOf(freed))
  BY DEF StoreInv, CounterExact, Held, Reserving, Debt
<1>7. CounterExact' /\ outstanding' \in Nat /\ outstanding' <= Capacity
  <2>1. HeldIn(map') = HeldIn(map) /\ DebtOf(freed') = DebtOf(freed)
    BY <1>1, <1>4
  <2>2. outstanding <= Capacity /\ Capacity \in Nat
    BY ConstantAssumption DEF StoreInv
  <2> QED
    BY <1>1, <1>3, <1>5, <1>6, <2>1, <2>2 DEF CounterExact, Held, Reserving, Debt
<1>8. TypeOK' /\ \A d \in Callers : CallOK(d)'
  BY <1>1, <1>7, ReturnInv DEF StoreInv, TypeOK
<1> QED
  BY <1>1, <1>7, <1>8 DEF StoreInv, SingleUse, HeapCoversMap, OneSweepPerSecond

\* issue_sync: the insertion turns the reservation into a record, and its pair
\* enters the heap before the compaction.
LEMMA InsertInv ==
  ASSUME StoreInv, NEW c \in Callers, Insert(c)
  PROVE  StoreInv'
<1> DEFINE n == args[c].nonce
           r == args[c].rec
           m == [map EXCEPT ![n] = r]
<1>1. args[c] \in IssueArgs /\ n \in Nonces /\ r \in Record /\ ShardOf[n] \in Shards
  BY IssueCall DEF Insert, At, IssueSections
<1>2. /\ pc[c] = "insert" /\ pc \in [Callers -> Sections]
      /\ map \in [Nonces -> Record \cup {NoRecord}] /\ expiry \subseteq Nat \X Nonces
      /\ issued \in [Nonces -> Nat] /\ consumed \in [Nonces -> Nat]
      /\ UNCHANGED <<outstanding, last_sweep, next_expiry, full_sweeps,
                     args, freed, cursor, earliest, clock, consumed>>
  BY DEF Insert, At, StoreInv, TypeOK
<1>3. CASE map[n] # NoRecord
  <2>1. pc' = [pc EXCEPT ![c] = "undo"] /\ UNCHANGED <<map, expiry, issued>>
    BY <1>3 DEF Insert, Goto
  <2>2. \A d \in Callers : ArgsOK(d)'
    BY <1>1, <1>2, <2>1 DEF StoreInv, TypeOK, ArgsOK, IssueSections
  <2>3. TypeOK'
    BY <1>2, <2>1, <2>2 DEF StoreInv, TypeOK, Sections
  <2>4. \A d \in Callers : CallOK(d)'
    BY <1>2, <2>1 DEF StoreInv, CallOK
  <2>5. CounterExact'
    <3>1. ReservingIn(pc') = ReservingIn(pc)
      BY <1>2, <2>1, ReservedSame DEF Sections
    <3> QED
      BY <1>2, <2>1, <3>1 DEF StoreInv, CounterExact, Reserving, Held, Debt
  <2> QED
    BY <1>2, <2>1, <2>3, <2>4, <2>5
       DEF StoreInv, SingleUse, HeapCoversMap, OneSweepPerSecond
<1>4. CASE map[n] = NoRecord
  <2> DEFINE h == expiry \cup {<<r.expires_at, n>>}
  <2>1. /\ pc' = [pc EXCEPT ![c] = "publish"] /\ map' = m
        /\ expiry' = Compacted(ShardOf[n], h, m)
        /\ issued' = [issued EXCEPT ![n] = @ + 1]
    BY <1>4 DEF Insert, Goto
  <2>2. m \in [Nonces -> Record \cup {NoRecord}] /\ h \in SUBSET (Nat \X Nonces)
        /\ Covers(h, m)
    <3>1. r.expires_at \in Nat
      BY <1>1 DEF Record
    <3>2. Covers(h, m)
      BY <1>1, <1>2 DEF StoreInv, HeapCoversMap, Covers, HeldIn
    <3> QED
      BY <1>1, <1>2, <3>1, <3>2
  <2>3. expiry' \subseteq Nat \X Nonces /\ HeapCoversMap'
    <3> HIDE DEF m, h
    <3> QED
      BY <1>1, <2>1, <2>2, CompactFacts DEF HeapCoversMap
  <2>4. \A d \in Callers : ArgsOK(d)'
    BY <1>1, <1>2, <2>1 DEF StoreInv, TypeOK, ArgsOK, IssueSections
  <2>5. TypeOK'
    <3>1. pc' \in [Callers -> Sections] /\ issued' \in [Nonces -> Nat]
      BY <1>1, <1>2, <2>1 DEF Sections
    <3>2. map' \in [Nonces -> Record \cup {NoRecord}]
      BY <2>1, <2>2
    <3> QED
      BY <1>2, <2>3, <2>4, <3>1, <3>2 DEF StoreInv, TypeOK
  <2>6. \A d \in Callers : CallOK(d)'
    BY <1>2, <2>1 DEF StoreInv, CallOK
  <2>7. SingleUse'
    BY <1>1, <1>2, <1>4, <2>1 DEF StoreInv, SingleUse
  <2>8. CounterExact'
    <3>1. Cardinality(ReservingIn(pc')) = Cardinality(ReservingIn(pc)) - 1
      BY <1>2, <2>1, ReservedMinus DEF Sections
    <3>2. /\ Cardinality(DebtOf(freed)) \in Nat /\ Cardinality(ReservingIn(pc)) \in Nat
          /\ Cardinality(HeldIn(map)) \in Nat /\ IsFiniteSet(HeldIn(map))
      BY DebtFinite, ReservedFinite, ConstantAssumption, FS_Subset, FS_CardinalityType DEF HeldIn
    <3>3. HeldIn(map') = HeldIn(map) \cup {n} /\ n \notin HeldIn(map)
      <4>1. r # NoRecord
        BY <1>1, ConstantAssumption
      <4> QED
        BY <1>1, <1>2, <1>4, <2>1, <4>1 DEF HeldIn
    <3>4. Cardinality(HeldIn(map) \cup {n}) = Cardinality(HeldIn(map)) + 1
      BY <3>2, <3>3, FS_AddElement
    <3>5. Cardinality(HeldIn(map')) = Cardinality(HeldIn(map)) + 1
      BY <3>3, <3>4
    <3>6. outstanding = Cardinality(HeldIn(map)) + Cardinality(ReservingIn(pc)) + Cardinality(DebtOf(freed))
      BY DEF StoreInv, CounterExact, Held, Reserving, Debt
    <3>7. DebtOf(freed') = DebtOf(freed) /\ outstanding' = outstanding
      BY <1>2
    <3> QED
      BY <3>1, <3>2, <3>5, <3>6, <3>7 DEF CounterExact, Held, Reserving, Debt
  <2> QED
    BY <1>2, <2>3, <2>5, <2>6, <2>7, <2>8 DEF StoreInv, OneSweepPerSecond
<1> QED
  BY <1>3, <1>4

\* Facts about the call whose next section is a sweep's.
LEMMA SweepCall ==
  ASSUME StoreInv, NEW c \in Callers, pc[c] \in SweepSections
  PROVE  /\ args[c] \in IssueArgs \cup SweepArgs
         /\ args[c].now \in Nat
<1>1. args[c] \in IssueArgs \cup SweepArgs
  BY DEF StoreInv, TypeOK, ArgsOK, IssueSections, SweepSections
<1> QED
  BY <1>1 DEF IssueArgs, SweepArgs

\* sweep: each shard's purge adds to the debt of the whole sweep.
LEMMA SweepShardInv ==
  ASSUME StoreInv, NEW c \in Callers, SweepShard(c)
  PROVE  StoreInv'
<1> DEFINE s == cursor[c]
           now == args[c].now
           m == Without(Purged(s, now))
           h == Compacted(s, expiry \ Popped(s, now), m)
           x == IF s = NumShards THEN "settle" ELSE "sweep"
<1>1. /\ pc[c] = "sweep" /\ map' = m /\ expiry' = h
      /\ freed' = [freed EXCEPT ![c] = freed[c] \cup Purged(s, now)]
      /\ earliest' = [earliest EXCEPT ![c] = EarlierOf(s, h, earliest[c])]
      /\ cursor' = [cursor EXCEPT ![c] = s + 1]
      /\ pc' = [pc EXCEPT ![c] = x]
      /\ UNCHANGED <<outstanding, last_sweep, next_expiry, full_sweeps,
                     args, clock, issued, consumed>>
  BY DEF SweepShard, At, Goto, StoreInv, TypeOK
<1>2. /\ pc \in [Callers -> Sections] /\ freed \in [Callers -> SUBSET Nonces]
      /\ earliest \in [Callers -> Nat] /\ cursor \in [Callers -> 1..(NumShards + 1)]
      /\ args[c] \in IssueArgs \cup SweepArgs /\ now \in Nat
      /\ s \in Shards /\ NumShards \in Nat
      /\ \A n \in freed[c] : ShardOf[n] < s
      /\ ShardOf \in [Nonces -> Shards]
  BY <1>1, SweepCall, ConstantAssumption DEF StoreInv, TypeOK, CallOK, SweepSections, Shards
<1>3. /\ Purged(s, now) \in SUBSET HeldIn(map)
      /\ m \in [Nonces -> Record \cup {NoRecord}]
      /\ expiry \ Popped(s, now) \subseteq Nat \X Nonces
      /\ \A n \in Purged(s, now) : ShardOf[n] = s
      /\ Covers(expiry \ Popped(s, now), m)
  BY <1>2, PurgeFacts DEF StoreInv
<1>4. Purged(s, now) \in SUBSET Nonces
  BY <1>3 DEF HeldIn
<1>5. h \subseteq Nat \X Nonces /\ Covers(h, m)
  BY <1>2, <1>3, CompactFacts
<1>6. EarlierOf(s, h, earliest[c]) \in Nat
  BY <1>2, <1>5, EarlierType
<1>7. freed[c] \cap Purged(s, now) = {}
  BY <1>2, <1>3, <1>4 DEF Shards
<1>x. x \in Sections \ {"insert", "undo"} /\ x \in SweepSections
  BY DEF Sections, SweepSections
<1> HIDE DEF h, m, now
<1>8. TypeOK'
  <2>1. \A d \in Callers : ArgsOK(d)'
    <3> HIDE DEF x
    <3> QED
      BY <1>1, <1>2, <1>x DEF StoreInv, TypeOK, ArgsOK, IssueSections, SweepSections
  <2>2. cursor' \in [Callers -> 1..(NumShards + 1)]
    BY <1>1, <1>2 DEF Shards
  <2>3. pc' \in [Callers -> Sections] /\ freed' \in [Callers -> SUBSET Nonces]
        /\ earliest' \in [Callers -> Nat]
    BY <1>1, <1>2, <1>4, <1>6, <1>x
  <2> QED
    BY <1>1, <1>3, <1>5, <2>1, <2>2, <2>3 DEF StoreInv, TypeOK
<1>9. ASSUME NEW d \in Callers PROVE CallOK(d)'
  <2>1. CASE d # c
    BY <1>1, <1>2, <2>1 DEF StoreInv, CallOK
  <2>2. CASE d = c
    <3>1. pc'[c] = x /\ cursor'[c] = s + 1 /\ freed'[c] = freed[c] \cup Purged(s, now)
      BY <1>1, <1>2
    <3>2. args'[c].now \in 0..clock'
      BY <1>1 DEF StoreInv, CallOK
    <3>3. \A n \in freed'[c] : ShardOf[n] < s + 1
      BY <1>2, <1>3, <1>4, <3>1 DEF Shards
    <3>4. s # NumShards => s + 1 <= NumShards
      BY <1>2 DEF Shards
    <3> QED
      BY <2>2, <3>1, <3>2, <3>3, <3>4 DEF CallOK
  <2> QED
    BY <2>1, <2>2
<1>10. CounterExact'
  <2>1. ReservingIn(pc') = ReservingIn(pc)
    <3> HIDE DEF x
    <3> QED
      BY <1>1, <1>2, <1>x, ReservedSame
  <2> QED
    BY <1>1, <1>3, <1>7, <2>1, RemoveCount DEF m
<1>11. SingleUse'
  BY <1>1 DEF StoreInv, TypeOK, SingleUse, Without, m
<1>12. HeapCoversMap'
  BY <1>1, <1>5 DEF HeapCoversMap
<1> QED
  BY <1>1, <1>8, <1>9, <1>10, <1>11, <1>12 DEF StoreInv, OneSweepPerSecond

\* sweep: one release at the end pays for all shards.
LEMMA SweepReleaseInv ==
  ASSUME StoreInv, NEW c \in Callers, SweepRelease(c)
  PROVE  StoreInv'
<1>1. /\ pc[c] = "settle" /\ Release(c) /\ freed' = [freed EXCEPT ![c] = {}]
      /\ pc' = [pc EXCEPT ![c] = "publish_earliest"]
      /\ UNCHANGED <<map, expiry, last_sweep, next_expiry, full_sweeps,
                     args, cursor, earliest, clock, issued, consumed>>
  BY DEF SweepRelease, At, Goto
<1>2. pc \in [Callers -> Sections] /\ freed \in [Callers -> SUBSET Nonces]
  BY DEF StoreInv, TypeOK
<1>3. CounterExact' /\ outstanding' \in Nat /\ outstanding' <= Capacity
  <2>1. ReservingIn(pc') = ReservingIn(pc)
    BY <1>1, <1>2, ReservedSame DEF Sections
  <2> QED
    BY <1>1, <2>1, PayCount
<1>4. \A d \in Callers : ArgsOK(d)'
  BY <1>1, <1>2 DEF StoreInv, TypeOK, ArgsOK, IssueSections, SweepSections
<1>5. TypeOK'
  BY <1>1, <1>2, <1>3, <1>4 DEF StoreInv, TypeOK, Sections
<1>6. \A d \in Callers : CallOK(d)'
  BY <1>1, <1>2 DEF StoreInv, CallOK
<1> QED
  BY <1>1, <1>3, <1>5, <1>6
     DEF StoreInv, SingleUse, HeapCoversMap, OneSweepPerSecond

\* sweep: publishing the earliest expiry touches no count.
LEMMA SweepStoreInv ==
  ASSUME StoreInv, NEW c \in Callers, SweepStore(c)
  PROVE  StoreInv'
<1>1. /\ pc[c] = "publish_earliest" /\ next_expiry' = earliest[c]
      /\ UNCHANGED <<map, expiry, outstanding, last_sweep, full_sweeps,
                     clock, issued, consumed>>
  BY DEF SweepStore, At
<1>2. /\ pc \in [Callers -> Sections] /\ next_expiry' \in Nat /\ freed[c] = {}
      /\ args[c] \in IssueArgs \cup SweepArgs
  BY <1>1, SweepCall DEF StoreInv, TypeOK, CallOK, SweepSections
<1>3. CASE args[c].op = "sweep" /\ Return(c)
  <2>1. TypeOK' /\ \A d \in Callers : CallOK(d)'
    BY <1>1, <1>2, <1>3, ReturnInv DEF StoreInv, TypeOK
  <2>2. ReservingIn(pc') = ReservingIn(pc)
    BY <1>1, <1>2, <1>3, ReservedSame DEF Sections, Return, Goto
  <2>3. freed' = freed
    BY <1>2, <1>3 DEF Return, StoreInv, TypeOK
  <2>4. CounterExact'
    BY <1>1, <2>2, <2>3 DEF StoreInv, CounterExact, Reserving, Held, Debt
  <2> QED
    BY <1>1, <2>1, <2>4 DEF StoreInv, SingleUse, HeapCoversMap, OneSweepPerSecond
<1>4. CASE args[c].op = "issue" /\ pc' = [pc EXCEPT ![c] = "retry"]
           /\ UNCHANGED <<args, freed, cursor, earliest>>
  <2>1. args[c] \in IssueArgs
    BY <1>2, <1>4 DEF SweepArgs
  <2>2. \A d \in Callers : ArgsOK(d)'
    BY <1>1, <1>2, <1>4, <2>1 DEF StoreInv, TypeOK, ArgsOK, IssueSections, SweepSections
  <2>3. TypeOK'
    BY <1>1, <1>2, <1>4, <2>2 DEF StoreInv, TypeOK, Sections
  <2>4. \A d \in Callers : CallOK(d)'
    BY <1>1, <1>2, <1>4 DEF StoreInv, CallOK
  <2>5. ReservingIn(pc') = ReservingIn(pc)
    BY <1>1, <1>2, <1>4, ReservedSame DEF Sections
  <2>6. CounterExact'
    BY <1>1, <1>4, <2>5 DEF StoreInv, CounterExact, Reserving, Held, Debt
  <2> QED
    BY <1>1, <2>3, <2>4, <2>6 DEF StoreInv, SingleUse, HeapCoversMap, OneSweepPerSecond
<1> QED
  BY <1>3, <1>4 DEF SweepStore, Goto

\* Facts about the call whose next section is a consume's.
LEMMA ConsumeCall ==
  ASSUME StoreInv, NEW c \in Callers, pc[c] \in {"consume", "finish"}
  PROVE  /\ args[c] \in ConsumeArgs
         /\ args[c].nonce \in Nonces /\ args[c].now \in Nat /\ args[c].verifier \in Verifiers
         /\ ShardOf[args[c].nonce] \in Shards
<1>1. args[c] \in ConsumeArgs
  BY DEF StoreInv, TypeOK, ArgsOK, IssueSections, SweepSections
<1> QED
  BY <1>1, ConstantAssumption DEF ConsumeArgs

\* The section that decides a consume notes its outcome in the call's arguments.
LEMMA ConsumeNotes ==
  ASSUME StoreInv, NEW c \in Callers, Consume(c)
  PROVE  \E o \in Outcomes :
           /\ Outcome(c, o)
           /\ args'[c] = [args[c] EXCEPT !.outcome = o]
           /\ args'[c] \in ConsumeArgs /\ args'[c].outcome = o
           /\ args'[c].nonce = args[c].nonce /\ args'[c].now = args[c].now
           /\ args'[c].verifier = args[c].verifier
           /\ \A d \in Callers \ {c} : args'[d] = args[d]
<1>1. PICK o \in Outcomes : Outcome(c, o)
  BY DEF Consume, ConsumeMatch, ConsumeUnknown, Outcomes
<1>2. args \in [Callers -> IssueArgs \cup ConsumeArgs \cup SweepArgs \cup {NoRecord}]
  BY DEF StoreInv, TypeOK
<1>3. args'[c] = [args[c] EXCEPT !.outcome = o] /\ \A d \in Callers \ {c} : args'[d] = args[d]
  BY <1>1, <1>2 DEF Outcome
<1>4. args[c] \in ConsumeArgs
  BY ConsumeCall DEF Consume, At
<1>5. args'[c] \in ConsumeArgs /\ args'[c].outcome = o
      /\ args'[c].nonce = args[c].nonce /\ args'[c].now = args[c].now
      /\ args'[c].verifier = args[c].verifier
  BY <1>3, <1>4 DEF ConsumeArgs
<1> QED
  BY <1>1, <1>3, <1>5

\* consume_sync: purge and removal both go to the debt; a match is counted as
\* consumed.
LEMMA ConsumeInv ==
  ASSUME StoreInv, NEW c \in Callers, Consume(c)
  PROVE  StoreInv'
<1> DEFINE n == args[c].nonce
           now == args[c].now
           s == ShardOf[n]
<1>1. /\ pc[c] = "consume" /\ pc' = [pc EXCEPT ![c] = "finish"]
      /\ UNCHANGED <<outstanding, last_sweep, next_expiry, full_sweeps,
                     cursor, earliest, clock, issued>>
  BY DEF Consume, At, Goto
<1>o. PICK o \in Outcomes :
        /\ Outcome(c, o) /\ args'[c] \in ConsumeArgs /\ args'[c].outcome = o
        /\ args'[c].now = args[c].now /\ \A d \in Callers \ {c} : args'[d] = args[d]
  BY ConsumeNotes
<1>2. /\ args[c] \in ConsumeArgs /\ n \in Nonces /\ now \in Nat /\ s \in Shards
      /\ pc \in [Callers -> Sections] /\ freed \in [Callers -> SUBSET Nonces]
      /\ freed[c] = {} /\ map \in [Nonces -> Record \cup {NoRecord}]
      /\ expiry \subseteq Nat \X Nonces
      /\ consumed \in [Nonces -> Nat] /\ issued \in [Nonces -> Nat]
  BY <1>1, ConsumeCall DEF StoreInv, TypeOK, CallOK
<1>3. PICK S \in SUBSET HeldIn(map) :
        /\ map' = Without(S) /\ freed' = [freed EXCEPT ![c] = S]
        /\ \/ S = {n} /\ expiry' = Compacted(s, expiry, Without(S))
           \/ S = Purged(s, now) /\ expiry' = expiry \ Popped(s, now)
        /\ \/ consumed' = consumed
           \/ S = {n} /\ consumed' = [consumed EXCEPT ![n] = @ + 1]
  <2>1. CASE ConsumeMatch(c)
    <3>1. {n} \in SUBSET HeldIn(map)
      BY <1>2, <2>1 DEF ConsumeMatch, Owned, HeldIn
    <3> QED
      BY <2>1, <3>1 DEF ConsumeMatch
  <2>2. CASE ConsumeUnknown(c)
    <3>1. Purged(s, now) \in SUBSET HeldIn(map)
      BY <1>2, PurgeFacts DEF StoreInv
    <3> QED
      BY <2>2, <3>1 DEF ConsumeUnknown
  <2> QED
    BY <2>1, <2>2 DEF Consume
<1> HIDE DEF n, now, s
<1>4. /\ map' \in [Nonces -> Record \cup {NoRecord}]
      /\ S \in SUBSET Nonces
      /\ consumed' \in [Nonces -> Nat]
  BY <1>2, <1>3 DEF Without, HeldIn
<1>5. expiry' \subseteq Nat \X Nonces /\ HeapCoversMap'
  <2>1. CASE expiry' = Compacted(s, expiry, Without(S))
    <3>1. Covers(expiry, Without(S))
      BY <1>2, <1>3 DEF StoreInv, HeapCoversMap, Covers, HeldIn, Without
    <3> QED
      BY <1>2, <1>3, <1>4, <2>1, <3>1, CompactFacts DEF HeapCoversMap
  <2>2. CASE S = Purged(s, now) /\ expiry' = expiry \ Popped(s, now)
    BY <1>2, <1>3, <2>2, PurgeFacts DEF StoreInv, HeapCoversMap
  <2> QED
    BY <1>3, <2>1, <2>2
<1>6. TypeOK'
  <2>1. \A d \in Callers : ArgsOK(d)'
    <3> SUFFICES ASSUME NEW d \in Callers PROVE ArgsOK(d)'
      OBVIOUS
    <3>1. CASE d = c
      BY <1>1, <1>2, <1>o, <3>1 DEF ArgsOK
    <3>2. CASE d # c
      BY <1>1, <1>2, <1>o, <3>2 DEF StoreInv, TypeOK, ArgsOK
    <3> QED
      BY <3>1, <3>2
  <2>2. pc' \in [Callers -> Sections] /\ freed' \in [Callers -> SUBSET Nonces]
    BY <1>1, <1>2, <1>3, <1>4 DEF Sections
  <2>3. args' \in [Callers -> IssueArgs \cup ConsumeArgs \cup SweepArgs \cup {NoRecord}]
    BY <1>o DEF Outcome, StoreInv, TypeOK
  <2> QED
    BY <1>1, <1>4, <1>5, <2>1, <2>2, <2>3 DEF StoreInv, TypeOK
<1>7. \A d \in Callers : CallOK(d)'
  <2> SUFFICES ASSUME NEW d \in Callers PROVE CallOK(d)'
    OBVIOUS
  <2>1. args'[d].now = args[d].now
    BY <1>o
  <2> QED
    BY <1>1, <1>2, <1>3, <2>1 DEF StoreInv, CallOK
<1>8. CounterExact'
  <2>1. ReservingIn(pc') = ReservingIn(pc)
    BY <1>1, <1>2, ReservedSame DEF Sections
  <2> QED
    BY <1>1, <1>2, <1>3, <2>1, RemoveCount
<1>9. SingleUse'
  <2> SUFFICES ASSUME NEW k \in Nonces
               PROVE  (consumed[k] + (IF map[k] # NoRecord THEN 1 ELSE 0) <= issued[k])'
    BY DEF SingleUse
  <2>1. consumed[k] + (IF map[k] # NoRecord THEN 1 ELSE 0) <= issued[k]
    BY DEF StoreInv, SingleUse
  <2>2. issued'[k] = issued[k] /\ consumed[k] \in Nat /\ issued[k] \in Nat
    BY <1>1, <1>2
  <2>3. CASE k \in S
    <3>1. map'[k] = NoRecord /\ map[k] # NoRecord
      BY <1>3, <2>3 DEF Without, HeldIn
    <3>2. consumed'[k] <= consumed[k] + 1 /\ consumed'[k] \in Nat
      BY <1>2, <1>3, <1>4
    <3> QED
      BY <2>1, <2>2, <3>1, <3>2
  <2>4. CASE k \notin S
    <3>1. map'[k] = map[k] /\ consumed'[k] = consumed[k]
      BY <1>2, <1>3, <2>4 DEF Without
    <3> QED
      BY <2>1, <2>2, <3>1
  <2> QED
    BY <2>3, <2>4
<1> QED
  BY <1>1, <1>5, <1>6, <1>7, <1>8, <1>9 DEF StoreInv, OneSweepPerSecond

\* consume_sync: the debt is paid after the lock is gone.
LEMMA ConsumeReleaseInv ==
  ASSUME StoreInv, NEW c \in Callers, ConsumeRelease(c)
  PROVE  StoreInv'
<1>1. /\ pc[c] = "finish" /\ Release(c) /\ Return(c)
      /\ UNCHANGED <<map, expiry, last_sweep, next_expiry, full_sweeps,
                     clock, issued, consumed>>
  BY DEF ConsumeRelease, At
<1>2. pc \in [Callers -> Sections] /\ pc' = [pc EXCEPT ![c] = "idle"]
      /\ freed' = [freed EXCEPT ![c] = {}]
  BY <1>1 DEF StoreInv, TypeOK, Return, Goto
<1>3. CounterExact' /\ outstanding' \in Nat /\ outstanding' <= Capacity
  <2>1. ReservingIn(pc') = ReservingIn(pc)
    BY <1>1, <1>2, ReservedSame DEF Sections
  <2> QED
    BY <1>1, <1>2, <2>1, PayCount
<1>4. TypeOK' /\ \A d \in Callers : CallOK(d)'
  BY <1>1, <1>3, ReturnInv DEF StoreInv, TypeOK
<1> QED
  BY <1>1, <1>3, <1>4 DEF StoreInv, SingleUse, HeapCoversMap, OneSweepPerSecond

\* Time passing changes no count.
LEMMA TickInv == StoreInv /\ Tick => StoreInv'
<1> SUFFICES ASSUME StoreInv, Tick PROVE StoreInv'
  OBVIOUS
<1>1. clock' \in 0..MaxTime /\ clock' = clock + 1 /\ clock \in Nat
      /\ UNCHANGED <<store, local, issued, consumed>>
  BY ConstantAssumption DEF Tick, StoreInv, TypeOK
<1>2. TypeOK'
  BY <1>1 DEF StoreInv, TypeOK, ArgsOK, store, local
<1>3. \A c \in Callers : CallOK(c)'
  BY <1>1 DEF StoreInv, CallOK, store, local
<1> QED
  BY <1>1, <1>2, <1>3
     DEF StoreInv, CounterExact, Held, Reserving, Debt, SingleUse, HeapCoversMap,
         OneSweepPerSecond, store, local

\* A step that changes nothing preserves the invariant.
LEMMA StutterInv == StoreInv /\ UNCHANGED vars => StoreInv'
BY DEF StoreInv, TypeOK, ArgsOK, CallOK, CounterExact, Held, Reserving, Debt, SingleUse,
       HeapCoversMap, OneSweepPerSecond, vars, store, local

\* Every step of every call preserves the invariant.
LEMMA NextInv == StoreInv /\ [Next]_vars => StoreInv'
<1> SUFFICES ASSUME StoreInv, [Next]_vars PROVE StoreInv'
  OBVIOUS
<1>1. ASSUME NEW c \in Callers, IssueStep(c) PROVE StoreInv'
  <2>1. CASE IssuePurge(c)
    BY <2>1, IssuePurgeInv
  <2>2. CASE IssueRelease(c)
    BY <2>2, IssueReleaseInv
  <2>3. CASE Reserve(c)
    BY <2>3, TryReserveInv DEF Reserve, At
  <2>4. CASE SweepGate(c)
    BY <2>4, SweepGateInv
  <2>5. CASE RetryReserve(c)
    BY <2>5, TryReserveInv DEF RetryReserve, At
  <2>6. CASE Refuse(c) \/ PublishExpiry(c)
    BY <2>6, RefuseInv
  <2>7. CASE Insert(c)
    BY <2>7, InsertInv
  <2>8. CASE UndoReserve(c)
    BY <2>8, UndoReserveInv
  <2> QED
    BY <1>1, <2>1, <2>2, <2>3, <2>4, <2>5, <2>6, <2>7, <2>8 DEF IssueStep
<1>2. ASSUME NEW c \in Callers, SweepStep(c) PROVE StoreInv'
  BY <1>2, SweepShardInv, SweepReleaseInv, SweepStoreInv DEF SweepStep
<1>3. ASSUME NEW c \in Callers, ConsumeStep(c) PROVE StoreInv'
  BY <1>3, ConsumeInv, ConsumeReleaseInv DEF ConsumeStep
<1> QED
  BY <1>1, <1>2, <1>3, BeginInv, TickInv, StutterInv DEF Next

\* The inductive invariant holds in every reachable state, for any set of
\* threads, nonces and shards and any capacity.
THEOREM StoreCorrect == Spec => []StoreInv
BY InitInv, NextInv, PTL DEF Spec

\* issue_sync, sweep and consume_sync keep every field in its type: in
\* particular the usize counter never wraps below zero.
THEOREM TypeCorrect == Spec => []TypeOK
<1>1. StoreInv => TypeOK
  BY DEF StoreInv
<1> QED
  BY <1>1, StoreCorrect, PTL

\* The counter is exact, so the shards never hold more than Capacity
\* records although the check and the insertion are separate sections.
THEOREM CapacityHolds == Spec => [](CounterExact /\ CapacityBound)
<1>1. StoreInv => CounterExact /\ CapacityBound
  <2> SUFFICES ASSUME StoreInv PROVE CounterExact /\ CapacityBound
    OBVIOUS
  <2>1. /\ Cardinality(DebtOf(freed)) \in Nat /\ Cardinality(ReservingIn(pc)) \in Nat
        /\ Cardinality(HeldIn(map)) \in Nat
    BY DebtFinite, ReservedFinite, ConstantAssumption, FS_Subset, FS_CardinalityType DEF HeldIn
  <2>2. outstanding = Cardinality(HeldIn(map)) + Cardinality(ReservingIn(pc)) + Cardinality(DebtOf(freed))
    BY DEF StoreInv, CounterExact, Held, Reserving, Debt
  <2>3. outstanding <= Capacity /\ Capacity \in Nat
    BY ConstantAssumption DEF StoreInv
  <2> QED
    BY <2>1, <2>2, <2>3 DEF StoreInv, CapacityBound, Held
<1> QED
  BY <1>1, StoreCorrect, PTL

\* consume_sync reports Consumed at most once per successful issue.
THEOREM NonceSingleUse == Spec => []SingleUse
<1>1. StoreInv => SingleUse
  BY DEF StoreInv
<1> QED
  BY <1>1, StoreCorrect, PTL

(***************************************************************************)
(* The store implements the ledger.                                        *)
(***************************************************************************)

\* A section of one call that is not the end of a consume tells nobody anything.
LEMMA ToldSame ==
  ASSUME NEW c \in Callers, pc[c] # "finish", pc'[c] # "finish",
         \A d \in Callers \ {c} : pc'[d] = pc[d] /\ args'[d] = args[d]
  PROVE  Told' = Told
<1> SUFFICES ASSUME NEW d \in Callers PROVE Told'[d] = Told[d]
  BY DEF Told
<1> QED
  BY DEF Told

\* The calls a section of c leaves alone keep their place and arguments.
LEMMA OthersStay ==
  ASSUME StoreInv, NEW c \in Callers, NEW x \in Sections,
         \/ Goto(c, x) /\ args' = args
         \/ x = "idle" /\ Return(c)
  PROVE  /\ pc'[c] = x
         /\ \A d \in Callers \ {c} : pc'[d] = pc[d] /\ args'[d] = args[d]
BY DEF StoreInv, TypeOK, Goto, Return

\* A section that removes S, all of it expired by the call's clock, is the
\* ledger's expiry of S: the call read a clock that has not gone back.
LEMMA ExpireStep ==
  ASSUME StoreInv, NEW c \in Callers, pc[c] # "idle", NEW S \in SUBSET HeldIn(map),
         \A n \in S : map[n].expires_at < args[c].now,
         map' = Without(S), UNCHANGED <<issued, consumed, clock>>, Told' = Told
  PROVE  Ledger!LedgerNext
<1>1. \A n \in S : n \in Nonces /\ map[n] # NoRecord /\ map[n].expires_at \in Nat
  BY DEF StoreInv, TypeOK, HeldIn, Record
<1>2. args[c].now \in 0..clock /\ clock \in Nat
  BY ConstantAssumption DEF StoreInv, CallOK, TypeOK
<1>3. \A n \in S : n \in Nonces /\ map[n] # NoRecord /\ map[n].expires_at < clock
  BY <1>1, <1>2
<1>4. Ledger!LedgerExpire(S)
  BY <1>3 DEF Ledger!LedgerExpire, Ledger!Drop, Ledger!ExpiredBy, Ledger!Outstanding, Without
<1>5. S \in SUBSET Nonces
  BY DEF HeldIn
<1> QED
  BY <1>4, <1>5 DEF Ledger!LedgerNext

\* The instance's Cardinality is the one the lemmas are about.
LEMMA SameCardinality == \A S : Ledger!Cardinality(S) = Cardinality(S)
BY DEF Ledger!Cardinality, Cardinality

\* An insertion is the ledger's issue.
LEMMA InsertStep ==
  ASSUME StoreInv, NEW c \in Callers, Insert(c)
  PROVE  Ledger!LedgerNext \/ UNCHANGED Ledger!ledgerVars
<1> DEFINE n == args[c].nonce
<1>1. n \in Nonces /\ args[c].rec \in Record /\ pc[c] = "insert"
      /\ map \in [Nonces -> Record \cup {NoRecord}]
  BY IssueCall DEF Insert, At, IssueSections, StoreInv, TypeOK
<1>t. Told' = Told
  <2>1. PICK x \in {"undo", "publish"} : Goto(c, x) /\ args' = args
    BY DEF Insert
  <2>2. pc'[c] = x /\ \A d \in Callers \ {c} : pc'[d] = pc[d] /\ args'[d] = args[d]
    BY <2>1, OthersStay DEF Sections
  <2> QED
    BY <1>1, <2>2, ToldSame
<1>2. CASE map[n] # NoRecord
  BY <1>2, <1>t DEF Insert, Ledger!ledgerVars, Ledger!records
<1>3. CASE map[n] = NoRecord
  <2>1. map' = [map EXCEPT ![n] = args[c].rec] /\ issued' = [issued EXCEPT ![n] = @ + 1]
        /\ UNCHANGED <<consumed, clock>>
    BY <1>3 DEF Insert
  <2>2. map'[n] = args[c].rec
    BY <1>1, <2>1
  <2>3. Cardinality(HeldIn(map)) < Capacity
    <3> DEFINE R == ReservingIn(pc)
    <3>1. c \in R /\ IsFiniteSet(R) /\ Cardinality(R) \in Nat
      BY <1>1, ReservedFinite DEF ReservingIn
    <3> HIDE DEF R
    <3>2. Cardinality(R) # 0
      BY <3>1, FS_EmptySet
    <3>3. Cardinality(DebtOf(freed)) \in Nat /\ Cardinality(HeldIn(map)) \in Nat
      BY DebtFinite, ConstantAssumption, FS_Subset, FS_CardinalityType DEF HeldIn
    <3>4. outstanding = Cardinality(HeldIn(map)) + Cardinality(R) + Cardinality(DebtOf(freed))
      BY DEF StoreInv, CounterExact, Held, Reserving, Debt, R
    <3>5. outstanding <= Capacity /\ Capacity \in Nat
      BY ConstantAssumption DEF StoreInv
    <3> QED
      BY <3>1, <3>2, <3>3, <3>4, <3>5
  <2>4. Ledger!Cardinality(Ledger!Outstanding) < Capacity
    <3>1. Ledger!Outstanding = HeldIn(map)
      BY DEF Ledger!Outstanding, HeldIn
    <3> QED
      BY <2>3, <3>1, SameCardinality
  <2>5. Ledger!LedgerIssue(n)
    <3>1. map' = [map EXCEPT ![n] = map'[n]]
      BY <2>1, <2>2
    <3>2. map'[n] \in Ledger!Record
      BY <1>1, <2>2 DEF Ledger!Record, Record
    <3>3. issued' = [issued EXCEPT ![n] = @ + 1] /\ UNCHANGED <<consumed, clock>>
      BY <2>1
    <3> HIDE DEF n
    <3> QED
      BY <1>3, <1>t, <2>4, <3>1, <3>2, <3>3 DEF Ledger!LedgerIssue
  <2> QED
    BY <1>1, <2>5 DEF Ledger!LedgerNext
<1> QED
  BY <1>2, <1>3

\* The locked section of consume_sync is the ledger's consume: it answers
\* Consumed or Expired for the caller's own nonce by the caller's clock, and
\* Unknown, dropping what the purge found expired, for any other.
LEMMA ConsumeStepMaps ==
  ASSUME StoreInv, NEW c \in Callers, Consume(c)
  PROVE  Ledger!LedgerNext
<1> DEFINE n == args[c].nonce
           v == args[c].verifier
           now == args[c].now
           s == ShardOf[n]
<1>1. n \in Nonces /\ v \in Verifiers /\ now \in Nat /\ s \in Shards
      /\ pc[c] = "consume" /\ pc' = [pc EXCEPT ![c] = "finish"] /\ UNCHANGED <<issued, clock>>
  BY ConsumeCall DEF Consume, At, Goto
<1>2. now \in 0..clock /\ clock \in Nat /\ map \in [Nonces -> Record \cup {NoRecord}]
      /\ pc \in [Callers -> Sections]
  BY <1>1, ConstantAssumption DEF StoreInv, CallOK, TypeOK
<1>3. ASSUME NEW o \in Outcomes, Outcome(c, o)
      PROVE  Told' = [Told EXCEPT ![c] = [nonce |-> n, verifier |-> v, now |-> now, outcome |-> o]]
  <2>1. PICK q \in Outcomes :
          /\ Outcome(c, q) /\ args'[c].outcome = q
          /\ args'[c].nonce = n /\ args'[c].now = now /\ args'[c].verifier = v
          /\ \A d \in Callers \ {c} : args'[d] = args[d]
    BY ConsumeNotes
  <2>2. args'[c].outcome = o
    <3>1. args[c] \in ConsumeArgs
      BY <1>1, ConsumeCall
    <3>2. args'[c] = [args[c] EXCEPT !.outcome = o]
      BY <1>3 DEF Outcome, StoreInv, TypeOK
    <3> QED
      BY <3>1, <3>2 DEF ConsumeArgs
  <2>3. pc'[c] = "finish" /\ \A d \in Callers \ {c} : pc'[d] = pc[d]
    BY <1>1, <1>2
  <2> HIDE DEF n, v, now
  <2>4. Told'[c] = [nonce |-> n, verifier |-> v, now |-> now, outcome |-> o]
    BY <2>1, <2>2, <2>3 DEF Told
  <2>5. \A d \in Callers \ {c} : Told'[d] = Told[d]
    BY <2>1, <2>3 DEF Told
  <2> QED
    BY <2>4, <2>5 DEF Told
<1>4. ASSUME NEW o \in Outcomes, Outcome(c, o),
             \/ o = "Consumed" /\ Ledger!Spend(n, v, now)
             \/ o = "Expired" /\ Ledger!Lapse(n, v, now)
             \/ o = "Unknown" /\ ~Ledger!OutstandingFor(n, v)
                  /\ \E S \in SUBSET Nonces : Ledger!Drop(S, now)
      PROVE  Ledger!LedgerNext
  <2>1. Ledger!LedgerConsume(c, n, v, now, o)
    BY <1>2, <1>3, <1>4 DEF Ledger!LedgerConsume
  <2> HIDE DEF n, v, now
  <2> QED
    BY <1>1, <1>2, <2>1 DEF Ledger!LedgerNext, Outcomes
<1>5. CASE ConsumeUnknown(c)
  <2>1. /\ map' = Without(Purged(s, now)) /\ UNCHANGED consumed
        /\ Outcome(c, "Unknown") /\ ~Ledger!OutstandingFor(n, v)
    BY <1>5 DEF ConsumeUnknown, Owned, Ledger!OutstandingFor
  <2>2. Purged(s, now) \in SUBSET HeldIn(map)
        /\ \A k \in Purged(s, now) : map[k].expires_at < now
    BY <1>1, PurgeFacts DEF StoreInv
  <2> HIDE DEF n, v, now, s
  <2>3. Purged(s, now) \in SUBSET Nonces
    BY <2>2 DEF HeldIn
  <2>4. Ledger!Drop(Purged(s, now), now)
    BY <1>1, <2>1, <2>2
       DEF Ledger!Drop, Ledger!ExpiredBy, Ledger!Outstanding, HeldIn, Without
  <2> QED
    BY <1>4, <2>1, <2>3, <2>4 DEF Outcomes
<1>6. CASE ConsumeMatch(c)
  <2>1. Ledger!OutstandingFor(n, v) /\ map' = Without({n})
    BY <1>6 DEF ConsumeMatch, Owned, Ledger!OutstandingFor
  <2>2. map' = [map EXCEPT ![n] = NoRecord]
    BY <1>1, <1>2, <2>1 DEF Without
  <2>3. map[n].expires_at \in Nat
    BY <1>1, <1>2, <2>1 DEF Ledger!OutstandingFor, Record
  <2>4. CASE map[n].expires_at < now
    <3>1. UNCHANGED consumed /\ Outcome(c, "Expired")
      BY <1>6, <2>4 DEF ConsumeMatch
    <3>2. Ledger!Lapse(n, v, now)
      BY <1>1, <2>1, <2>2, <2>4, <3>1
         DEF Ledger!Lapse, Ledger!ExpiredBy, Ledger!Outstanding, Ledger!OutstandingFor
    <3> QED
      BY <1>4, <3>1, <3>2 DEF Outcomes
  <2>5. CASE ~(map[n].expires_at < now)
    <3>1. consumed' = [consumed EXCEPT ![n] = @ + 1] /\ Outcome(c, "Consumed")
      BY <1>6, <2>5 DEF ConsumeMatch
    <3>2. now <= map[n].expires_at
      BY <1>1, <2>3, <2>5
    <3>3. Ledger!Spend(n, v, now)
      BY <1>1, <2>1, <2>2, <3>1, <3>2 DEF Ledger!Spend
    <3> QED
      BY <1>4, <3>1, <3>3 DEF Outcomes
  <2> QED
    BY <2>4, <2>5
<1> QED
  BY <1>5, <1>6 DEF Consume

\* The end of a consume is the ledger's return.
LEMMA ReturnMaps ==
  ASSUME StoreInv, NEW c \in Callers, ConsumeRelease(c)
  PROVE  Ledger!LedgerNext
<1>1. pc'[c] = "idle" /\ \A d \in Callers \ {c} : pc'[d] = pc[d] /\ args'[d] = args[d]
  BY OthersStay DEF ConsumeRelease, Sections
<1>2. Told' = [Told EXCEPT ![c] = NoRecord]
  BY <1>1 DEF Told
<1>3. Ledger!LedgerReturn(c)
  BY <1>2 DEF ConsumeRelease, Ledger!LedgerReturn, Ledger!records
<1> QED
  BY <1>3 DEF Ledger!LedgerNext

\* Every step of the store is a step of the ledger or leaves it alone.
LEMMA LedgerStep == StoreInv /\ [Next]_vars => [Ledger!LedgerNext]_(Ledger!ledgerVars)
<1> SUFFICES ASSUME StoreInv, [Next]_vars
             PROVE  Ledger!LedgerNext \/ UNCHANGED Ledger!ledgerVars
  OBVIOUS
<1>1. ASSUME NEW c \in Callers, IssueStep(c)
      PROVE  Ledger!LedgerNext \/ UNCHANGED Ledger!ledgerVars
  <2>1. CASE IssuePurge(c)
    <3> DEFINE s == ShardOf[args[c].nonce]
    <3>1. s \in Shards /\ args[c].now \in Nat /\ pc[c] = "purge"
      BY <2>1, IssueCall DEF IssuePurge, At, IssueSections
    <3>2. map' = Without(Purged(s, args[c].now)) /\ UNCHANGED <<issued, consumed, clock>>
      BY <2>1 DEF IssuePurge
    <3>3. Purged(s, args[c].now) \in SUBSET HeldIn(map)
          /\ \A k \in Purged(s, args[c].now) : map[k].expires_at < args[c].now
      BY <3>1, PurgeFacts DEF StoreInv
    <3>4. Told' = Told
      <4>1. pc'[c] = "release" /\ \A d \in Callers \ {c} : pc'[d] = pc[d] /\ args'[d] = args[d]
        BY <2>1, OthersStay DEF IssuePurge, Sections
      <4> QED
        BY <3>1, <4>1, ToldSame
    <3> QED
      BY <3>1, <3>2, <3>3, <3>4, ExpireStep
  <2>2. CASE Insert(c)
    BY <2>2, InsertStep
  <2>3. CASE \/ IssueRelease(c) \/ Reserve(c) \/ SweepGate(c) \/ RetryReserve(c)
             \/ Refuse(c) \/ UndoReserve(c) \/ PublishExpiry(c)
    <3>1. PICK x \in Sections \ {"finish"} : (Goto(c, x) /\ args' = args) \/ (x = "idle" /\ Return(c))
      BY <2>3 DEF IssueRelease, Reserve, SweepGate, RetryReserve, Refuse, UndoReserve,
                  PublishExpiry, TryReserve, Sections
    <3>2. pc[c] # "finish"
      BY <2>3 DEF IssueRelease, Reserve, SweepGate, RetryReserve, Refuse, UndoReserve,
                  PublishExpiry, At
    <3>3. pc'[c] = x /\ \A d \in Callers \ {c} : pc'[d] = pc[d] /\ args'[d] = args[d]
      BY <3>1, OthersStay
    <3>4. Told' = Told
      BY <3>2, <3>3, ToldSame
    <3> QED
      BY <2>3, <3>4 DEF IssueRelease, Reserve, SweepGate, RetryReserve, Refuse, UndoReserve,
                        PublishExpiry, TryReserve, store, Ledger!ledgerVars, Ledger!records
  <2> QED
    BY <1>1, <2>1, <2>2, <2>3 DEF IssueStep
<1>2. ASSUME NEW c \in Callers, SweepStep(c)
      PROVE  Ledger!LedgerNext \/ UNCHANGED Ledger!ledgerVars
  <2>1. CASE SweepShard(c)
    <3> DEFINE s == cursor[c]
    <3>1. s \in Shards /\ args[c].now \in Nat /\ pc[c] = "sweep"
      BY <2>1, SweepCall, ConstantAssumption
         DEF SweepShard, At, SweepSections, StoreInv, CallOK, TypeOK, Shards
    <3>2. map' = Without(Purged(s, args[c].now)) /\ UNCHANGED <<issued, consumed, clock>>
      BY <2>1 DEF SweepShard
    <3>3. Purged(s, args[c].now) \in SUBSET HeldIn(map)
          /\ \A k \in Purged(s, args[c].now) : map[k].expires_at < args[c].now
      BY <3>1, PurgeFacts DEF StoreInv
    <3>4. Told' = Told
      <4>1. PICK x \in {"settle", "sweep"} : Goto(c, x) /\ args' = args
        BY <2>1 DEF SweepShard
      <4>2. pc'[c] = x /\ \A d \in Callers \ {c} : pc'[d] = pc[d] /\ args'[d] = args[d]
        BY <4>1, OthersStay DEF Sections
      <4> QED
        BY <3>1, <4>2, ToldSame
    <3> QED
      BY <3>1, <3>2, <3>3, <3>4, ExpireStep
  <2>2. CASE SweepRelease(c) \/ SweepStore(c)
    <3>1. PICK x \in {"publish_earliest", "retry", "idle"} :
            (Goto(c, x) /\ args' = args) \/ (x = "idle" /\ Return(c))
      BY <2>2 DEF SweepRelease, SweepStore
    <3>2. pc[c] # "finish"
      BY <2>2 DEF SweepRelease, SweepStore, At
    <3>3. pc'[c] = x /\ \A d \in Callers \ {c} : pc'[d] = pc[d] /\ args'[d] = args[d]
      BY <3>1, OthersStay DEF Sections
    <3>4. Told' = Told
      BY <3>2, <3>3, ToldSame
    <3> QED
      BY <2>2, <3>4 DEF SweepRelease, SweepStore, Ledger!ledgerVars, Ledger!records
  <2> QED
    BY <1>2, <2>1, <2>2 DEF SweepStep
<1>3. ASSUME NEW c \in Callers, ConsumeStep(c)
      PROVE  Ledger!LedgerNext \/ UNCHANGED Ledger!ledgerVars
  <2>1. CASE Consume(c)
    BY <2>1, ConsumeStepMaps
  <2>2. CASE ConsumeRelease(c)
    BY <2>2, ReturnMaps
  <2> QED
    BY <1>3, <2>1, <2>2 DEF ConsumeStep
<1>4. CASE Tick
  BY <1>4 DEF Tick, store, local, Told, Ledger!LedgerTick, Ledger!LedgerNext
<1>5. CASE UNCHANGED vars
  BY <1>5 DEF vars, store, local, Told, Ledger!ledgerVars, Ledger!records
<1>6. ASSUME NEW c \in Callers, NEW x \in Sections \ {"finish"}, NEW y, Begin(c, x, y)
      PROVE  UNCHANGED Ledger!ledgerVars
  <2>1. /\ pc[c] = "idle" /\ pc'[c] = x
        /\ \A d \in Callers \ {c} : pc'[d] = pc[d] /\ args'[d] = args[d]
    BY <1>6 DEF Begin, At, Goto, StoreInv, TypeOK
  <2>2. Told' = Told
    BY <2>1, ToldSame
  <2> QED
    BY <1>6, <2>2 DEF Begin, store, Ledger!ledgerVars, Ledger!records
<1> QED
  BY <1>1, <1>2, <1>3, <1>4, <1>5, <1>6 DEF Next, BeginIssue, BeginConsume, BeginSweep, Sections

\* Whatever the interleaving, a caller of issue and consume cannot tell the
\* sharded store from one atomic ledger of single-use nonces: every consume is
\* told what the ledger tells its verifier at its reading of the clock.
THEOREM StoreImplementsLedger == Spec => ImplementsLedger
<1>1. Init => Ledger!LedgerInit
  BY DEF Init, Told, Ledger!LedgerInit
<1> QED
  BY <1>1, LedgerStep, StoreCorrect, PTL DEF Spec, ImplementsLedger, Ledger!LedgerSpec

=============================================================================
