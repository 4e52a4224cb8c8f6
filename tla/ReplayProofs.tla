---------------------------- MODULE ReplayProofs ----------------------------
(***************************************************************************)
(* What is good once or for one handshake only. The message-id deny list   *)
(* for any number of threads, ids and shards: an id is recorded once, the  *)
(* counter is exact, and how far the list can outgrow its capacity. The    *)
(* identity mechanisms for any peers, keys and issuers: a proof verifies   *)
(* in the handshake it was made for and in no other.                       *)
(***************************************************************************)
EXTENDS DenyList, Identity, VerifierProofs, FiniteSetTheorems, FunctionTheorems, TLAPS

(***************************************************************************)
(* The inductive invariant.                                                *)
(***************************************************************************)
Accesses == {"idle", "purge", "subtract", "lookup", "put", "count",
             "sweep", "swept", "recheck", "relock"}

Insertion == [op : {"insert"}, id : Ids, now : Nat, until : Nat]
Lookups == [op : {"contains"}, id : Ids, now : Nat]
Sweeps == [op : {"sweep"}, now : Nat]
Calls == Insertion \cup Lookups \cup Sweeps

Types ==
  /\ until \in [Ids -> Nat \cup {Absent}]
  /\ live \in Nat
  /\ lock \in [Shards -> Callers \cup {NoOne}]
  /\ pc \in [Callers -> Accesses]
  /\ args \in [Callers -> Calls \cup {Absent}]
  /\ freed \in [Callers -> SUBSET Ids]
  /\ cursor \in [Callers -> 1..(NumShards + 1)]
  /\ clock \in 0..MaxTime

\* Which calls can be at which access.
ArgsFit(c) ==
  /\ pc[c] \in {"purge", "subtract", "lookup"} => args[c] \in Insertion \cup Lookups
  /\ pc[c] \in {"sweep", "swept"} => args[c] \in Insertion \cup Sweeps
  /\ pc[c] \in {"put", "count", "recheck", "relock"} => args[c] \in Insertion

\* A call has a debt between a purge and its subtraction only, and its sweep
\* has purged the shards before the cursor.
DebtFits(c) ==
  /\ pc[c] \notin {"subtract", "sweep", "swept"} => freed[c] = {}
  /\ pc[c] \in {"idle", "purge", "subtract", "lookup"} => cursor[c] = 1
  /\ pc[c] = "sweep" => cursor[c] \in Shards /\ \A i \in freed[c] : ShardOf[i] < cursor[c]

\* The shard is locked where it must be; under the lock, the id stays absent
\* until the record is put and present until it is counted.
LockFits(c) ==
  /\ pc[c] \in Locked => lock[MyShard(c)] = c
  /\ pc[c] = "put" => until[args[c].id] = Absent
  /\ pc[c] = "count" => until[args[c].id] # Absent

CallsFit == \A c \in Callers : ArgsFit(c) /\ DebtFits(c) /\ LockFits(c)

HeldIn(m) == {i \in Ids : m[i] # Absent}
DebtOf(f) == {p \in Callers \X Ids : p[2] \in f[p[1]]}
Counting(p) == {c \in Callers : p[c] = "count"}

\* Callers that found room and have not put their record yet.
Admitted(p) == {c \in Callers : p[c] \in {"put", "relock"}}

Exact == live + Cardinality(Counting(pc)) = Cardinality(HeldIn(until)) + Cardinality(DebtOf(freed))

\* The records, with those still to be put, keep to the bound.
OverrunReserved ==
  Cardinality(HeldIn(until)) + Cardinality(Admitted(pc)) <= Capacity + Cardinality(Callers) - 1

ListInv == Types /\ CallsFit /\ Exact /\ OverrunReserved

(***************************************************************************)
(* Counting records, debts and calls.                                      *)
(***************************************************************************)

\* A list holds finitely many records.
LEMMA HeldFinite ==
  ASSUME NEW m
  PROVE  IsFiniteSet(HeldIn(m)) /\ Cardinality(HeldIn(m)) \in Nat
BY ConstantAssumption, FS_Subset, FS_CardinalityType DEF HeldIn

\* Calls owe the counter finitely much.
LEMMA DebtFinite ==
  ASSUME NEW f
  PROVE  IsFiniteSet(DebtOf(f)) /\ Cardinality(DebtOf(f)) \in Nat
<1>1. IsFiniteSet(Callers \X Ids)
  BY ConstantAssumption, FS_Product
<1> QED
  BY <1>1, FS_Subset, FS_CardinalityType DEF DebtOf

\* Calls between put and count, and between check and put, are finitely many.
LEMMA CallsFinite ==
  ASSUME NEW p
  PROVE  /\ IsFiniteSet(Counting(p)) /\ Cardinality(Counting(p)) \in Nat
         /\ IsFiniteSet(Admitted(p)) /\ Cardinality(Admitted(p)) \in Nat
BY ConstantAssumption, FS_Subset, FS_CardinalityType DEF Counting, Admitted

\* A purge lowers the number of records by what it drops.
LEMMA HeldMinus ==
  ASSUME NEW m, NEW S \in SUBSET HeldIn(m), NEW w, w = [i \in Ids |-> IF i \in S THEN Absent ELSE m[i]]
  PROVE  /\ Cardinality(HeldIn(w)) = Cardinality(HeldIn(m)) - Cardinality(S)
         /\ IsFiniteSet(S) /\ Cardinality(S) \in Nat
<1>1. HeldIn(w) = HeldIn(m) \ S
  BY DEF HeldIn
<1>2. IsFiniteSet(HeldIn(m)) /\ IsFiniteSet(S)
  BY HeldFinite, FS_Subset
<1>3. HeldIn(m) \cap S = S
  OBVIOUS
<1>4. Cardinality(HeldIn(m) \ S) = Cardinality(HeldIn(m)) - Cardinality(S)
  BY <1>2, <1>3, FS_Difference
<1> QED
  BY <1>1, <1>2, <1>4, FS_CardinalityType

\* A record put for an absent id adds one.
LEMMA HeldPlus ==
  ASSUME NEW m \in [Ids -> Nat \cup {Absent}], NEW i \in Ids, m[i] = Absent, NEW v \in Nat
  PROVE  Cardinality(HeldIn([m EXCEPT ![i] = v])) = Cardinality(HeldIn(m)) + 1
<1>1. HeldIn([m EXCEPT ![i] = v]) = HeldIn(m) \cup {i} /\ i \notin HeldIn(m)
  BY ConstantAssumption DEF HeldIn
<1> QED
  BY <1>1, HeldFinite, FS_AddElement

\* A row {c} x S of the debt counts as much as S.
LEMMA RowCount ==
  ASSUME NEW c, NEW S, IsFiniteSet(S)
  PROVE  IsFiniteSet({c} \X S) /\ Cardinality({c} \X S) = Cardinality(S) /\ Cardinality(S) \in Nat
<1>1. IsFiniteSet({c}) /\ Cardinality({c}) = 1
  BY FS_Singleton
<1>2. Cardinality({c} \X S) = 1 * Cardinality(S) /\ IsFiniteSet({c} \X S)
  BY <1>1, FS_Product
<1> QED
  BY <1>2, FS_CardinalityType

\* What a call purges, it owes to the counter.
LEMMA DebtPlus ==
  ASSUME freed \in [Callers -> SUBSET Ids], NEW c \in Callers, NEW S \in SUBSET Ids, freed[c] \cap S = {},
         freed' = [freed EXCEPT ![c] = freed[c] \cup S]
  PROVE  Cardinality(DebtOf(freed')) = Cardinality(DebtOf(freed)) + Cardinality(S)
<1> DEFINE D == DebtOf(freed)
           R == {c} \X S
<1>1. IsFiniteSet(S)
  BY ConstantAssumption, FS_Subset
<1>2. DebtOf(freed') = D \cup R /\ D \cap R = {}
  BY DEF DebtOf
<1>3. IsFiniteSet(R) /\ Cardinality(R) = Cardinality(S) /\ Cardinality(S) \in Nat
  BY <1>1, RowCount
<1>4. IsFiniteSet(D) /\ Cardinality(D) \in Nat
  BY DebtFinite
<1> HIDE DEF D, R
<1>5. Cardinality(D \cup R) = Cardinality(D) + Cardinality(R) - Cardinality(D \cap R)
  BY <1>3, <1>4, FS_Union
<1>6. Cardinality(D \cap R) = 0
  BY <1>2, FS_EmptySet
<1>7. Cardinality(DebtOf(freed')) = Cardinality(D \cup R)
  BY <1>2
<1>8. Cardinality(DebtOf(freed')) = Cardinality(D) + Cardinality(S)
  BY <1>3, <1>4, <1>5, <1>6, <1>7
<1> QED
  BY <1>8 DEF D

\* The subtraction pays the call's debt in full, and there is that much.
LEMMA DebtPaid ==
  ASSUME freed \in [Callers -> SUBSET Ids], NEW c \in Callers, freed' = [freed EXCEPT ![c] = {}]
  PROVE  /\ Cardinality(DebtOf(freed')) = Cardinality(DebtOf(freed)) - Cardinality(freed[c])
         /\ Cardinality(freed[c]) \in Nat /\ Cardinality(freed[c]) <= Cardinality(DebtOf(freed))
<1> DEFINE D == DebtOf(freed)
           R == {c} \X freed[c]
<1>1. IsFiniteSet(freed[c])
  BY ConstantAssumption, FS_Subset
<1>2. DebtOf(freed') = D \ R /\ R \subseteq D /\ D \cap R = R
  BY DEF DebtOf
<1>3. IsFiniteSet(R) /\ Cardinality(R) = Cardinality(freed[c]) /\ Cardinality(freed[c]) \in Nat
  BY <1>1, RowCount
<1>4. IsFiniteSet(D) /\ Cardinality(D) \in Nat
  BY DebtFinite
<1> HIDE DEF D, R
<1>5. Cardinality(D \ R) = Cardinality(D) - Cardinality(R)
  BY <1>2, <1>4, FS_Difference
<1>6. Cardinality(R) <= Cardinality(D)
  BY <1>2, <1>4, FS_Subset
<1> QED
  BY <1>2, <1>3, <1>5, <1>6 DEF D

\* What a set of callers counts after one of them was added or taken out.
LEMMA OneCaller ==
  ASSUME NEW S, NEW T, IsFiniteSet(S), NEW c, NEW before \in BOOLEAN, NEW after \in BOOLEAN,
         c \in S <=> before, T = IF after THEN S \cup {c} ELSE S \ {c}
  PROVE  Cardinality(T) = Cardinality(S) + (IF after THEN 1 ELSE 0) - (IF before THEN 1 ELSE 0)
<1>1. /\ Cardinality(S \cup {c}) = IF c \in S THEN Cardinality(S) ELSE Cardinality(S) + 1
      /\ Cardinality(S \ {c}) = IF c \in S THEN Cardinality(S) - 1 ELSE Cardinality(S)
  BY FS_AddElement, FS_RemoveElement
<1>2. Cardinality(S) \in Nat
  BY FS_CardinalityType
<1>3. CASE after
  BY <1>1, <1>2, <1>3
<1>4. CASE ~after
  BY <1>1, <1>2, <1>4
<1> QED
  BY <1>3, <1>4

\* How the two counts of calls change when c goes on to access x.
CallMoves(c, x) ==
  /\ Cardinality(Counting(pc')) = Cardinality(Counting(pc))
       + (IF x = "count" THEN 1 ELSE 0) - (IF pc[c] = "count" THEN 1 ELSE 0)
  /\ Cardinality(Admitted(pc')) = Cardinality(Admitted(pc))
       + (IF x \in {"put", "relock"} THEN 1 ELSE 0) - (IF pc[c] \in {"put", "relock"} THEN 1 ELSE 0)

\* A call that goes on changes the counts by itself only.
LEMMA PcMoves ==
  ASSUME pc \in [Callers -> Accesses], NEW c \in Callers, NEW x \in Accesses, pc' = [pc EXCEPT ![c] = x]
  PROVE  CallMoves(c, x)
<1>1. Counting(pc') = IF x = "count" THEN Counting(pc) \cup {c} ELSE Counting(pc) \ {c}
  BY DEF Counting
<1>2. Admitted(pc') = IF x \in {"put", "relock"} THEN Admitted(pc) \cup {c} ELSE Admitted(pc) \ {c}
  BY DEF Admitted
<1>3. (c \in Counting(pc) <=> pc[c] = "count") /\ (c \in Admitted(pc) <=> pc[c] \in {"put", "relock"})
  BY DEF Counting, Admitted
<1>4. Cardinality(Counting(pc')) = Cardinality(Counting(pc))
              + (IF x = "count" THEN 1 ELSE 0) - (IF pc[c] = "count" THEN 1 ELSE 0)
  BY <1>1, <1>3, CallsFinite, OneCaller
<1>5. Cardinality(Admitted(pc')) = Cardinality(Admitted(pc))
              + (IF x \in {"put", "relock"} THEN 1 ELSE 0) - (IF pc[c] \in {"put", "relock"} THEN 1 ELSE 0)
  BY <1>2, <1>3, CallsFinite, OneCaller
<1> QED
  BY <1>4, <1>5 DEF CallMoves

\* A call that is neither about to put nor to count leaves one of the callers
\* out of both counts.
LEMMA SpareCaller ==
  ASSUME NEW p \in [Callers -> Accesses], NEW c \in Callers, p[c] \notin {"put", "relock", "count"}
  PROVE  Cardinality(Counting(p)) + Cardinality(Admitted(p)) + 1 <= Cardinality(Callers)
<1> DEFINE C == Counting(p)
           A == Admitted(p)
<1>1. /\ IsFiniteSet(C) /\ IsFiniteSet(A) /\ Cardinality(C) \in Nat /\ Cardinality(A) \in Nat
  BY CallsFinite
<1>2. C \cap A = {} /\ c \notin C \cup A /\ (C \cup A) \cup {c} \subseteq Callers
  BY DEF Counting, Admitted
<1> HIDE DEF C, A
<1>3. IsFiniteSet(C \cup A) /\ Cardinality(C \cup A) = Cardinality(C) + Cardinality(A) - Cardinality(C \cap A)
  BY <1>1, FS_Union
<1>4. Cardinality(C \cap A) = 0
  BY <1>2, FS_EmptySet
<1>5. Cardinality((C \cup A) \cup {c}) = Cardinality(C \cup A) + 1
  BY <1>2, <1>3, FS_AddElement
<1>6. Cardinality((C \cup A) \cup {c}) <= Cardinality(Callers)
  BY <1>2, ConstantAssumption, FS_Subset
<1>7. Cardinality(C) + Cardinality(A) + 1 <= Cardinality(Callers)
  BY <1>1, <1>3, <1>4, <1>5, <1>6
<1> QED
  BY <1>7 DEF C, A

\* Calls about to count have put records of different ids, for they hold the
\* locks of different shards: there are at least as many records.
LEMMA CountingHeld ==
  ASSUME ListInv
  PROVE  Cardinality(Counting(pc)) <= Cardinality(HeldIn(until))
<1> DEFINE g == [c \in Counting(pc) |-> args[c].id]
<1>1. ASSUME NEW c \in Counting(pc)
      PROVE  c \in Callers /\ args[c].id \in HeldIn(until) /\ lock[ShardOf[args[c].id]] = c
  <2>1. c \in Callers /\ pc[c] = "count"
    BY DEF Counting
  <2>2. args[c].id \in Ids
    BY <2>1 DEF ListInv, CallsFit, ArgsFit, Insertion
  <2>3. until[args[c].id] # Absent /\ lock[MyShard(c)] = c
    BY <2>1 DEF ListInv, CallsFit, LockFits, Locked
  <2> QED
    BY <2>1, <2>2, <2>3 DEF HeldIn, MyShard
<1>2. g \in [Counting(pc) -> HeldIn(until)]
  BY <1>1
<1>3. \A c, d \in Counting(pc) : g[c] = g[d] => c = d
  BY <1>1
<1>4. g \in Injection(Counting(pc), HeldIn(until))
  BY <1>2, <1>3 DEF Injection, IsInjective
<1> QED
  BY <1>4, HeldFinite, FS_Injection

(***************************************************************************)
(* One step of one call.                                                   *)
(***************************************************************************)
FitsCall(c) == ArgsFit(c) /\ DebtFits(c) /\ LockFits(c)

\* A step of c leaves the other calls in order: it changes records only in
\* shards that are free or its own, and no lock that another call holds.
LEMMA OthersKeep ==
  ASSUME Types, CallsFit, NEW c \in Callers,
         \A d \in Callers : d # c => /\ pc'[d] = pc[d] /\ args'[d] = args[d]
                                     /\ freed'[d] = freed[d] /\ cursor'[d] = cursor[d],
         \A s \in Shards : lock'[s] = lock[s] \/ lock[s] \in {NoOne, c},
         \A i \in Ids : until'[i] = until[i] \/ lock[ShardOf[i]] \in {NoOne, c},
         FitsCall(c)'
  PROVE  CallsFit'
<1> SUFFICES ASSUME NEW d \in Callers, d # c PROVE (ArgsFit(d) /\ DebtFits(d) /\ LockFits(d))'
  BY DEF CallsFit, FitsCall
<1>1. ArgsFit(d) /\ DebtFits(d) /\ LockFits(d)
  BY DEF CallsFit
<1>2. pc'[d] = pc[d] /\ args'[d] = args[d] /\ freed'[d] = freed[d] /\ cursor'[d] = cursor[d]
  OBVIOUS
<1>3. ArgsFit(d)'
  BY <1>1, <1>2 DEF ArgsFit
<1>4. DebtFits(d)'
  BY <1>1, <1>2 DEF DebtFits
<1>5. ASSUME pc[d] \in Locked
      PROVE  lock'[MyShard(d)] = d /\ until'[args[d].id] = until[args[d].id]
  <2>1. args[d].id \in Ids
    BY <1>1, <1>5 DEF ArgsFit, Locked, Insertion, Lookups
  <2>2. MyShard(d) = ShardOf[args[d].id] /\ MyShard(d) \in Shards /\ lock[MyShard(d)] = d
    BY <1>1, <1>5, <2>1, ConstantAssumption DEF LockFits, MyShard
  <2>3. d # NoOne
    BY ConstantAssumption
  <2> QED
    BY <2>1, <2>2, <2>3
<1>6. LockFits(d)'
  BY <1>1, <1>2, <1>5 DEF LockFits, MyShard, Locked
<1> QED
  BY <1>3, <1>4, <1>6

\* The counts once the list has the types.
LEMMA Counts ==
  ASSUME ListInv
  PROVE  /\ live \in Nat /\ Capacity \in Nat
         /\ Cardinality(Callers) \in Nat /\ Cardinality(Callers) >= 1
         /\ Cardinality(HeldIn(until)) \in Nat /\ Cardinality(DebtOf(freed)) \in Nat
         /\ Cardinality(Counting(pc)) \in Nat /\ Cardinality(Admitted(pc)) \in Nat
         /\ live + Cardinality(Counting(pc)) = Cardinality(HeldIn(until)) + Cardinality(DebtOf(freed))
         /\ Cardinality(HeldIn(until)) + Cardinality(Admitted(pc)) <= Capacity + Cardinality(Callers) - 1
<1>1. Cardinality(Callers) \in Nat /\ Cardinality(Callers) # 0
  BY ConstantAssumption, FS_CardinalityType, FS_EmptySet
<1> QED
  BY <1>1, ConstantAssumption, HeldFinite, DebtFinite, CallsFinite DEF ListInv, Types, Exact, OverrunReserved

\* The initial list is empty and no call is inside it.
LEMMA InitInv == Init => ListInv
<1> SUFFICES ASSUME Init PROVE ListInv
  OBVIOUS
<1>1. Types
  BY ConstantAssumption DEF Init, Types, Accesses
<1>2. CallsFit
  BY DEF Init, CallsFit, ArgsFit, DebtFits, LockFits, Locked
<1>3. HeldIn(until) = {} /\ DebtOf(freed) = {} /\ Counting(pc) = {} /\ Admitted(pc) = {}
  BY DEF Init, HeldIn, DebtOf, Counting, Admitted
<1>4. Cardinality({}) = 0
  BY FS_EmptySet
<1>5. Cardinality(Callers) \in Nat /\ Cardinality(Callers) # 0
  BY ConstantAssumption, FS_CardinalityType, FS_EmptySet
<1>6. Exact
  BY <1>3, <1>4 DEF Init, Exact
<1>7. OverrunReserved
  BY <1>3, <1>4, <1>5, ConstantAssumption DEF OverrunReserved
<1> QED
  BY <1>1, <1>2, <1>6, <1>7 DEF ListInv

\* A call begins: contains, insert and sweep.
LEMMA BeginInv ==
  ASSUME ListInv, NEW c \in Callers, NEW x \in Accesses, NEW a \in Calls, Begin(c, x, a),
         \/ x = "purge" /\ a \in Insertion \cup Lookups
         \/ x = "sweep" /\ a \in Sweeps
  PROVE  ListInv'
<1>1. Types'
  BY DEF ListInv, Types, Begin, Goto, list
<1>2. /\ pc[c] = "idle" /\ pc' = [pc EXCEPT ![c] = x] /\ args' = [args EXCEPT ![c] = a]
      /\ until' = until /\ live' = live /\ lock' = lock /\ freed' = freed /\ cursor' = cursor
  BY DEF Begin, At, Goto, list
<1>3. pc'[c] = x /\ args'[c] = a /\ freed[c] = {} /\ cursor[c] = 1
  BY <1>2 DEF ListInv, Types, CallsFit, DebtFits
<1>4. 1 \in Shards
  BY ConstantAssumption DEF Shards
<1>5. FitsCall(c)'
  BY <1>2, <1>3, <1>4 DEF FitsCall, ArgsFit, DebtFits, LockFits, Locked
<1>6. \A d \in Callers : d # c => pc'[d] = pc[d] /\ args'[d] = args[d]
  BY <1>2 DEF ListInv, Types
<1>7. CallsFit'
  BY <1>2, <1>5, <1>6, OthersKeep DEF ListInv
<1>8. /\ Cardinality(Counting(pc')) = Cardinality(Counting(pc))
      /\ Cardinality(Admitted(pc')) = Cardinality(Admitted(pc))
  <2>1. pc \in [Callers -> Accesses] /\ pc' = [pc EXCEPT ![c] = x]
    BY <1>2 DEF ListInv, Types
  <2>2. CallMoves(c, x)
    BY <2>1, PcMoves
  <2> QED
    BY <1>2, <2>2, Counts DEF CallMoves
<1>9. Exact' /\ OverrunReserved'
  BY <1>2, <1>8 DEF ListInv, Exact, OverrunReserved
<1> QED
  BY <1>1, <1>7, <1>9 DEF ListInv

\* Time passes.
LEMMA TickInv ==
  ASSUME ListInv, Tick
  PROVE  ListInv'
<1>1. UNCHANGED <<until, live, lock, pc, args, freed, cursor>>
  BY DEF Tick, list
<1>2. Types'
  BY <1>1, ConstantAssumption DEF ListInv, Types, Tick
<1>3. CallsFit'
  BY <1>1 DEF ListInv, CallsFit, ArgsFit, DebtFits, LockFits, MyShard
<1>4. Exact' /\ OverrunReserved'
  BY <1>1 DEF ListInv, Exact, OverrunReserved
<1> QED
  BY <1>2, <1>3, <1>4 DEF ListInv

\* What a purge of shard s drops are records of that shard.
LEMMA PurgedHeld ==
  ASSUME NEW s, NEW at
  PROVE  Purged(s, at) \in SUBSET HeldIn(until) /\ \A i \in Purged(s, at) : i \in Ids /\ ShardOf[i] = s
BY DEF Purged, HeldIn

\* insert and contains purge their shard under its lock.
LEMMA PurgeInv ==
  ASSUME ListInv, NEW c \in Callers, Purge(c)
  PROVE  ListInv'
<1> DEFINE s == MyShard(c)
           gone == Purged(s, args[c].now)
<1>1. /\ pc[c] = "purge" /\ lock[s] = NoOne /\ lock' = [lock EXCEPT ![s] = c]
      /\ until' = [i \in Ids |-> IF i \in gone THEN Absent ELSE until[i]]
      /\ freed' = [freed EXCEPT ![c] = gone] /\ pc' = [pc EXCEPT ![c] = "subtract"]
      /\ live' = live /\ args' = args /\ cursor' = cursor /\ clock' = clock
  BY DEF Purge, At, Lock, Goto, Without
<1>2. /\ args[c] \in Insertion \cup Lookups /\ freed[c] = {} /\ cursor[c] = 1
  BY <1>1 DEF ListInv, CallsFit, ArgsFit, DebtFits
<1>3. args[c].id \in Ids /\ s \in Shards /\ s = ShardOf[args[c].id]
  BY <1>2, ConstantAssumption DEF Insertion, Lookups, MyShard
<1>4. gone \in SUBSET HeldIn(until) /\ gone \in SUBSET Ids /\ \A i \in gone : ShardOf[i] = s
  BY PurgedHeld DEF HeldIn
<1> HIDE DEF gone, s
<1>5. Types'
  BY <1>1, <1>3, <1>4 DEF ListInv, Types, Accesses
<1>6. pc'[c] = "subtract" /\ args'[c] = args[c] /\ lock'[s] = c /\ cursor'[c] = 1
  BY <1>1, <1>2, <1>3 DEF ListInv, Types
<1>7. FitsCall(c)'
  BY <1>2, <1>3, <1>6 DEF FitsCall, ArgsFit, DebtFits, LockFits, Locked, MyShard
<1>8. CallsFit'
  <2>1. \A d \in Callers : d # c => /\ pc'[d] = pc[d] /\ args'[d] = args[d]
                                    /\ freed'[d] = freed[d] /\ cursor'[d] = cursor[d]
    BY <1>1 DEF ListInv, Types
  <2>2. \A t \in Shards : lock'[t] = lock[t] \/ lock[t] \in {NoOne, c}
    BY <1>1 DEF ListInv, Types
  <2>3. \A i \in Ids : until'[i] = until[i] \/ lock[ShardOf[i]] \in {NoOne, c}
    BY <1>1, <1>4
  <2> QED
    BY <1>7, <2>1, <2>2, <2>3, OthersKeep DEF ListInv
<1>9. /\ Cardinality(HeldIn(until')) = Cardinality(HeldIn(until)) - Cardinality(gone)
      /\ Cardinality(gone) \in Nat
  BY <1>1, <1>4, HeldMinus
<1>10. Cardinality(DebtOf(freed')) = Cardinality(DebtOf(freed)) + Cardinality(gone)
  <2>1. freed \in [Callers -> SUBSET Ids] /\ freed' = [freed EXCEPT ![c] = freed[c] \cup gone]
    BY <1>1, <1>2 DEF ListInv, Types
  <2>2. freed[c] \cap gone = {}
    BY <1>2
  <2> QED
    BY <1>2, <1>4, <2>1, <2>2, DebtPlus
<1>11. /\ Cardinality(Counting(pc')) = Cardinality(Counting(pc))
       /\ Cardinality(Admitted(pc')) = Cardinality(Admitted(pc))
  <2>1. pc \in [Callers -> Accesses] /\ "subtract" \in Accesses
    BY DEF ListInv, Types, Accesses
  <2>2. CallMoves(c, "subtract")
    BY <1>1, <2>1, PcMoves
  <2> QED
    BY <1>1, <2>2, Counts DEF CallMoves
<1>12. Exact' /\ OverrunReserved'
  BY <1>1, <1>9, <1>10, <1>11, Counts DEF Exact, OverrunReserved
<1> QED
  BY <1>5, <1>8, <1>12 DEF ListInv

\* A return leaves nothing of the call.
LEMMA ReturnFits ==
  ASSUME Types, NEW c \in Callers, Return(c), freed'[c] = {}
  PROVE  /\ pc' = [pc EXCEPT ![c] = "idle"] /\ FitsCall(c)'
         /\ pc' \in [Callers -> Accesses] /\ args' \in [Callers -> Calls \cup {Absent}]
         /\ cursor' \in [Callers -> 1..(NumShards + 1)]
         /\ \A d \in Callers : d # c => pc'[d] = pc[d] /\ args'[d] = args[d] /\ cursor'[d] = cursor[d]
<1>1. /\ pc' = [pc EXCEPT ![c] = "idle"] /\ args' = [args EXCEPT ![c] = Absent]
      /\ cursor' = [cursor EXCEPT ![c] = 1]
  BY DEF Return, Goto
<1>2. 1 \in 1..(NumShards + 1) /\ "idle" \in Accesses
  BY ConstantAssumption DEF Accesses
<1>3. /\ pc' \in [Callers -> Accesses] /\ args' \in [Callers -> Calls \cup {Absent}]
      /\ cursor' \in [Callers -> 1..(NumShards + 1)] /\ pc'[c] = "idle" /\ cursor'[c] = 1
  BY <1>1, <1>2 DEF Types
<1>4. FitsCall(c)'
  BY <1>3 DEF FitsCall, ArgsFit, DebtFits, LockFits, Locked
<1> QED
  BY <1>1, <1>3, <1>4 DEF Types

\* Going on to another access types the program counter.
LEMMA GotoType ==
  ASSUME Types, NEW c \in Callers, NEW x \in Accesses, Goto(c, x)
  PROVE  /\ pc' = [pc EXCEPT ![c] = x] /\ pc'[c] = x /\ pc' \in [Callers -> Accesses]
         /\ \A d \in Callers : d # c => pc'[d] = pc[d]
BY DEF Types, Goto

\* Under the lock: the call's id, its shard, and that the call may let go.
LEMMA UnderLock ==
  ASSUME ListInv, NEW c \in Callers, pc[c] \in Locked
  PROVE  /\ args[c].id \in Ids /\ MyShard(c) \in Shards /\ MyShard(c) = ShardOf[args[c].id]
         /\ lock[MyShard(c)] = c
         /\ Unlock(c) => /\ lock' \in [Shards -> Callers \cup {NoOne}]
                         /\ \A s \in Shards : lock'[s] = lock[s] \/ lock[s] \in {NoOne, c}
<1>1. args[c].id \in Ids
  BY DEF ListInv, CallsFit, ArgsFit, Locked, Insertion, Lookups
<1>2. MyShard(c) \in Shards /\ MyShard(c) = ShardOf[args[c].id]
  BY <1>1, ConstantAssumption DEF MyShard
<1>3. lock[MyShard(c)] = c
  BY DEF ListInv, CallsFit, LockFits
<1> QED
  BY <1>1, <1>2, <1>3 DEF Unlock, ListInv, Types

\* The subtraction never takes the counter below zero.
LEMMA DebtCovered ==
  ASSUME ListInv, NEW c \in Callers, freed' = [freed EXCEPT ![c] = {}]
  PROVE  /\ live - Cardinality(freed[c]) \in Nat /\ Cardinality(freed[c]) \in Nat
         /\ Cardinality(DebtOf(freed')) = Cardinality(DebtOf(freed)) - Cardinality(freed[c])
<1>1. freed \in [Callers -> SUBSET Ids]
  BY DEF ListInv, Types
<1>2. /\ Cardinality(DebtOf(freed')) = Cardinality(DebtOf(freed)) - Cardinality(freed[c])
      /\ Cardinality(freed[c]) \in Nat /\ Cardinality(freed[c]) <= Cardinality(DebtOf(freed))
  BY <1>1, DebtPaid
<1>3. Cardinality(Counting(pc)) <= Cardinality(HeldIn(until))
  BY CountingHeld
<1> QED
  BY <1>2, <1>3, Counts

\* The purge of insert and contains is subtracted.
LEMMA SubtractInv ==
  ASSUME ListInv, NEW c \in Callers, Subtract(c)
  PROVE  ListInv'
<1>1. /\ pc[c] = "subtract" /\ live' = live - Cardinality(freed[c])
      /\ freed' = [freed EXCEPT ![c] = {}] /\ Goto(c, "lookup")
      /\ until' = until /\ lock' = lock /\ args' = args /\ cursor' = cursor /\ clock' = clock
  BY DEF Subtract, At
<1>2. /\ pc' = [pc EXCEPT ![c] = "lookup"] /\ pc'[c] = "lookup" /\ pc' \in [Callers -> Accesses]
      /\ \A d \in Callers : d # c => pc'[d] = pc[d]
  <2>1. "lookup" \in Accesses
    BY DEF Accesses
  <2> QED
    BY <1>1, <2>1, GotoType DEF ListInv
<1>3. /\ live' \in Nat /\ Cardinality(freed[c]) \in Nat
      /\ Cardinality(DebtOf(freed')) = Cardinality(DebtOf(freed)) - Cardinality(freed[c])
  BY <1>1, DebtCovered
<1>4. Types'
  BY <1>1, <1>2, <1>3 DEF ListInv, Types
<1>5. FitsCall(c)'
  <2>1. ArgsFit(c) /\ DebtFits(c) /\ LockFits(c) /\ freed'[c] = {}
    BY <1>1 DEF ListInv, Types, CallsFit
  <2>2. ArgsFit(c)' /\ DebtFits(c)'
    BY <1>1, <1>2, <2>1 DEF ArgsFit, DebtFits
  <2>3. LockFits(c)'
    BY <1>1, <1>2, <2>1 DEF LockFits, Locked, MyShard
  <2> QED
    BY <2>2, <2>3 DEF FitsCall
<1>6. CallsFit'
  <2>1. \A d \in Callers : d # c => freed'[d] = freed[d]
    BY <1>1 DEF ListInv, Types
  <2> QED
    BY <1>1, <1>2, <1>5, <2>1, OthersKeep DEF ListInv
<1>7. CallMoves(c, "lookup")
  BY <1>2, PcMoves DEF ListInv, Types, Accesses
<1>8. Exact' /\ OverrunReserved'
  BY <1>1, <1>3, <1>7, Counts DEF CallMoves, Exact, OverrunReserved
<1> QED
  BY <1>4, <1>6, <1>8 DEF ListInv

\* Room was found: a call that read a counter below the capacity may put a
\* record, since each of the others reserved at most one.
LEMMA RoomFound ==
  ASSUME ListInv, NEW c \in Callers, pc[c] \notin {"put", "relock", "count"}, live < Capacity
  PROVE  Cardinality(HeldIn(until)) + Cardinality(Admitted(pc)) + 1 <= Capacity + Cardinality(Callers) - 1
<1>1. Cardinality(Counting(pc)) + Cardinality(Admitted(pc)) + 1 <= Cardinality(Callers)
  BY SpareCaller DEF ListInv, Types
<1> QED
  BY <1>1, Counts

\* contains answers; insert finds its id, a full list, or room.
LEMMA LookupInv ==
  ASSUME ListInv, NEW c \in Callers, Lookup(c)
  PROVE  ListInv'
<1>1. /\ pc[c] = "lookup" /\ until' = until /\ live' = live /\ freed' = freed /\ clock' = clock
  BY DEF Lookup, At
<1>2. /\ args[c] \in Insertion \cup Lookups /\ freed[c] = {} /\ cursor[c] = 1
  BY <1>1 DEF ListInv, CallsFit, ArgsFit, DebtFits
<1>3. /\ args[c].id \in Ids /\ MyShard(c) \in Shards /\ MyShard(c) = ShardOf[args[c].id]
      /\ lock[MyShard(c)] = c
      /\ Unlock(c) => /\ lock' \in [Shards -> Callers \cup {NoOne}]
                      /\ \A s \in Shards : lock'[s] = lock[s] \/ lock[s] \in {NoOne, c}
  BY <1>1, UnderLock DEF Locked
<1>4. CASE Unlock(c) /\ Return(c)
  <2>1. /\ pc' = [pc EXCEPT ![c] = "idle"] /\ FitsCall(c)'
        /\ pc' \in [Callers -> Accesses] /\ args' \in [Callers -> Calls \cup {Absent}]
        /\ cursor' \in [Callers -> 1..(NumShards + 1)]
        /\ \A d \in Callers : d # c => pc'[d] = pc[d] /\ args'[d] = args[d] /\ cursor'[d] = cursor[d]
    BY <1>1, <1>2, <1>4, ReturnFits DEF ListInv
  <2>2. Types'
    BY <1>1, <1>3, <1>4, <2>1 DEF ListInv, Types
  <2>3. CallsFit'
    BY <1>1, <1>3, <1>4, <2>1, OthersKeep DEF ListInv
  <2>4. CallMoves(c, "idle")
    BY <2>1, PcMoves DEF ListInv, Types, Accesses
  <2>5. Exact' /\ OverrunReserved'
    BY <1>1, <2>4, Counts DEF CallMoves, Exact, OverrunReserved
  <2> QED
    BY <2>2, <2>3, <2>5 DEF ListInv
<1>5. CASE args[c].op # "contains" /\ live >= Capacity /\ Unlock(c) /\ Goto(c, "sweep") /\ args' = args /\ cursor' = cursor
  <2>1. /\ pc' = [pc EXCEPT ![c] = "sweep"] /\ pc'[c] = "sweep" /\ pc' \in [Callers -> Accesses]
        /\ \A d \in Callers : d # c => pc'[d] = pc[d]
    <3>1. "sweep" \in Accesses
      BY DEF Accesses
    <3> QED
      BY <1>5, <3>1, GotoType DEF ListInv
  <2>2. Types'
    BY <1>1, <1>3, <1>5, <2>1 DEF ListInv, Types
  <2>3. FitsCall(c)'
    <3>1. 1 \in Shards /\ args[c] \in Insertion
      BY <1>2, <1>5, ConstantAssumption DEF Shards, Lookups
    <3> QED
      BY <1>1, <1>2, <1>5, <2>1, <3>1 DEF FitsCall, ArgsFit, DebtFits, LockFits, Locked
  <2>4. CallsFit'
    BY <1>1, <1>3, <1>5, <2>1, <2>3, OthersKeep DEF ListInv
  <2>5. CallMoves(c, "sweep")
    BY <2>1, PcMoves DEF ListInv, Types, Accesses
  <2>6. Exact' /\ OverrunReserved'
    BY <1>1, <2>5, Counts DEF CallMoves, Exact, OverrunReserved
  <2> QED
    BY <2>2, <2>4, <2>6 DEF ListInv
<1>6. CASE /\ args[c].op # "contains" /\ until[args[c].id] = Absent /\ ~(live >= Capacity)
           /\ lock' = lock /\ Goto(c, "put") /\ args' = args /\ cursor' = cursor
  <2>1. /\ pc' = [pc EXCEPT ![c] = "put"] /\ pc'[c] = "put" /\ pc' \in [Callers -> Accesses]
        /\ \A d \in Callers : d # c => pc'[d] = pc[d]
    <3>1. "put" \in Accesses
      BY DEF Accesses
    <3> QED
      BY <1>6, <3>1, GotoType DEF ListInv
  <2>2. Types'
    BY <1>1, <1>6, <2>1 DEF ListInv, Types
  <2>3. FitsCall(c)'
    <3>1. args[c] \in Insertion
      BY <1>2, <1>6 DEF Lookups
    <3>2. ArgsFit(c)' /\ DebtFits(c)'
      BY <1>1, <1>2, <1>6, <2>1, <3>1 DEF ArgsFit, DebtFits
    <3>3. LockFits(c)'
      BY <1>1, <1>3, <1>6, <2>1 DEF LockFits, Locked, MyShard
    <3> QED
      BY <3>2, <3>3 DEF FitsCall
  <2>4. CallsFit'
    BY <1>1, <1>6, <2>1, <2>3, OthersKeep DEF ListInv
  <2>5. CallMoves(c, "put")
    BY <2>1, PcMoves DEF ListInv, Types, Accesses
  <2>6. Cardinality(HeldIn(until)) + Cardinality(Admitted(pc)) + 1 <= Capacity + Cardinality(Callers) - 1
    BY <1>1, <1>6, RoomFound, Counts
  <2>7. Exact' /\ OverrunReserved'
    BY <1>1, <2>5, <2>6, Counts DEF CallMoves, Exact, OverrunReserved
  <2> QED
    BY <2>2, <2>4, <2>7 DEF ListInv
<1> QED
  BY <1>4, <1>5, <1>6 DEF Lookup

\* The record is put under the lock.
LEMMA PutInv ==
  ASSUME ListInv, NEW c \in Callers, Put(c)
  PROVE  ListInv'
<1>1. /\ pc[c] = "put" /\ until' = [until EXCEPT ![args[c].id] = args[c].until] /\ Goto(c, "count")
      /\ live' = live /\ lock' = lock /\ args' = args /\ freed' = freed /\ cursor' = cursor /\ clock' = clock
  BY DEF Put, At
<1>2. args[c] \in Insertion /\ args[c].until \in Nat /\ freed[c] = {} /\ until[args[c].id] = Absent
  BY <1>1 DEF ListInv, CallsFit, ArgsFit, DebtFits, LockFits, Insertion
<1>3. args[c].id \in Ids /\ MyShard(c) = ShardOf[args[c].id] /\ lock[MyShard(c)] = c
  BY <1>1, UnderLock DEF Locked
<1>4. /\ pc' = [pc EXCEPT ![c] = "count"] /\ pc'[c] = "count" /\ pc' \in [Callers -> Accesses]
      /\ \A d \in Callers : d # c => pc'[d] = pc[d]
  <2>1. "count" \in Accesses
    BY DEF Accesses
  <2> QED
    BY <1>1, <2>1, GotoType DEF ListInv
<1>5. Types'
  BY <1>1, <1>2, <1>3, <1>4 DEF ListInv, Types
<1>6. until'[args[c].id] # Absent
  BY <1>1, <1>2, <1>3, ConstantAssumption DEF ListInv, Types
<1>7. FitsCall(c)'
  <2>1. ArgsFit(c)' /\ DebtFits(c)'
    BY <1>1, <1>2, <1>4 DEF ArgsFit, DebtFits
  <2>2. LockFits(c)'
    BY <1>1, <1>3, <1>4, <1>6 DEF LockFits, Locked, MyShard
  <2> QED
    BY <2>1, <2>2 DEF FitsCall
<1>8. CallsFit'
  <2>1. \A i \in Ids : until'[i] = until[i] \/ lock[ShardOf[i]] \in {NoOne, c}
    BY <1>1, <1>3 DEF ListInv, Types
  <2> QED
    BY <1>1, <1>4, <1>7, <2>1, OthersKeep DEF ListInv
<1>9. CallMoves(c, "count")
  BY <1>4, PcMoves DEF ListInv, Types, Accesses
<1>10. Cardinality(HeldIn(until')) = Cardinality(HeldIn(until)) + 1
  <2>1. until \in [Ids -> Nat \cup {Absent}]
    BY DEF ListInv, Types
  <2>2. Cardinality(HeldIn([until EXCEPT ![args[c].id] = args[c].until])) = Cardinality(HeldIn(until)) + 1
    BY <1>2, <1>3, <2>1, HeldPlus
  <2> QED
    BY <1>1, <2>2
<1>11. Exact' /\ OverrunReserved'
  BY <1>1, <1>9, <1>10, Counts DEF CallMoves, Exact, OverrunReserved
<1> QED
  BY <1>5, <1>8, <1>11 DEF ListInv

\* The record is counted and the lock let go.
LEMMA CountInv ==
  ASSUME ListInv, NEW c \in Callers, Count(c)
  PROVE  ListInv'
<1>1. /\ pc[c] = "count" /\ live' = live + 1 /\ Unlock(c) /\ Return(c)
      /\ until' = until /\ freed' = freed /\ clock' = clock
  BY DEF Count, At
<1>2. freed[c] = {}
  BY <1>1 DEF ListInv, CallsFit, DebtFits
<1>3. /\ lock' \in [Shards -> Callers \cup {NoOne}]
      /\ \A s \in Shards : lock'[s] = lock[s] \/ lock[s] \in {NoOne, c}
  BY <1>1, UnderLock DEF Locked
<1>4. /\ pc' = [pc EXCEPT ![c] = "idle"] /\ FitsCall(c)'
      /\ pc' \in [Callers -> Accesses] /\ args' \in [Callers -> Calls \cup {Absent}]
      /\ cursor' \in [Callers -> 1..(NumShards + 1)]
      /\ \A d \in Callers : d # c => pc'[d] = pc[d] /\ args'[d] = args[d] /\ cursor'[d] = cursor[d]
  BY <1>1, <1>2, ReturnFits DEF ListInv
<1>5. Types'
  BY <1>1, <1>3, <1>4 DEF ListInv, Types
<1>6. CallsFit'
  BY <1>1, <1>3, <1>4, OthersKeep DEF ListInv
<1>7. CallMoves(c, "idle")
  BY <1>4, PcMoves DEF ListInv, Types, Accesses
<1>8. Exact' /\ OverrunReserved'
  BY <1>1, <1>7, Counts DEF CallMoves, Exact, OverrunReserved
<1> QED
  BY <1>5, <1>6, <1>8 DEF ListInv

\* A sweep purges the next shard; what it purged before is of other shards.
LEMMA SweepShardInv ==
  ASSUME ListInv, NEW c \in Callers, SweepShard(c)
  PROVE  ListInv'
<1> DEFINE s == cursor[c]
           gone == Purged(s, args[c].now)
           x == IF s = NumShards THEN "swept" ELSE "sweep"
<1>1. /\ pc[c] = "sweep" /\ lock[s] = NoOne
      /\ until' = [i \in Ids |-> IF i \in gone THEN Absent ELSE until[i]]
      /\ freed' = [freed EXCEPT ![c] = freed[c] \cup gone] /\ Goto(c, x)
      /\ cursor' = [cursor EXCEPT ![c] = s + 1]
      /\ live' = live /\ lock' = lock /\ args' = args /\ clock' = clock
  BY DEF SweepShard, At, Without
<1>2. args[c] \in Insertion \cup Sweeps /\ s \in Shards /\ \A i \in freed[c] : ShardOf[i] < s
  BY <1>1 DEF ListInv, CallsFit, ArgsFit, DebtFits
<1>3. s \in 1..NumShards /\ NumShards \in Nat /\ \A i \in Ids : ShardOf[i] \in Nat
  BY <1>2, ConstantAssumption DEF Shards
<1>4. gone \in SUBSET HeldIn(until) /\ gone \in SUBSET Ids /\ \A i \in gone : ShardOf[i] = s
  BY PurgedHeld DEF HeldIn
<1>5. x \in Accesses /\ x \in {"sweep", "swept"} /\ (x = "sweep" => s # NumShards)
  BY DEF Accesses
<1> HIDE DEF gone, x
<1>6. /\ pc' = [pc EXCEPT ![c] = x] /\ pc'[c] = x /\ pc' \in [Callers -> Accesses]
      /\ \A d \in Callers : d # c => pc'[d] = pc[d]
  BY <1>1, <1>5, GotoType DEF ListInv
<1>7. /\ freed \in [Callers -> SUBSET Ids] /\ freed' \in [Callers -> SUBSET Ids]
      /\ freed'[c] = freed[c] \cup gone /\ \A d \in Callers : d # c => freed'[d] = freed[d]
  BY <1>1, <1>4 DEF ListInv, Types
<1>8. /\ cursor' \in [Callers -> 1..(NumShards + 1)] /\ cursor'[c] = s + 1
      /\ \A d \in Callers : d # c => cursor'[d] = cursor[d]
  BY <1>1, <1>3 DEF ListInv, Types
<1>9. until' \in [Ids -> Nat \cup {Absent}]
  BY <1>1 DEF ListInv, Types
<1>10. Types'
  BY <1>1, <1>6, <1>7, <1>8, <1>9 DEF ListInv, Types
<1>11. FitsCall(c)'
  <2>1. \A i \in freed'[c] : ShardOf[i] < s + 1
    BY <1>2, <1>3, <1>4, <1>7
  <2>2. x = "sweep" => s + 1 \in Shards
    BY <1>3, <1>5 DEF Shards
  <2>3. ArgsFit(c)'
    BY <1>1, <1>2, <1>5, <1>6 DEF ArgsFit
  <2>4. DebtFits(c)'
    BY <1>5, <1>6, <1>8, <2>1, <2>2 DEF DebtFits
  <2>5. LockFits(c)'
    BY <1>5, <1>6 DEF LockFits, Locked
  <2> QED
    BY <2>3, <2>4, <2>5 DEF FitsCall
<1>12. CallsFit'
  <2>1. \A i \in Ids : until'[i] = until[i] \/ lock[ShardOf[i]] \in {NoOne, c}
    BY <1>1, <1>4
  <2> QED
    BY <1>1, <1>6, <1>7, <1>8, <1>11, <2>1, OthersKeep DEF ListInv
<1>13. /\ Cardinality(HeldIn(until')) = Cardinality(HeldIn(until)) - Cardinality(gone)
       /\ Cardinality(gone) \in Nat
  BY <1>1, <1>4, HeldMinus
<1>14. Cardinality(DebtOf(freed')) = Cardinality(DebtOf(freed)) + Cardinality(gone)
  <2>1. freed[c] \cap gone = {}
    BY <1>2, <1>3, <1>4
  <2> QED
    BY <1>1, <1>4, <1>7, <2>1, DebtPlus
<1>15. CallMoves(c, x)
  BY <1>5, <1>6, PcMoves DEF ListInv, Types
<1>16. /\ Cardinality(Counting(pc')) = Cardinality(Counting(pc))
       /\ Cardinality(Admitted(pc')) = Cardinality(Admitted(pc))
  BY <1>1, <1>5, <1>15, Counts DEF CallMoves
<1>17. Exact' /\ OverrunReserved'
  BY <1>1, <1>13, <1>14, <1>16, Counts DEF Exact, OverrunReserved
<1> QED
  BY <1>10, <1>12, <1>17 DEF ListInv

\* What a sweep purged is subtracted at its end.
LEMMA SweepSubtractInv ==
  ASSUME ListInv, NEW c \in Callers, SweepSubtract(c)
  PROVE  ListInv'
<1>1. /\ pc[c] = "swept" /\ live' = live - Cardinality(freed[c])
      /\ freed' = [freed EXCEPT ![c] = {}]
      /\ until' = until /\ lock' = lock /\ clock' = clock
  BY DEF SweepSubtract, At
<1>2. /\ live' \in Nat /\ Cardinality(freed[c]) \in Nat
      /\ Cardinality(DebtOf(freed')) = Cardinality(DebtOf(freed)) - Cardinality(freed[c])
  BY <1>1, DebtCovered
<1>3. /\ freed' \in [Callers -> SUBSET Ids] /\ freed'[c] = {}
      /\ \A d \in Callers : d # c => freed'[d] = freed[d]
  BY <1>1 DEF ListInv, Types
<1>4. args[c] \in Insertion \cup Sweeps
  BY <1>1 DEF ListInv, CallsFit, ArgsFit
<1>5. CASE args[c].op = "insert" /\ Goto(c, "recheck") /\ args' = args /\ cursor' = cursor
  <2>1. /\ pc' = [pc EXCEPT ![c] = "recheck"] /\ pc'[c] = "recheck" /\ pc' \in [Callers -> Accesses]
        /\ \A d \in Callers : d # c => pc'[d] = pc[d]
    <3>1. "recheck" \in Accesses
      BY DEF Accesses
    <3> QED
      BY <1>5, <3>1, GotoType DEF ListInv
  <2>2. Types'
    BY <1>1, <1>2, <1>3, <1>5, <2>1 DEF ListInv, Types
  <2>3. args[c] \in Insertion
    BY <1>4, <1>5 DEF Sweeps
  <2>4. FitsCall(c)'
    BY <1>3, <1>5, <2>1, <2>3 DEF FitsCall, ArgsFit, DebtFits, LockFits, Locked
  <2>5. CallsFit'
    BY <1>1, <1>3, <1>5, <2>1, <2>4, OthersKeep DEF ListInv
  <2>6. CallMoves(c, "recheck")
    BY <2>1, PcMoves DEF ListInv, Types, Accesses
  <2>7. Exact' /\ OverrunReserved'
    BY <1>1, <1>2, <2>6, Counts DEF CallMoves, Exact, OverrunReserved
  <2> QED
    BY <2>2, <2>5, <2>7 DEF ListInv
<1>6. CASE Return(c)
  <2>1. /\ pc' = [pc EXCEPT ![c] = "idle"] /\ FitsCall(c)'
        /\ pc' \in [Callers -> Accesses] /\ args' \in [Callers -> Calls \cup {Absent}]
        /\ cursor' \in [Callers -> 1..(NumShards + 1)]
        /\ \A d \in Callers : d # c => pc'[d] = pc[d] /\ args'[d] = args[d] /\ cursor'[d] = cursor[d]
    BY <1>3, <1>6, ReturnFits DEF ListInv
  <2>2. Types'
    BY <1>1, <1>2, <1>3, <2>1 DEF ListInv, Types
  <2>3. CallsFit'
    BY <1>1, <1>3, <2>1, OthersKeep DEF ListInv
  <2>4. CallMoves(c, "idle")
    BY <2>1, PcMoves DEF ListInv, Types, Accesses
  <2>5. Exact' /\ OverrunReserved'
    BY <1>1, <1>2, <2>4, Counts DEF CallMoves, Exact, OverrunReserved
  <2> QED
    BY <2>2, <2>3, <2>5 DEF ListInv
<1> QED
  BY <1>5, <1>6 DEF SweepSubtract

\* insert reads the counter again after its sweep.
LEMMA RecheckInv ==
  ASSUME ListInv, NEW c \in Callers, Recheck(c)
  PROVE  ListInv'
<1>1. pc[c] = "recheck" /\ until' = until /\ live' = live /\ lock' = lock /\ freed' = freed /\ clock' = clock
  BY DEF Recheck, At, list
<1>2. args[c] \in Insertion /\ freed[c] = {}
  BY <1>1 DEF ListInv, CallsFit, ArgsFit, DebtFits
<1>3. CASE Return(c)
  <2>1. /\ pc' = [pc EXCEPT ![c] = "idle"] /\ FitsCall(c)'
        /\ pc' \in [Callers -> Accesses] /\ args' \in [Callers -> Calls \cup {Absent}]
        /\ cursor' \in [Callers -> 1..(NumShards + 1)]
        /\ \A d \in Callers : d # c => pc'[d] = pc[d] /\ args'[d] = args[d] /\ cursor'[d] = cursor[d]
    BY <1>1, <1>2, <1>3, ReturnFits DEF ListInv
  <2>2. Types'
    BY <1>1, <2>1 DEF ListInv, Types
  <2>3. CallsFit'
    BY <1>1, <2>1, OthersKeep DEF ListInv
  <2>4. CallMoves(c, "idle")
    BY <2>1, PcMoves DEF ListInv, Types, Accesses
  <2>5. Exact' /\ OverrunReserved'
    BY <1>1, <2>4, Counts DEF CallMoves, Exact, OverrunReserved
  <2> QED
    BY <2>2, <2>3, <2>5 DEF ListInv
<1>4. CASE ~(live >= Capacity) /\ Goto(c, "relock") /\ args' = args /\ cursor' = cursor
  <2>1. /\ pc' = [pc EXCEPT ![c] = "relock"] /\ pc'[c] = "relock" /\ pc' \in [Callers -> Accesses]
        /\ \A d \in Callers : d # c => pc'[d] = pc[d]
    <3>1. "relock" \in Accesses
      BY DEF Accesses
    <3> QED
      BY <1>4, <3>1, GotoType DEF ListInv
  <2>2. Types'
    BY <1>1, <1>4, <2>1 DEF ListInv, Types
  <2>3. FitsCall(c)'
    BY <1>1, <1>2, <1>4, <2>1 DEF FitsCall, ArgsFit, DebtFits, LockFits, Locked
  <2>4. CallsFit'
    BY <1>1, <1>4, <2>1, <2>3, OthersKeep DEF ListInv
  <2>5. CallMoves(c, "relock")
    BY <2>1, PcMoves DEF ListInv, Types, Accesses
  <2>6. Cardinality(HeldIn(until)) + Cardinality(Admitted(pc)) + 1 <= Capacity + Cardinality(Callers) - 1
    BY <1>1, <1>4, RoomFound, Counts
  <2>7. Exact' /\ OverrunReserved'
    BY <1>1, <2>5, <2>6, Counts DEF CallMoves, Exact, OverrunReserved
  <2> QED
    BY <2>2, <2>4, <2>7 DEF ListInv
<1> QED
  BY <1>3, <1>4 DEF Recheck

\* insert takes its lock again and looks its id up again.
LEMMA RelockInv ==
  ASSUME ListInv, NEW c \in Callers, Relock(c)
  PROVE  ListInv'
<1>1. /\ pc[c] = "relock" /\ until' = until /\ live' = live /\ freed' = freed /\ clock' = clock
      /\ lock[MyShard(c)] = NoOne
  BY DEF Relock, At
<1>2. args[c] \in Insertion /\ freed[c] = {}
  BY <1>1 DEF ListInv, CallsFit, ArgsFit, DebtFits
<1>3. args[c].id \in Ids /\ MyShard(c) \in Shards
  BY <1>2, ConstantAssumption DEF Insertion, MyShard
<1>4. CASE lock' = lock /\ Return(c)
  <2>1. /\ pc' = [pc EXCEPT ![c] = "idle"] /\ FitsCall(c)'
        /\ pc' \in [Callers -> Accesses] /\ args' \in [Callers -> Calls \cup {Absent}]
        /\ cursor' \in [Callers -> 1..(NumShards + 1)]
        /\ \A d \in Callers : d # c => pc'[d] = pc[d] /\ args'[d] = args[d] /\ cursor'[d] = cursor[d]
    BY <1>1, <1>2, <1>4, ReturnFits DEF ListInv
  <2>2. Types'
    BY <1>1, <1>4, <2>1 DEF ListInv, Types
  <2>3. CallsFit'
    BY <1>1, <1>4, <2>1, OthersKeep DEF ListInv
  <2>4. CallMoves(c, "idle")
    BY <2>1, PcMoves DEF ListInv, Types, Accesses
  <2>5. Exact' /\ OverrunReserved'
    BY <1>1, <2>4, Counts DEF CallMoves, Exact, OverrunReserved
  <2> QED
    BY <2>2, <2>3, <2>5 DEF ListInv
<1>5. CASE /\ until[args[c].id] = Absent /\ Lock(c, MyShard(c)) /\ Goto(c, "put")
           /\ args' = args /\ cursor' = cursor
  <2>1. /\ pc' = [pc EXCEPT ![c] = "put"] /\ pc'[c] = "put" /\ pc' \in [Callers -> Accesses]
        /\ \A d \in Callers : d # c => pc'[d] = pc[d]
    <3>1. "put" \in Accesses
      BY DEF Accesses
    <3> QED
      BY <1>5, <3>1, GotoType DEF ListInv
  <2>2. /\ lock' \in [Shards -> Callers \cup {NoOne}] /\ lock'[MyShard(c)] = c
        /\ \A s \in Shards : lock'[s] = lock[s] \/ lock[s] \in {NoOne, c}
    BY <1>1, <1>3, <1>5 DEF Lock, ListInv, Types
  <2>3. Types'
    BY <1>1, <1>5, <2>1, <2>2 DEF ListInv, Types
  <2>4. FitsCall(c)'
    <3>1. ArgsFit(c)' /\ DebtFits(c)'
      BY <1>1, <1>2, <1>5, <2>1 DEF ArgsFit, DebtFits
    <3>2. LockFits(c)'
      BY <1>1, <1>5, <2>1, <2>2 DEF LockFits, Locked, MyShard
    <3> QED
      BY <3>1, <3>2 DEF FitsCall
  <2>5. CallsFit'
    BY <1>1, <1>5, <2>1, <2>2, <2>4, OthersKeep DEF ListInv
  <2>6. CallMoves(c, "put")
    BY <2>1, PcMoves DEF ListInv, Types, Accesses
  <2>7. Exact' /\ OverrunReserved'
    BY <1>1, <2>6, Counts DEF CallMoves, Exact, OverrunReserved
  <2> QED
    BY <2>3, <2>5, <2>7 DEF ListInv
<1> QED
  BY <1>4, <1>5 DEF Relock

\* Every step of the list keeps the invariant.
LEMMA NextInv == ListInv /\ [Next]_vars => ListInv'
<1> SUFFICES ASSUME ListInv, [Next]_vars PROVE ListInv'
  OBVIOUS
<1>1. clock \in Nat
  BY ConstantAssumption DEF ListInv, Types
<1>2. ASSUME NEW c \in Callers, NEW i \in Ids, BeginContains(c, i) PROVE ListInv'
  <2> DEFINE a == [op |-> "contains", id |-> i, now |-> clock]
  <2>1. a \in Lookups /\ a \in Calls /\ "purge" \in Accesses
    BY <1>1 DEF Lookups, Calls, Accesses
  <2>2. Begin(c, "purge", a)
    BY <1>2 DEF BeginContains
  <2> HIDE DEF a
  <2> QED
    BY <2>1, <2>2, BeginInv
<1>3. ASSUME NEW c \in Callers, NEW i \in Ids, NEW w \in Windows, BeginInsert(c, i, w) PROVE ListInv'
  <2> DEFINE a == [op |-> "insert", id |-> i, now |-> clock, until |-> clock + w]
  <2>1. clock + w \in Nat
    BY <1>1, ConstantAssumption
  <2>2. a \in Insertion /\ a \in Calls /\ "purge" \in Accesses
    BY <1>1, <2>1 DEF Insertion, Calls, Accesses
  <2>3. Begin(c, "purge", a)
    BY <1>3 DEF BeginInsert
  <2> HIDE DEF a
  <2> QED
    BY <2>2, <2>3, BeginInv
<1>4. ASSUME NEW c \in Callers, BeginSweep(c) PROVE ListInv'
  <2> DEFINE a == [op |-> "sweep", now |-> clock]
  <2>1. a \in Sweeps /\ a \in Calls /\ "sweep" \in Accesses
    BY <1>1 DEF Sweeps, Calls, Accesses
  <2>2. Begin(c, "sweep", a)
    BY <1>4 DEF BeginSweep
  <2> HIDE DEF a
  <2> QED
    BY <2>1, <2>2, BeginInv
<1>5. ASSUME NEW c \in Callers, Step(c) PROVE ListInv'
  BY <1>5, PurgeInv, SubtractInv, LookupInv, PutInv, CountInv, SweepShardInv, SweepSubtractInv,
     RecheckInv, RelockInv DEF Step
<1>6. CASE Tick
  BY <1>6, TickInv
<1>7. CASE UNCHANGED vars
  <2>1. UNCHANGED <<until, live, lock, pc, args, freed, cursor, clock>>
    BY <1>7 DEF vars, list
  <2>2. Types' /\ Exact' /\ OverrunReserved'
    BY <2>1 DEF ListInv, Types, Exact, OverrunReserved
  <2>3. CallsFit'
    BY <2>1 DEF ListInv, CallsFit, ArgsFit, DebtFits, LockFits, MyShard
  <2> QED
    BY <2>2, <2>3 DEF ListInv
<1> QED
  BY <1>2, <1>3, <1>4, <1>5, <1>6, <1>7 DEF Next

(***************************************************************************)
(* The theorems.                                                           *)
(***************************************************************************)

\* The list's invariant, for any number of threads, ids and shards: locks,
\* debts and counts of insert, contains and sweep fit together at every
\* access.
THEOREM ListCorrect == Spec => []ListInv
<1>1. Init => ListInv
  BY InitInv
<1>2. ListInv /\ [Next]_vars => ListInv'
  BY NextInv
<1> QED
  BY <1>1, <1>2, PTL DEF Spec

\* RecordsFreshId: insert_sync never overwrites a record, on the path that let
\* go of the lock to sweep too, so one presentation of an id is told true.
THEOREM IdRecordedOnce == Spec => []RecordsFreshId
<1>1. ListInv => RecordsFreshId
  BY DEF ListInv, CallsFit, LockFits, RecordsFreshId, At
<1> QED
  BY <1>1, ListCorrect, PTL

\* ListKept: a mutex is held by the call inside it; the atomic counter is
\* exact up to calls in progress and never wraps; the list outgrows its
\* capacity by fewer records than there are threads.
THEOREM ListStaysBounded == Spec => []ListKept
<1>1. ASSUME ListInv PROVE ListKept
  <2>1. TypeOK
    BY <1>1 DEF ListInv, Types, CallsFit, LockFits, TypeOK
  <2>2. Held = HeldIn(until) /\ {c \in Callers : At(c, "count")} = Counting(pc)
    BY DEF Held, HeldIn, At, Counting
  <2>3. {p \in Callers \X Ids : p[2] \in freed[p[1]]} = DebtOf(freed)
    BY DEF DebtOf
  <2>4. CounterExact
    BY <1>1, <2>2, <2>3 DEF ListInv, Exact, CounterExact
  <2>5. OverrunBounded
    BY <1>1, <2>2, Counts DEF OverrunBounded
  <2> QED
    BY <2>1, <2>4, <2>5 DEF ListKept
<1> QED
  BY <1>1, ListCorrect, PTL

(***************************************************************************)
(* Identity: what the verifiers of the mechanisms say, both ways.          *)
(***************************************************************************)

\* The claims of a JWT are for this handshake.
ClaimsHold(jwt, d, c) ==
  /\ c.receiver \in jwt.aud /\ jwt.sub = d.subject /\ jwt.exp > now
  /\ WithinToleranceOf(jwt.iat, now) /\ jwt.nonce = c.pop_nonce /\ jwt.jkt = c.sender

\* The checks of the claims hold if they are.
LEMMA ClaimsMean ==
  ASSUME NEW jwt, NEW d, NEW c
  PROVE  FineList(ClaimChecks(jwt, d, c)) /\ (AllHold(ClaimChecks(jwt, d, c)) <=> ClaimsHold(jwt, d, c))
<1> DEFINE x1 == <<c.receiver \in jwt.aud, "Identity">>
           x2 == <<jwt.sub = d.subject, "Identity">>
           x3 == <<jwt.exp > now, "Identity">>
           x4 == <<WithinToleranceOf(jwt.iat, now), "Identity">>
           x5 == <<jwt.nonce = c.pop_nonce, "Identity">>
           x6 == <<jwt.jkt = c.sender, "Identity">>
<1>1. ClaimChecks(jwt, d, c) = <<x1, x2, x3, x4, x5, x6>>
  BY DEF ClaimChecks
<1>2. Fine(x1) /\ (x1[1] <=> c.receiver \in jwt.aud) /\ Fine(x2) /\ (x2[1] <=> jwt.sub = d.subject)
  BY CheckIs
<1>3. Fine(x3) /\ (x3[1] <=> jwt.exp > now) /\ Fine(x4) /\ (x4[1] <=> WithinToleranceOf(jwt.iat, now))
  BY CheckIs
<1>4. Fine(x5) /\ (x5[1] <=> jwt.nonce = c.pop_nonce) /\ Fine(x6) /\ (x6[1] <=> jwt.jkt = c.sender)
  BY CheckIs
<1> HIDE DEF x1, x2, x3, x4, x5, x6
<1>5. /\ FineList(<<x1, x2, x3, x4, x5, x6>>)
      /\ AllHold(<<x1, x2, x3, x4, x5, x6>>) <=> x1[1] /\ x2[1] /\ x3[1] /\ x4[1] /\ x5[1] /\ x6[1]
  BY <1>2, <1>3, <1>4, FineSix
<1> QED
  BY <1>1, <1>2, <1>3, <1>4, <1>5 DEF ClaimsHold

\* verify_pinned_key.
PinnedHolds(d, c) ==
  /\ d.kind = "pinned_key" /\ d.issuer = Nil /\ (SubjectBinding = "Unchecked" \/ d.subject = c.sender)
  /\ d.public_key = c.sender /\ IsTrusted(c.sender)
  /\ d.proof.form = "signature"
  /\ d.proof.key = c.sender /\ d.proof.input = ProofInput("aitp-pinned-key-v1", c)

\* What verify_pinned_key accepts.
LEMMA PinnedMeans ==
  ASSUME NEW d, NEW c
  PROVE  VerifyPinnedKey(d, c) = "ok" <=> PinnedHolds(d, c)
<1> DEFINE p3 == SubjectBinding = "Unchecked" \/ d.subject = c.sender
           p7 == d.proof.key = c.sender /\ d.proof.input = ProofInput("aitp-pinned-key-v1", c)
           x1 == <<d.kind = "pinned_key", "Identity">>
           x2 == <<d.issuer = Nil, "Identity">>
           x3 == <<p3, "Identity">>
           x4 == <<d.public_key = c.sender, "Identity">>
           x5 == <<IsTrusted(c.sender), "Identity">>
           x6 == <<d.proof.form = "signature", "Identity">>
           x7 == <<p7, "Identity">>
           A == ResolvePinnedKey(d, c)
           B == CheckPinnedKeyProof(d, c)
<1>1. A = <<x1, x2, x3, x4, x5>>
  BY DEF ResolvePinnedKey
<1>2. B = <<x6, x7>>
  BY DEF CheckPinnedKeyProof
<1> HIDE DEF p3, p7
<1>3. Fine(x1) /\ (x1[1] <=> d.kind = "pinned_key") /\ Fine(x2) /\ (x2[1] <=> d.issuer = Nil)
  BY CheckIs
<1>4. Fine(x3) /\ (x3[1] <=> p3) /\ Fine(x4) /\ (x4[1] <=> d.public_key = c.sender)
  BY CheckIs
<1>5. Fine(x5) /\ (x5[1] <=> IsTrusted(c.sender)) /\ Fine(x6) /\ (x6[1] <=> d.proof.form = "signature")
  BY CheckIs
<1>6. Fine(x7) /\ (x7[1] <=> p7)
  BY CheckIs
<1> HIDE DEF x1, x2, x3, x4, x5, x6, x7
<1>7. FineList(A) /\ (AllHold(A) <=> x1[1] /\ x2[1] /\ x3[1] /\ x4[1] /\ x5[1])
  <2>1. /\ FineList(<<x1, x2, x3, x4, x5>>)
        /\ AllHold(<<x1, x2, x3, x4, x5>>) <=> x1[1] /\ x2[1] /\ x3[1] /\ x4[1] /\ x5[1]
    BY <1>3, <1>4, <1>5, FineFive
  <2> QED
    BY <1>1, <2>1
<1>8. FineList(B) /\ (AllHold(B) <=> x6[1] /\ x7[1])
  <2>1. FineList(<<x6, x7>>) /\ (AllHold(<<x6, x7>>) <=> x6[1] /\ x7[1])
    BY <1>5, <1>6, FineTwo
  <2> QED
    BY <1>2, <2>1
<1>9. VerifyPinnedKey(d, c) = Verdict(A \o B)
  BY DEF VerifyPinnedKey
<1> HIDE DEF A, B
<1>10. FineList(A \o B) /\ (AllHold(A \o B) <=> AllHold(A) /\ AllHold(B))
  BY <1>7, <1>8, FineJoin
<1>11. Verdict(A \o B) = "ok" <=> AllHold(A \o B)
  BY <1>10, FineVerdict
<1>12. VerifyPinnedKey(d, c) = "ok" <=>
         /\ d.kind = "pinned_key" /\ d.issuer = Nil /\ p3 /\ d.public_key = c.sender /\ IsTrusted(c.sender)
         /\ d.proof.form = "signature" /\ p7
  BY <1>3, <1>4, <1>5, <1>6, <1>7, <1>8, <1>9, <1>10, <1>11
<1> QED
  BY <1>12 DEF PinnedHolds, p3, p7

\* The key verify_oidc tries, if there is one.
OidcKeys(d) == IF d.proof.form = "jwt" THEN SelectKey(d.proof.kid, IssuerKeys(d.issuer)) ELSE {}
OidcHolds(d, c) ==
  /\ d.public_key = Nil /\ d.issuer # Nil /\ d.issuer \in Anchors /\ d.proof.form = "jwt"
  /\ IssuerKeys(d.issuer) # << >> /\ OidcKeys(d) # {}
  /\ \E k \in OidcKeys(d) : VerifyJwsSignature(k, d.proof) = "ok"
  /\ d.proof.iss = d.issuer /\ ClaimsHold(d.proof, d, c)

\* What verify_oidc accepts.
LEMMA OidcMeans ==
  ASSUME NEW d, NEW c
  PROVE  VerifyOidc(d, c) = "ok" <=> OidcHolds(d, c)
<1> DEFINE p7 == \E k \in OidcKeys(d) : VerifyJwsSignature(k, d.proof) = "ok"
           x1 == <<d.public_key = Nil, "Identity">>
           x2 == <<d.issuer # Nil, "Identity">>
           x3 == <<d.issuer \in Anchors, "IncompatibleTrustAnchors">>
           x4 == <<d.proof.form = "jwt", "Identity">>
           x5 == <<IssuerKeys(d.issuer) # << >>, "KeyResolutionFailed">>
           x6 == <<OidcKeys(d) # {}, "Identity">>
           x7 == <<p7, "Identity">>
           x8 == <<d.proof.iss = d.issuer, "Identity">>
           A == <<x1, x2, x3, x4, x5, x6, x7>>
           C == ClaimChecks(d.proof, d, c)
           B == IF d.proof.form # "jwt" THEN << >> ELSE <<x8>> \o C
<1>1. VerifyOidc(d, c) = Verdict(A \o B)
  BY DEF VerifyOidc, OidcKeys
<1> HIDE DEF p7
<1>2. Fine(x1) /\ (x1[1] <=> d.public_key = Nil) /\ Fine(x2) /\ (x2[1] <=> d.issuer # Nil)
  BY CheckIs
<1>3. Fine(x3) /\ (x3[1] <=> d.issuer \in Anchors) /\ Fine(x4) /\ (x4[1] <=> d.proof.form = "jwt")
  BY CheckIs
<1>4. Fine(x5) /\ (x5[1] <=> IssuerKeys(d.issuer) # << >>) /\ Fine(x6) /\ (x6[1] <=> OidcKeys(d) # {})
  BY CheckIs
<1>5. Fine(x7) /\ (x7[1] <=> p7) /\ Fine(x8) /\ (x8[1] <=> d.proof.iss = d.issuer)
  BY CheckIs
<1> HIDE DEF x1, x2, x3, x4, x5, x6, x7, x8
<1>6. FineList(A) /\ (AllHold(A) <=> x1[1] /\ x2[1] /\ x3[1] /\ x4[1] /\ x5[1] /\ x6[1] /\ x7[1])
  BY <1>2, <1>3, <1>4, <1>5, FineSeven
<1>7. FineList(C) /\ (AllHold(C) <=> ClaimsHold(d.proof, d, c))
  BY ClaimsMean
<1> HIDE DEF A, C
<1>8. FineList(B) /\ (d.proof.form = "jwt" => (AllHold(B) <=> x8[1] /\ AllHold(C)))
  <2>1. CASE d.proof.form # "jwt"
    <3>1. FineList(<< >>)
      <4>1. PICK X : X = {}
        OBVIOUS
      <4>2. << >> \in Seq(X) /\ \A x \in X : Fine(x)
        BY <4>1
      <4> QED
        BY <4>2 DEF FineList
    <3> QED
      BY <2>1, <3>1
  <2>2. CASE d.proof.form = "jwt"
    <3>1. FineList(<<x8>>) /\ (AllHold(<<x8>>) <=> x8[1])
      BY <1>5, FineOne
    <3>2. FineList(<<x8>> \o C) /\ (AllHold(<<x8>> \o C) <=> AllHold(<<x8>>) /\ AllHold(C))
      BY <1>7, <3>1, FineJoin
    <3> QED
      BY <2>2, <3>1, <3>2
  <2> QED
    BY <2>1, <2>2
<1> HIDE DEF B
<1>9. FineList(A \o B) /\ (AllHold(A \o B) <=> AllHold(A) /\ AllHold(B))
  BY <1>6, <1>8, FineJoin
<1>10. Verdict(A \o B) = "ok" <=> AllHold(A \o B)
  BY <1>9, FineVerdict
<1>11. VerifyOidc(d, c) = "ok" <=>
         /\ d.public_key = Nil /\ d.issuer # Nil /\ d.issuer \in Anchors /\ d.proof.form = "jwt"
         /\ IssuerKeys(d.issuer) # << >> /\ OidcKeys(d) # {} /\ p7
         /\ d.proof.iss = d.issuer /\ ClaimsHold(d.proof, d, c)
  BY <1>1, <1>2, <1>3, <1>4, <1>5, <1>6, <1>7, <1>8, <1>9, <1>10
<1> QED
  BY <1>11 DEF OidcHolds, p7

\* verify_jwt_svid.
JwtSvidHolds(d, c) ==
  /\ d.proof.form = "jwt" /\ d.proof.alg \in JWT_SVID_ALGS /\ d.proof.kid # Nil
  /\ \E k \in Authorities : k.kid = d.proof.kid /\ VerifyJwsSignature(k, d.proof) = "ok"
  /\ Cardinality(d.proof.aud) = 1 /\ ClaimsHold(d.proof, d, c)

\* What verify_jwt_svid accepts.
LEMMA JwtSvidMeans ==
  ASSUME NEW d, NEW c
  PROVE  VerifyJwtSvid(d, c) = "ok" <=> JwtSvidHolds(d, c)
<1>1. CASE d.proof.form # "jwt"
  BY <1>1 DEF VerifyJwtSvid, JwtSvidHolds
<1>2. CASE d.proof.form = "jwt"
  <2> DEFINE p3 == \E k \in Authorities : k.kid = d.proof.kid /\ VerifyJwsSignature(k, d.proof) = "ok"
             x1 == <<d.proof.alg \in JWT_SVID_ALGS, "Rejected">>
             x2 == <<d.proof.kid # Nil, "Rejected">>
             x3 == <<p3, "Rejected">>
             x4 == <<Cardinality(d.proof.aud) = 1, "Rejected">>
             A == <<x1, x2, x3, x4>>
             C == ClaimChecks(d.proof, d, c)
  <2>1. VerifyJwtSvid(d, c) = Verdict(A \o C)
    BY <1>2 DEF VerifyJwtSvid
  <2> HIDE DEF p3
  <2>2. Fine(x1) /\ (x1[1] <=> d.proof.alg \in JWT_SVID_ALGS) /\ Fine(x2) /\ (x2[1] <=> d.proof.kid # Nil)
    BY CheckIs
  <2>3. Fine(x3) /\ (x3[1] <=> p3) /\ Fine(x4) /\ (x4[1] <=> Cardinality(d.proof.aud) = 1)
    BY CheckIs
  <2> HIDE DEF x1, x2, x3, x4
  <2>4. FineList(A) /\ (AllHold(A) <=> x1[1] /\ x2[1] /\ x3[1] /\ x4[1])
    BY <2>2, <2>3, FineFour
  <2>5. FineList(C) /\ (AllHold(C) <=> ClaimsHold(d.proof, d, c))
    BY ClaimsMean
  <2> HIDE DEF A, C
  <2>6. FineList(A \o C) /\ (AllHold(A \o C) <=> AllHold(A) /\ AllHold(C))
    BY <2>4, <2>5, FineJoin
  <2>7. Verdict(A \o C) = "ok" <=> AllHold(A \o C)
    BY <2>6, FineVerdict
  <2>8. VerifyJwtSvid(d, c) = "ok" <=>
          /\ d.proof.alg \in JWT_SVID_ALGS /\ d.proof.kid # Nil /\ p3 /\ Cardinality(d.proof.aud) = 1
          /\ ClaimsHold(d.proof, d, c)
    BY <2>1, <2>2, <2>3, <2>4, <2>5, <2>6, <2>7
  <2> QED
    BY <1>2, <2>8 DEF JwtSvidHolds, p3
<1> QED
  BY <1>1, <1>2

\* verify_x509_svid.
X509Holds(d, c) ==
  /\ d.x5c.uris = {d.subject}
  /\ ~d.x5c.ca /\ d.x5c.digital_signature /\ ~d.x5c.key_cert_sign
  /\ d.x5c.type \in {"Ed25519", "P256"}
  /\ d.x5c.root \in CaRoots /\ d.x5c.not_after >= now
  /\ d.proof.form = "signature"
  /\ d.proof.key = d.x5c.key /\ d.proof.input = ProofInput("aitp-spiffe-x509-v1", c)

\* What verify_x509_svid accepts.
LEMMA X509Means ==
  ASSUME NEW d, NEW c
  PROVE  VerifyX509Svid(d, c) = "ok" <=> X509Holds(d, c)
<1> DEFINE p2 == ~d.x5c.ca /\ d.x5c.digital_signature /\ ~d.x5c.key_cert_sign
           p4 == d.x5c.root \in CaRoots /\ d.x5c.not_after >= now
           p6 == d.proof.form = "signature" =>
                   d.proof.key = d.x5c.key /\ d.proof.input = ProofInput("aitp-spiffe-x509-v1", c)
           x1 == <<d.x5c.uris = {d.subject}, "Rejected">>
           x2 == <<p2, "Rejected">>
           x3 == <<d.x5c.type \in {"Ed25519", "P256"}, "Rejected">>
           x4 == <<p4, "Rejected">>
           x5 == <<d.proof.form = "signature", "Rejected">>
           x6 == <<p6, "Rejected">>
           A == CheckLeaf(d.x5c, d.subject)
           B == <<x4, x5, x6>>
<1>1. VerifyX509Svid(d, c) = Verdict(A \o B)
  BY DEF VerifyX509Svid
<1>2. A = <<x1, x2, x3>>
  BY DEF CheckLeaf
<1> HIDE DEF p2, p4, p6
<1>3. Fine(x1) /\ (x1[1] <=> d.x5c.uris = {d.subject}) /\ Fine(x2) /\ (x2[1] <=> p2)
  BY CheckIs
<1>4. Fine(x3) /\ (x3[1] <=> d.x5c.type \in {"Ed25519", "P256"}) /\ Fine(x4) /\ (x4[1] <=> p4)
  BY CheckIs
<1>5. Fine(x5) /\ (x5[1] <=> d.proof.form = "signature") /\ Fine(x6) /\ (x6[1] <=> p6)
  BY CheckIs
<1> HIDE DEF x1, x2, x3, x4, x5, x6
<1>6. FineList(A) /\ (AllHold(A) <=> x1[1] /\ x2[1] /\ x3[1])
  <2>1. FineList(<<x1, x2, x3>>) /\ (AllHold(<<x1, x2, x3>>) <=> x1[1] /\ x2[1] /\ x3[1])
    BY <1>3, <1>4, FineThree
  <2> QED
    BY <1>2, <2>1
<1>7. FineList(B) /\ (AllHold(B) <=> x4[1] /\ x5[1] /\ x6[1])
  BY <1>4, <1>5, FineThree
<1> HIDE DEF A, B
<1>8. FineList(A \o B) /\ (AllHold(A \o B) <=> AllHold(A) /\ AllHold(B))
  BY <1>6, <1>7, FineJoin
<1>9. Verdict(A \o B) = "ok" <=> AllHold(A \o B)
  BY <1>8, FineVerdict
<1>10. VerifyX509Svid(d, c) = "ok" <=>
         /\ d.x5c.uris = {d.subject} /\ p2 /\ d.x5c.type \in {"Ed25519", "P256"} /\ p4
         /\ d.proof.form = "signature" /\ p6
  BY <1>1, <1>3, <1>4, <1>5, <1>6, <1>7, <1>8, <1>9
<1> QED
  BY <1>10 DEF X509Holds, p2, p4, p6

\* verify_spiffe.
SvidVerdict(d, c) ==
  IF d.svid_type = "x509-svid"
  THEN IF d.x5c = Nil THEN "Rejected" ELSE VerifyX509Svid(d, c)
  ELSE VerifyJwtSvid(d, c)
SpiffeHolds(d, c) ==
  /\ d.kind = "spiffe" /\ d.issuer = Nil /\ d.public_key = Nil /\ d.svid_type # Nil
  /\ d.subject \notin Peers /\ d.subject[1] = Domain
  /\ (d.svid_type = "x509-svid") <=> (d.x5c # Nil)
  /\ IF d.svid_type = "x509-svid" THEN CaRoots # {} ELSE Authorities # {}
  /\ SvidVerdict(d, c) = "ok"

\* What verify_spiffe accepts.
LEMMA SpiffeMeans ==
  ASSUME NEW d, NEW c
  PROVE  VerifySpiffe(d, c) = "ok" <=> SpiffeHolds(d, c)
<1> DEFINE p2 == d.issuer = Nil /\ d.public_key = Nil
           p5 == (d.svid_type = "x509-svid") <=> (d.x5c # Nil)
           p6 == d.subject \notin Peers => d.subject[1] = Domain
           p7 == IF d.svid_type = "x509-svid" THEN CaRoots # {} ELSE Authorities # {}
           v == SvidVerdict(d, c)
           x1 == <<d.kind = "spiffe", "Rejected">>
           x2 == <<p2, "Rejected">>
           x3 == <<d.svid_type # Nil, "Rejected">>
           x4 == <<d.subject \notin Peers, "Rejected">>
           x5 == <<p5, "Rejected">>
           x6 == <<p6, "Rejected">>
           x7 == <<p7, "Rejected">>
           x8 == Sub(v)
           A == <<x1, x2, x3, x4, x5, x6, x7>>
<1>1. VerifySpiffe(d, c) = Verdict(A \o <<x8>>)
  BY DEF VerifySpiffe, SvidVerdict
<1> HIDE DEF p2, p5, p6, p7, v
<1>2. Fine(x1) /\ (x1[1] <=> d.kind = "spiffe") /\ Fine(x2) /\ (x2[1] <=> p2)
  BY CheckIs
<1>3. Fine(x3) /\ (x3[1] <=> d.svid_type # Nil) /\ Fine(x4) /\ (x4[1] <=> d.subject \notin Peers)
  BY CheckIs
<1>4. Fine(x5) /\ (x5[1] <=> p5) /\ Fine(x6) /\ (x6[1] <=> p6)
  BY CheckIs
<1>5. Fine(x7) /\ (x7[1] <=> p7)
  BY CheckIs
<1>6. Fine(x8) /\ (x8[1] <=> v = "ok")
  <2>1. v = "ok" => Sub(v)[1]
    BY ConditionIs DEF Sub
  <2> QED
    BY <2>1, SubFine
<1> HIDE DEF x1, x2, x3, x4, x5, x6, x7, x8
<1>7. FineList(A) /\ (AllHold(A) <=> x1[1] /\ x2[1] /\ x3[1] /\ x4[1] /\ x5[1] /\ x6[1] /\ x7[1])
  BY <1>2, <1>3, <1>4, <1>5, FineSeven
<1>8. FineList(<<x8>>) /\ (AllHold(<<x8>>) <=> x8[1])
  BY <1>6, FineOne
<1> HIDE DEF A
<1>9. FineList(A \o <<x8>>) /\ (AllHold(A \o <<x8>>) <=> AllHold(A) /\ AllHold(<<x8>>))
  BY <1>7, <1>8, FineJoin
<1>10. Verdict(A \o <<x8>>) = "ok" <=> AllHold(A \o <<x8>>)
  BY <1>9, FineVerdict
<1>11. VerifySpiffe(d, c) = "ok" <=>
         /\ d.kind = "spiffe" /\ p2 /\ d.svid_type # Nil /\ d.subject \notin Peers /\ p5 /\ p6 /\ p7
         /\ v = "ok"
  BY <1>1, <1>2, <1>3, <1>4, <1>5, <1>6, <1>7, <1>8, <1>9, <1>10
<1> QED
  BY <1>11 DEF SpiffeHolds, p2, p5, p6, p7, v

\* bootstrap_verify_peer, of the identity.
BootHolds(d, hint, c) ==
  /\ d.subject = hint.subject /\ d.kind = hint.kind
  /\ d.kind = "spiffe" \/ (d.svid_type = Nil /\ d.x5c = Nil)
  /\ d.kind = "oidc" => d.issuer = hint.issuer
  /\ VerifyByKind(d, c) = "ok"

\* What it accepts.
LEMMA BootMeans ==
  ASSUME NEW d, NEW hint, NEW c
  PROVE  BootstrapIdentity(d, hint, c) = "ok" <=> BootHolds(d, hint, c)
<1> DEFINE p3 == d.kind = "spiffe" \/ (d.svid_type = Nil /\ d.x5c = Nil)
           p4 == d.kind = "oidc" => d.issuer = hint.issuer
           v == VerifyByKind(d, c)
           x1 == <<d.subject = hint.subject, "Identity">>
           x2 == <<d.kind = hint.kind, "Identity">>
           x3 == <<p3, "Identity">>
           x4 == <<p4, "Identity">>
           x5 == Sub(v)
<1>1. BootstrapIdentity(d, hint, c) = Verdict(<<x1, x2, x3, x4, x5>>)
  BY DEF BootstrapIdentity
<1> HIDE DEF p3, p4, v
<1>2. Fine(x1) /\ (x1[1] <=> d.subject = hint.subject) /\ Fine(x2) /\ (x2[1] <=> d.kind = hint.kind)
  BY CheckIs
<1>3. Fine(x3) /\ (x3[1] <=> p3) /\ Fine(x4) /\ (x4[1] <=> p4)
  BY CheckIs
<1>4. Fine(x5) /\ (x5[1] <=> v = "ok")
  <2>1. v = "ok" => Sub(v)[1]
    BY ConditionIs DEF Sub
  <2> QED
    BY <2>1, SubFine
<1> HIDE DEF x1, x2, x3, x4, x5
<1>5. /\ FineList(<<x1, x2, x3, x4, x5>>)
      /\ AllHold(<<x1, x2, x3, x4, x5>>) <=> x1[1] /\ x2[1] /\ x3[1] /\ x4[1] /\ x5[1]
  BY <1>2, <1>3, <1>4, FineFive
<1>6. Verdict(<<x1, x2, x3, x4, x5>>) = "ok" <=> AllHold(<<x1, x2, x3, x4, x5>>)
  BY <1>5, FineVerdict
<1>7. BootstrapIdentity(d, hint, c) = "ok" <=>
        d.subject = hint.subject /\ d.kind = hint.kind /\ p3 /\ p4 /\ v = "ok"
  BY <1>1, <1>2, <1>3, <1>4, <1>5, <1>6
<1> QED
  BY <1>7 DEF BootHolds, p3, p4, v

(***************************************************************************)
(* Identity: the inductive invariant.                                      *)
(***************************************************************************)

\* A token as an issuer makes it for the peer that asks.
MintedBy(x, iss, sub, keys) ==
  /\ x.iss = iss /\ x.sub = sub
  /\ \E k \in SigningKeys(keys) : x.kid = k.kid /\ x.key = k.id

\* What was made is what a peer asked for, for a handshake of its own.
ProofFits(x) ==
  /\ x.by \in Peers /\ x.context \in Contexts /\ (x.context.sender = x.by \/ x.by \in Wild)
  /\ \/ /\ x.form = "signature" /\ x.key = x.by
        /\ \E domain \in {"aitp-pinned-key-v1", "aitp-spiffe-x509-v1"} : x.input = ProofInput(domain, x.context)
     \/ /\ x.form = "jwt" /\ x.alg = "ES256" /\ x.nonce = x.context.pop_nonce /\ x.jkt = x.by
        /\ x.context.receiver \in x.aud
        /\ x.iat \in Nat /\ x.iat <= now /\ x.exp = x.iat + IatTolerance + 1
        /\ \/ MintedBy(x, Provider, User(x.by), JwksIn(JwksOf[Provider]))
           \/ MintedBy(x, Domain, Workload(x.by), Authorities) /\ x.aud = {x.context.receiver}

IdInv == now \in 0..MaxNow /\ \A x \in proofs : ProofFits(x)

\* A token that was minted.
LEMMA MintedFits ==
  ASSUME NEW p \in Peers, NEW c \in Own(p), now \in Nat, NEW iss, NEW sub, NEW keys, NEW k \in SigningKeys(keys),
         NEW aud, c.receiver \in aud, NEW x, x = MintedJwt(p, iss, k, sub, aud, c),
         \/ iss = Provider /\ sub = User(p) /\ keys = JwksIn(JwksOf[Provider])
         \/ iss = Domain /\ sub = Workload(p) /\ keys = Authorities /\ aud = {c.receiver}
  PROVE  ProofFits(x)
<1>1. PICK at : at = now
  OBVIOUS
<1>2. /\ x.form = "jwt" /\ x.alg = "ES256" /\ x.kid = k.kid /\ x.key = k.id /\ x.iss = iss /\ x.sub = sub
      /\ x.aud = aud /\ x.iat = at /\ x.exp = at + IatTolerance + 1 /\ x.nonce = c.pop_nonce /\ x.jkt = p
      /\ x.by = p /\ x.context = c
  BY <1>1 DEF MintedJwt
<1>3. MintedBy(x, iss, sub, keys)
  BY <1>2 DEF MintedBy
<1>4. c \in Contexts /\ (c.sender = p \/ p \in Wild)
  BY DEF Own
<1>5. x.iat \in Nat /\ x.iat <= now /\ x.exp = x.iat + IatTolerance + 1
  BY <1>1, <1>2
<1>6. \/ MintedBy(x, Provider, User(x.by), JwksIn(JwksOf[Provider]))
      \/ MintedBy(x, Domain, Workload(x.by), Authorities) /\ x.aud = {x.context.receiver}
  BY <1>2, <1>3
<1> QED
  BY <1>2, <1>4, <1>5, <1>6 DEF ProofFits

\* A proof that was signed.
LEMMA SignedFits ==
  ASSUME NEW p \in Peers, NEW c \in Own(p), NEW domain \in {"aitp-pinned-key-v1", "aitp-spiffe-x509-v1"},
         NEW x, x = SignedProof(p, domain, c)
  PROVE  ProofFits(x)
<1>1. PICK i : i = ProofInput(domain, c)
  OBVIOUS
<1>2. x.form = "signature" /\ x.key = p /\ x.input = i /\ x.by = p /\ x.context = c
  BY <1>1 DEF SignedProof
<1>3. c \in Contexts /\ (c.sender = p \/ p \in Wild)
  BY DEF Own
<1> QED
  BY <1>1, <1>2, <1>3 DEF ProofFits

\* Every step keeps the invariant.
LEMMA IdStep ==
  ASSUME IdInv, [IdNext]_idVars
  PROVE  IdInv'
<1>1. CASE UNCHANGED idVars
  BY <1>1 DEF IdInv, idVars, ProofFits
<1>2. ASSUME NEW p \in Peers, NEW c \in Contexts, MakeProof(p, c) PROVE IdInv'
  <2> DEFINE Sig(domain) == SignedProof(p, domain, c)
             Oidc(k, aud) == MintedJwt(p, Provider, k, User(p), aud, c)
             Svid(k) == MintedJwt(p, Domain, k, Workload(p), {c.receiver}, c)
             domains == {"aitp-pinned-key-v1", "aitp-spiffe-x509-v1"}
             auds == {{c.receiver}, {c.receiver, c.sender}}
  <2>1. c \in Own(p) /\ now \in Nat /\ now \in 0..MaxNow /\ now' = now
    BY <1>2, IdentityAssumption DEF MakeProof, IdInv
  <2>2. PICK x \in {Sig(domain) : domain \in domains}
                     \cup {Oidc(k, aud) : k \in SigningKeys(JwksIn(JwksOf[Provider])), aud \in auds}
                     \cup {Svid(k) : k \in SigningKeys(Authorities)} :
           proofs' = proofs \cup {x}
    BY <1>2 DEF MakeProof
  <2>3. ASSUME NEW domain \in domains, x = Sig(domain) PROVE ProofFits(x)
    BY <2>1, <2>3, SignedFits
  <2>4. ASSUME NEW k \in SigningKeys(JwksIn(JwksOf[Provider])), NEW aud \in auds, x = Oidc(k, aud) PROVE ProofFits(x)
    <3>1. PICK iss, sub, keys : iss = Provider /\ sub = User(p) /\ keys = JwksIn(JwksOf[Provider])
      OBVIOUS
    <3>2. c.receiver \in aud
      OBVIOUS
    <3> QED
      BY <2>1, <2>4, <3>1, <3>2, MintedFits
  <2>5. ASSUME NEW k \in SigningKeys(Authorities), x = Svid(k) PROVE ProofFits(x)
    <3>1. PICK iss, sub, keys, aud : iss = Domain /\ sub = Workload(p) /\ keys = Authorities /\ aud = {c.receiver}
      OBVIOUS
    <3>2. c.receiver \in aud
      BY <3>1
    <3> QED
      BY <2>1, <2>5, <3>1, <3>2, MintedFits
  <2> HIDE DEF Sig, Oidc, Svid, domains, auds
  <2>6. \/ \E domain \in domains : x = Sig(domain)
        \/ \E k \in SigningKeys(JwksIn(JwksOf[Provider])), aud \in auds : x = Oidc(k, aud)
        \/ \E k \in SigningKeys(Authorities) : x = Svid(k)
    BY <2>2
  <2>7. ProofFits(x)
    BY <2>3, <2>4, <2>5, <2>6
  <2> QED
    BY <2>1, <2>2, <2>7 DEF IdInv, ProofFits
<1>3. CASE IdTick
  <2>1. now' \in 0..MaxNow /\ now <= now' /\ proofs' = proofs
    BY <1>3, IdentityAssumption DEF IdTick, IdInv
  <2>2. ASSUME NEW x \in proofs PROVE ProofFits(x)'
    <3>1. ProofFits(x)
      BY DEF IdInv
    <3>2. x.iat \in Nat /\ x.iat <= now => x.iat <= now'
      <4>1. now \in Nat /\ now' \in Nat /\ now <= now'
        BY <1>3, IdentityAssumption DEF IdTick, IdInv
      <4> QED
        BY <4>1
    <3> QED
      BY <3>1, <3>2 DEF ProofFits
  <2> QED
    BY <2>1, <2>2 DEF IdInv
<1> QED
  BY <1>1, <1>2, <1>3 DEF IdNext

\* The descriptors of a proof, by kind.
LEMMA PresentedIs ==
  ASSUME NEW x, NEW d \in Presented(x)
  PROVE  /\ d.proof = x
         /\ \/ d.kind = "pinned_key"
            \/ d.kind = "oidc" /\ \E p \in Peers : d.subject = User(p)
            \/ /\ d.kind = "spiffe" /\ \E p \in Peers : d.subject = Workload(p)
               /\ \/ d.svid_type = "jwt-svid"
                  \/ d.svid_type = "x509-svid" /\ \E q \in Peers : d.x5c = Leaf(q)
<1>1. ASSUME NEW kind, NEW issuer, NEW subject, NEW svid, NEW x5c, NEW key,
             d = Descriptor(kind, issuer, subject, svid, x5c, key, x)
      PROVE  d.proof = x /\ d.kind = kind /\ d.subject = subject /\ d.svid_type = svid /\ d.x5c = x5c
  BY <1>1 DEF Descriptor
<1>2. CASE d \in {Descriptor("pinned_key", Nil, p, Nil, Nil, q, x) : p \in Peers, q \in Peers}
  <2>1. PICK p \in Peers, q \in Peers : d = Descriptor("pinned_key", Nil, p, Nil, Nil, q, x)
    BY <1>2
  <2> QED
    BY <1>1, <2>1
<1>3. CASE d \in {Descriptor("oidc", Provider, User(p), Nil, Nil, Nil, x) : p \in Peers}
  <2>1. PICK p \in Peers : d = Descriptor("oidc", Provider, User(p), Nil, Nil, Nil, x)
    BY <1>3
  <2>2. d.proof = x /\ d.kind = "oidc" /\ d.subject = User(p)
    BY <1>1, <2>1
  <2> QED
    BY <2>2
<1>4. CASE d \in {Descriptor("spiffe", Nil, Workload(p), "jwt-svid", Nil, Nil, x) : p \in Peers}
  <2>1. PICK p \in Peers : d = Descriptor("spiffe", Nil, Workload(p), "jwt-svid", Nil, Nil, x)
    BY <1>4
  <2>2. d.proof = x /\ d.kind = "spiffe" /\ d.subject = Workload(p) /\ d.svid_type = "jwt-svid"
    BY <1>1, <2>1
  <2> QED
    BY <2>2
<1>5. CASE d \in {Descriptor("spiffe", Nil, Workload(p), "x509-svid", Leaf(q), Nil, x) : p \in Peers, q \in Peers}
  <2>1. PICK p \in Peers, q \in Peers : d = Descriptor("spiffe", Nil, Workload(p), "x509-svid", Leaf(q), Nil, x)
    BY <1>5
  <2>2. d.proof = x /\ d.kind = "spiffe" /\ d.subject = Workload(p) /\ d.svid_type = "x509-svid" /\ d.x5c = Leaf(q)
    BY <1>1, <2>1
  <2> QED
    BY <2>2
<1> QED
  BY <1>2, <1>3, <1>4, <1>5 DEF Presented

\* A signature's input tells the mechanism and the handshake.
LEMMA InputTells ==
  ASSUME NEW b \in Contexts, NEW c \in Contexts, NEW x, NEW y, ProofInput(x, b) = ProofInput(y, c)
  PROVE  x = y /\ b = c
<1>1. PICK s, u : s = ProofInput(x, b) /\ u = ProofInput(y, c)
  OBVIOUS
<1>2. /\ s[1] = x /\ s[2] = b.sender /\ s[3] = b.receiver /\ s[4] = b.message_id /\ s[5] = b.pop_nonce
      /\ u[1] = y /\ u[2] = c.sender /\ u[3] = c.receiver /\ u[4] = c.message_id /\ u[5] = c.pop_nonce
  BY <1>1 DEF ProofInput
<1>3. x = y /\ b.sender = c.sender /\ b.receiver = c.receiver /\ b.message_id = c.message_id
      /\ b.pop_nonce = c.pop_nonce
  BY <1>1, <1>2
<1>4. /\ b \in [sender : Peers, receiver : Peers, message_id : Messages, pop_nonce : PopNonces]
      /\ c \in [sender : Peers, receiver : Peers, message_id : Messages, pop_nonce : PopNonces]
  BY DEF Contexts
<1> QED
  BY <1>3, <1>4

\* What an accepted descriptor says of its proof.
Bound(x, d, c) ==
  /\ x.context.receiver = c.receiver \/ x.by \in Wild \/ c.receiver \in x.aud
  /\ x.context.pop_nonce = c.pop_nonce
  /\ d.kind = "pinned_key" => x.by = c.sender /\ x.context = c
  /\ d.kind = "oidc" => d.subject = User(x.by) /\ c.sender = x.by
  /\ d.kind = "spiffe" => d.subject = Workload(x.by)
  /\ x.by \notin Wild => x.by = c.sender

\* A JWT whose claims hold is for this handshake.
LEMMA JwtBound ==
  ASSUME NEW x, ProofFits(x), x.form = "jwt", NEW d, NEW c, ClaimsHold(x, d, c)
  PROVE  /\ c.receiver \in x.aud /\ x.context.pop_nonce = c.pop_nonce /\ x.by = c.sender
         /\ x.sub = d.subject
  BY DEF ProofFits, ClaimsHold

\* A peer's user and its workload are two names, and neither is another's.
LEMMA NamesTell ==
  ASSUME NEW p, NEW q
  PROVE  /\ User(p) = User(q) => p = q
         /\ Workload(p) = Workload(q) => p = q
         /\ User(p) = Workload(q) => p = q
<1>1. PICK u, v, w, z : u = User(p) /\ v = User(q) /\ w = Workload(p) /\ z = Workload(q)
  OBVIOUS
<1>2. u[2] = p /\ v[2] = q /\ w[2] = p /\ z[2] = q
  BY <1>1 DEF User, Workload
<1> QED
  BY <1>1, <1>2

\* Every mechanism binds a proof to its handshake.
LEMMA AcceptedBound ==
  ASSUME NEW x, ProofFits(x), NEW c \in Contexts, NEW d \in Presented(x), NEW hint,
         BootstrapIdentity(d, hint, c) = "ok"
  PROVE  Bound(x, d, c)
<1>1. d.proof = x /\ VerifyByKind(d, c) = "ok"
  BY PresentedIs, BootMeans DEF BootHolds
<1>2. x.context \in Contexts /\ (x.context.sender = x.by \/ x.by \in Wild)
  BY DEF ProofFits
<1>3. CASE d.kind = "pinned_key"
  <2>1. VerifyPinnedKey(d, c) = "ok"
    BY <1>1, <1>3 DEF VerifyByKind
  <2>2. x.form = "signature" /\ x.key = c.sender /\ x.input = ProofInput("aitp-pinned-key-v1", c)
    BY <1>1, <2>1, PinnedMeans DEF PinnedHolds
  <2>3. x.key = x.by /\ \E domain \in {"aitp-pinned-key-v1", "aitp-spiffe-x509-v1"} : x.input = ProofInput(domain, x.context)
    BY <2>2 DEF ProofFits
  <2>4. x.context = c
    BY <1>2, <2>2, <2>3, InputTells
  <2> QED
    BY <1>3, <2>2, <2>3, <2>4 DEF Bound
<1>4. CASE d.kind = "oidc"
  <2>1. VerifyOidc(d, c) = "ok"
    BY <1>1, <1>4 DEF VerifyByKind
  <2>2. x.form = "jwt" /\ ClaimsHold(x, d, c)
    BY <1>1, <2>1, OidcMeans DEF OidcHolds
  <2>3. c.receiver \in x.aud /\ x.context.pop_nonce = c.pop_nonce /\ x.by = c.sender /\ x.sub = d.subject
    BY <2>2, JwtBound
  <2>4. PICK p \in Peers : d.subject = User(p)
    BY <1>4, PresentedIs
  <2>5. x.sub = User(x.by) \/ x.sub = Workload(x.by)
    BY <2>2 DEF ProofFits, MintedBy
  <2>6. d.subject = User(x.by)
    BY <2>3, <2>4, <2>5, NamesTell
  <2> QED
    BY <1>4, <2>3, <2>6 DEF Bound
<1>5. CASE d.kind = "spiffe" /\ d.svid_type = "jwt-svid"
  <2>1. SvidVerdict(d, c) = "ok"
    BY <1>1, <1>5, SpiffeMeans DEF VerifyByKind, SpiffeHolds
  <2>2. VerifyJwtSvid(d, c) = "ok"
    BY <1>5, <2>1 DEF SvidVerdict
  <2>3. x.form = "jwt" /\ ClaimsHold(x, d, c)
    BY <1>1, <2>2, JwtSvidMeans DEF JwtSvidHolds
  <2>4. c.receiver \in x.aud /\ x.context.pop_nonce = c.pop_nonce /\ x.by = c.sender /\ x.sub = d.subject
    BY <2>3, JwtBound
  <2>5. PICK p \in Peers : d.subject = Workload(p)
    BY <1>5, PresentedIs
  <2>6. x.sub = User(x.by) \/ x.sub = Workload(x.by)
    BY <2>3 DEF ProofFits, MintedBy
  <2>7. d.subject = Workload(x.by)
    BY <2>4, <2>5, <2>6, NamesTell
  <2> QED
    BY <1>5, <2>4, <2>7 DEF Bound
<1>6. CASE d.kind = "spiffe" /\ d.svid_type = "x509-svid" /\ \E q \in Peers : d.x5c = Leaf(q)
  <2>1. SvidVerdict(d, c) = "ok"
    BY <1>1, <1>6, SpiffeMeans DEF VerifyByKind, SpiffeHolds
  <2>2. VerifyX509Svid(d, c) = "ok"
    BY <1>6, <2>1 DEF SvidVerdict
  <2>3. PICK q \in Peers : d.x5c = Leaf(q)
    BY <1>6
  <2>4. d.x5c.uris = {Workload(q)} /\ d.x5c.key = q
    BY <2>3 DEF Leaf
  <2>5. /\ d.x5c.uris = {d.subject} /\ x.form = "signature" /\ x.key = q
        /\ x.input = ProofInput("aitp-spiffe-x509-v1", c)
    BY <1>1, <2>2, <2>4, X509Means DEF X509Holds
  <2>6. x.key = x.by /\ \E domain \in {"aitp-pinned-key-v1", "aitp-spiffe-x509-v1"} : x.input = ProofInput(domain, x.context)
    BY <2>5 DEF ProofFits
  <2>7. x.context = c
    BY <1>2, <2>5, <2>6, InputTells
  <2>8. d.subject = Workload(x.by)
    BY <2>4, <2>5, <2>6
  <2> QED
    BY <1>2, <1>6, <2>7, <2>8 DEF Bound
<1> QED
  BY <1>3, <1>4, <1>5, <1>6, PresentedIs

\* The descriptor of a proof for its own handshake passes the checks before
\* the mechanism's, and then it is the mechanism's verdict that counts.
LEMMA OwnBoot ==
  ASSUME NEW d, NEW c, NEW hint \in HintsFor(d), d.kind = "spiffe" \/ (d.svid_type = Nil /\ d.x5c = Nil),
         VerifyByKind(d, c) = "ok"
  PROVE  BootstrapIdentity(d, hint, c) = "ok"
<1>1. PICK k, s, i : k = d.kind /\ s = d.subject /\ i = d.issuer
  OBVIOUS
<1>2. hint = [kind |-> k, subject |-> s, issuer |-> i]
  BY <1>1 DEF HintsFor
<1>3. hint.kind = d.kind /\ hint.subject = d.subject /\ hint.issuer = d.issuer
  BY <1>1, <1>2
<1>4. BootHolds(d, hint, c)
  BY <1>3 DEF BootHolds
<1> QED
  BY <1>4, BootMeans

\* The fields of a descriptor.
LEMMA DescriptorIs ==
  ASSUME NEW kind, NEW issuer, NEW subject, NEW svid, NEW x5c, NEW key, NEW x, NEW d,
         d = Descriptor(kind, issuer, subject, svid, x5c, key, x)
  PROVE  /\ d.kind = kind /\ d.issuer = issuer /\ d.subject = subject /\ d.svid_type = svid /\ d.x5c = x5c
         /\ d.public_key = key /\ d.proof = x
BY DEF Descriptor

\* A pinned key's own proof is accepted where the key is pinned.
LEMMA PinnedAccepted ==
  ASSUME NEW x, ProofFits(x), x.form = "signature", x.input[1] = "aitp-pinned-key-v1",
         x.by = x.context.sender, x.by \in Pinned,
         NEW d, d = Descriptor("pinned_key", Nil, x.by, Nil, Nil, x.by, x), NEW hint \in HintsFor(d)
  PROVE  BootstrapIdentity(d, hint, x.context) = "ok"
<1>1. /\ d.kind = "pinned_key" /\ d.issuer = Nil /\ d.subject = x.by /\ d.svid_type = Nil /\ d.x5c = Nil
      /\ d.public_key = x.by /\ d.proof = x
  BY DescriptorIs
<1>2. PICK domain : x.key = x.by /\ x.input = ProofInput(domain, x.context)
  BY DEF ProofFits
<1>3. ProofInput(domain, x.context)[1] = domain
  BY DEF ProofInput
<1>4. PinnedHolds(d, x.context)
  BY <1>1, <1>2, <1>3 DEF PinnedHolds, IsTrusted
<1>5. VerifyByKind(d, x.context) = "ok"
  BY <1>1, <1>4, PinnedMeans DEF VerifyByKind
<1> QED
  BY <1>1, <1>5, OwnBoot

\* So is a workload's own signature, under a certificate of the domain's.
LEMMA X509Accepted ==
  ASSUME now <= MaxNow, NEW x, ProofFits(x), x.form = "signature", x.input[1] # "aitp-pinned-key-v1",
         x.by = x.context.sender,
         NEW d, d = Descriptor("spiffe", Nil, Workload(x.by), "x509-svid", Leaf(x.by), Nil, x),
         d.x5c.root \in CaRoots, NEW hint \in HintsFor(d)
  PROVE  BootstrapIdentity(d, hint, x.context) = "ok"
<1>1. /\ d.kind = "spiffe" /\ d.issuer = Nil /\ d.subject = Workload(x.by) /\ d.svid_type = "x509-svid"
      /\ d.x5c = Leaf(x.by) /\ d.public_key = Nil /\ d.proof = x
  BY DescriptorIs
<1>2. x.by \in Peers /\ x.key = x.by
  BY DEF ProofFits
<1>3. PICK domain \in {"aitp-pinned-key-v1", "aitp-spiffe-x509-v1"} : x.input = ProofInput(domain, x.context)
  BY DEF ProofFits
<1>4. ProofInput(domain, x.context)[1] = domain
  BY DEF ProofInput
<1>5. x.input = ProofInput("aitp-spiffe-x509-v1", x.context)
  BY <1>3, <1>4
<1>6. PICK l, n, w : l = Leaf(x.by) /\ n = MaxNow /\ w = Workload(x.by)
  OBVIOUS
<1>7. /\ l.uris = {w} /\ ~l.ca /\ l.digital_signature /\ ~l.key_cert_sign /\ l.type = "P256"
      /\ l.not_after = n /\ l.key = x.by
  BY <1>6 DEF Leaf
<1>8. X509Holds(d, x.context)
  <2>1. n >= now
    BY <1>6, IdentityAssumption
  <2>2. d.x5c = l /\ d.subject = w
    BY <1>1, <1>6
  <2> QED
    BY <1>1, <1>2, <1>5, <1>7, <2>1, <2>2 DEF X509Holds
<1>9. SvidVerdict(d, x.context) = "ok"
  <2>1. d.x5c # Nil
    BY <1>1, <1>2, MintAssumption
  <2> QED
    BY <1>1, <1>8, <2>1, X509Means DEF SvidVerdict
<1>10. SpiffeHolds(d, x.context)
  <2>1. d.x5c # Nil /\ "x509-svid" # Nil /\ d.subject \notin Peers
    BY <1>1, <1>2, MintAssumption
  <2>2. w[1] = Domain
    BY <1>6 DEF Workload
  <2>3. CaRoots # {}
    OBVIOUS
  <2> QED
    BY <1>1, <1>6, <1>9, <2>1, <2>2, <2>3 DEF SpiffeHolds
<1>11. VerifyByKind(d, x.context) = "ok"
  BY <1>1, <1>10, SpiffeMeans DEF VerifyByKind
<1> QED
  BY <1>1, <1>11, OwnBoot

\* The claims of a token hold for the handshake it was made for, until it
\* has expired.
LEMMA OwnClaims ==
  ASSUME now \in Nat, NEW x, ProofFits(x), x.form = "jwt", x.by = x.context.sender, x.exp > now,
         NEW d, d.subject = x.sub
  PROVE  ClaimsHold(x, d, x.context)
<1>1. /\ x.nonce = x.context.pop_nonce /\ x.jkt = x.by /\ x.context.receiver \in x.aud
      /\ x.iat \in Nat /\ x.iat <= now /\ x.exp = x.iat + IatTolerance + 1
  BY DEF ProofFits
<1>2. WithinToleranceOf(x.iat, now)
  <2>1. PICK i, n, e : i = x.iat /\ n = now /\ e = IatTolerance
    OBVIOUS
  <2>2. i \in Nat /\ n \in Nat /\ e \in Nat /\ i <= n /\ i + e + 1 > n
    BY <1>1, <2>1, IdentityAssumption
  <2>3. i - n <= e /\ n - i <= e
    BY <2>2
  <2> QED
    BY <2>1, <2>3 DEF WithinToleranceOf
<1> QED
  BY <1>1, <1>2 DEF ClaimsHold

\* A key that signs ES256 verifies what it signed.
LEMMA SignsVerifies ==
  ASSUME NEW keys, NEW k \in SigningKeys(keys), NEW x, x.alg = "ES256", x.key = k.id
  PROVE  k \in keys /\ VerifyJwsSignature(k, x) = "ok"
<1>1. k \in keys /\ Fits("ES256", k.type) /\ k.alg \in {Nil, "ES256"}
  BY DEF SigningKeys
<1> DEFINE p == Fits(x.alg, k.type) /\ k.alg \in {Nil, x.alg}
           a == <<p, "AlgMismatch">>
           b == <<x.key = k.id, "SignatureInvalid">>
<1>2. VerifyJwsSignature(k, x) = Verdict(<<a, b>>)
  BY DEF VerifyJwsSignature
<1>3. p
  BY <1>1
<1> HIDE DEF p
<1>4. a[1] /\ b[1]
  BY <1>3, ConditionIs
<1> HIDE DEF a, b
<1> QED
  BY <1>1, <1>2, <1>4, TwoOk

\* A user's own token is accepted where the provider is trusted.
LEMMA OidcAccepted ==
  ASSUME now \in Nat, NEW x, ProofFits(x), x.form = "jwt", x.iss = Provider,
         x.by = x.context.sender, x.exp > now, Provider \in Anchors, IssuerKeys(Provider) = JwksOf[Provider],
         SignedWithFirst(x),
         NEW d, d = Descriptor("oidc", Provider, User(x.by), Nil, Nil, Nil, x), NEW hint \in HintsFor(d)
  PROVE  BootstrapIdentity(d, hint, x.context) = "ok"
<1>1. /\ d.kind = "oidc" /\ d.issuer = Provider /\ d.subject = User(x.by) /\ d.svid_type = Nil
      /\ d.x5c = Nil /\ d.public_key = Nil /\ d.proof = x
  BY DescriptorIs
<1>2. Provider # Nil /\ Domain # Provider
  BY MintAssumption
<1>3. x.alg = "ES256" /\ MintedBy(x, Provider, User(x.by), JwksIn(JwksOf[Provider]))
  BY <1>2 DEF ProofFits, MintedBy
<1> DEFINE keys == JwksOf[Provider]
<1>4. PICK i \in DOMAIN keys :
        /\ keys[i] \in SigningKeys(JwksIn(keys)) /\ keys[i].kid = x.kid /\ keys[i].id = x.key
        /\ \A j \in DOMAIN keys : keys[j].kid = x.kid => i <= j
  BY DEF SignedWithFirst
<1>12. PICK k : k = keys[i]
  OBVIOUS
<1>5. k \in JwksIn(keys) /\ VerifyJwsSignature(k, x) = "ok"
  BY <1>3, <1>4, <1>12, SignsVerifies
<1>6. k \in OidcKeys(d)
  <2> DEFINE named == {j \in DOMAIN keys : keys[j].kid = x.kid}
             first == {j \in named : \A l \in named : j <= l}
  <2>1. i \in first /\ named # {}
    BY <1>4
  <2>2. k \in {keys[j] : j \in first}
    BY <1>12, <2>1
  <2>3. SelectKey(x.kid, keys) = {keys[j] : j \in first}
    BY <2>1 DEF SelectKey
  <2> QED
    BY <1>1, <2>2, <2>3 DEF OidcKeys
<1>7. x.sub = d.subject
  BY <1>1, <1>3 DEF MintedBy
<1>8. ClaimsHold(x, d, x.context)
  BY <1>7, OwnClaims
<1>9. IssuerKeys(d.issuer) # << >>
  <2>1. DOMAIN << >> = {}
    OBVIOUS
  <2> QED
    BY <1>1, <1>4, <2>1
<1>10. OidcHolds(d, x.context)
  BY <1>1, <1>2, <1>5, <1>6, <1>8, <1>9 DEF OidcHolds
<1>11. VerifyByKind(d, x.context) = "ok"
  BY <1>1, <1>10, OidcMeans DEF VerifyByKind
<1> QED
  BY <1>1, <1>11, OwnBoot

\* So is a workload's own token, where its domain's bundle is at hand.
LEMMA JwtSvidAccepted ==
  ASSUME now \in Nat, NEW x, ProofFits(x), x.form = "jwt", x.iss # Provider,
         x.by = x.context.sender, x.exp > now,
         NEW d, d = Descriptor("spiffe", Nil, Workload(x.by), "jwt-svid", Nil, Nil, x), NEW hint \in HintsFor(d)
  PROVE  BootstrapIdentity(d, hint, x.context) = "ok"
<1>1. /\ d.kind = "spiffe" /\ d.issuer = Nil /\ d.subject = Workload(x.by) /\ d.svid_type = "jwt-svid"
      /\ d.x5c = Nil /\ d.public_key = Nil /\ d.proof = x
  BY DescriptorIs
<1>2. /\ x.by \in Peers /\ x.alg = "ES256" /\ MintedBy(x, Domain, Workload(x.by), Authorities)
      /\ x.aud = {x.context.receiver}
  BY DEF ProofFits, MintedBy
<1>3. PICK k \in SigningKeys(Authorities) : x.kid = k.kid /\ x.key = k.id
  BY <1>2 DEF MintedBy
<1>4. k \in Authorities /\ VerifyJwsSignature(k, x) = "ok"
  BY <1>2, <1>3, SignsVerifies
<1>5. ClaimsHold(x, d, x.context)
  <2>1. x.sub = d.subject
    BY <1>1, <1>2 DEF MintedBy
  <2> QED
    BY <2>1, OwnClaims
<1>6. Cardinality(x.aud) = 1
  BY <1>2, FS_Singleton
<1>7. x.alg \in JWT_SVID_ALGS
  BY <1>2 DEF JWT_SVID_ALGS, TypeOfAlg
<1>8. JwtSvidHolds(d, x.context)
  <2>1. x.kid # Nil
    BY <1>3, <1>4, MintAssumption
  <2> QED
    BY <1>1, <1>3, <1>4, <1>5, <1>6, <1>7, <2>1 DEF JwtSvidHolds
<1>9. SvidVerdict(d, x.context) = "ok"
  BY <1>1, <1>8, JwtSvidMeans DEF SvidVerdict
<1>10. SpiffeHolds(d, x.context)
  <2>1. "jwt-svid" # Nil /\ d.subject \notin Peers
    BY <1>1, <1>2, MintAssumption
  <2>2. d.subject[1] = Domain
    <3>1. PICK w : w = Workload(x.by)
      OBVIOUS
    <3>2. w[1] = Domain
      BY <3>1 DEF Workload
    <3> QED
      BY <1>1, <3>1, <3>2
  <2>3. Authorities # {}
    BY <1>4
  <2> QED
    BY <1>1, <1>9, <2>1, <2>2, <2>3 DEF SpiffeHolds
<1>11. VerifyByKind(d, x.context) = "ok"
  BY <1>1, <1>10, SpiffeMeans DEF VerifyByKind
<1> QED
  BY <1>1, <1>11, OwnBoot

\* Type correctness, and what was made fits what was asked for.
THEOREM IdentityCorrect == IdSpec => []IdInv
<1>1. IdInit => IdInv
  BY IdentityAssumption DEF IdInit, IdInv
<1> QED
  BY <1>1, IdStep, PTL DEF IdSpec

\* The invariant bounds what is accepted.
LEMMA BoundHolds ==
  ASSUME IdInv
  PROVE  IdentityBound
<1>1. ASSUME NEW x \in proofs, NEW c \in Contexts, NEW d \in Presented(x), NEW hint \in HintsFor(d),
             BootstrapIdentity(d, hint, c) = "ok"
      PROVE  Bound(x, d, c)
  <2>1. ProofFits(x)
    BY DEF IdInv
  <2> QED
    BY <1>1, <2>1, AcceptedBound
<1> QED
  BY <1>1 DEF IdentityBound, Bound

\* And says that a proof is accepted where it was made for.
LEMMA AcceptedHolds ==
  ASSUME IdInv
  PROVE  IdentityAccepted
<1>1. ASSUME NEW x \in proofs, NEW d, d = BuildDescriptor(x), x.by = x.context.sender,
             d.kind = "pinned_key" => x.by \in Pinned,
             d.kind = "oidc" =>
               Provider \in Anchors /\ IssuerKeys(Provider) = JwksOf[Provider] /\ SignedWithFirst(x),
             d.x5c # Nil => d.x5c.root \in CaRoots,
             x.form = "jwt" => x.exp > now,
             NEW hint \in HintsFor(d)
      PROVE  BootstrapIdentity(d, hint, x.context) = "ok"
  <2>1. ProofFits(x) /\ now \in Nat /\ now <= MaxNow
    BY IdentityAssumption DEF IdInv
  <2>2. x.by \in Peers /\ x.form \in {"signature", "jwt"}
    BY <2>1 DEF ProofFits
  <2>3. CASE x.form = "signature" /\ x.input[1] = "aitp-pinned-key-v1"
    <3>1. d = Descriptor("pinned_key", Nil, x.by, Nil, Nil, x.by, x)
      BY <1>1, <2>3 DEF BuildDescriptor
    <3>2. d.kind = "pinned_key"
      BY <3>1, DescriptorIs
    <3> QED
      BY <1>1, <2>1, <2>3, <3>1, <3>2, PinnedAccepted
  <2>4. CASE x.form = "signature" /\ x.input[1] # "aitp-pinned-key-v1"
    <3>1. d = Descriptor("spiffe", Nil, Workload(x.by), "x509-svid", Leaf(x.by), Nil, x)
      BY <1>1, <2>4 DEF BuildDescriptor
    <3>2. d.x5c = Leaf(x.by)
      BY <3>1, DescriptorIs
    <3>3. d.x5c # Nil
      BY <2>2, <3>2, MintAssumption
    <3> QED
      BY <1>1, <2>1, <2>4, <3>1, <3>3, X509Accepted
  <2>5. CASE x.form = "jwt" /\ x.iss = Provider
    <3>1. d = Descriptor("oidc", Provider, User(x.by), Nil, Nil, Nil, x)
      BY <1>1, <2>5 DEF BuildDescriptor
    <3>2. d.kind = "oidc"
      BY <3>1, DescriptorIs
    <3> QED
      BY <1>1, <2>1, <2>5, <3>1, <3>2, OidcAccepted
  <2>6. CASE x.form = "jwt" /\ x.iss # Provider
    <3>1. d = Descriptor("spiffe", Nil, Workload(x.by), "jwt-svid", Nil, Nil, x)
      BY <1>1, <2>6 DEF BuildDescriptor
    <3> QED
      BY <1>1, <2>1, <2>6, <3>1, JwtSvidAccepted
  <2> QED
    BY <2>2, <2>3, <2>4, <2>5, <2>6
<1> QED
  BY <1>1 DEF IdentityAccepted

\* Identity!IdentityExact: a proof of identity verifies in the handshake it
\* was made for, by the sender it was made for, and in no other.
THEOREM IdentityIsExact == IdSpec => []IdentityExact
<1>1. IdInv => IdentityExact
  BY BoundHolds, AcceptedHolds DEF IdentityExact
<1> QED
  BY <1>1, IdentityCorrect, PTL
=============================================================================
