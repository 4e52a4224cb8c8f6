----------------------------- MODULE NonceStore -----------------------------
(***************************************************************************)
(* InMemoryNonceStore (crates/aitp/src/core/nonce_store.rs): challenge     *)
(* nonces in mutex-guarded shards under one global capacity, with calls of *)
(* several threads interleaved. An action is one atomic section of the     *)
(* code: what happens under one shard lock, or one operation on one of the *)
(* atomics (outstanding, last_sweep, next_expiry). pc[c] names the section *)
(* that call c runs next; a call reads its clock once, when it starts.     *)
(***************************************************************************)
EXTENDS Integers, FiniteSets

CONSTANTS
  Callers,       \* threads that may be inside the store at once
  Nonces,        \* the nonces that can be issued or presented
  Verifiers,     \* AIDs
  NumShards,     \* number of shards, scanned in order 1..NumShards by a sweep
  ShardOf,       \* the hash: which shard holds a nonce
  Capacity,      \* bound on outstanding nonces
  CompactSlack,  \* 64 in the code: slack before a heap is rebuilt
  Ttls,          \* the lifetimes challenges are issued with
  MaxTime,       \* bound of the model: last second of the clock
  MaxIssues,     \* bound of the model: successful issues per nonce
  Never,         \* i64::MAX: next_expiry when nothing is outstanding
  NoRecord       \* a nonce with no entry in its shard's map

Record == [verifier : Verifiers, expires_at : Nat]
Shards == 1..NumShards

ASSUME ConstantAssumption ==
  /\ IsFiniteSet(Callers) /\ IsFiniteSet(Nonces)
  /\ NumShards \in Nat \ {0}
  /\ ShardOf \in [Nonces -> Shards]
  /\ Capacity \in Nat /\ CompactSlack \in Nat
  /\ MaxTime \in Nat /\ MaxIssues \in Nat
  /\ Ttls \subseteq Nat
  /\ Never \in Nat /\ \A t \in 0..MaxTime, d \in Ttls : t + d < Never
  /\ NoRecord \notin Record

VARIABLES
  map,           \* the shards' maps: record of each nonce, or NoRecord
  expiry,        \* the shards' heaps: pairs <<expires_at, nonce>>
  outstanding,   \* AtomicUsize
  last_sweep,    \* AtomicI64, -1 stands for i64::MIN
  next_expiry,   \* AtomicI64
  full_sweeps,   \* AtomicUsize: at-capacity sweeps begun
  pc,            \* next atomic section of each call
  args,          \* arguments of each call in progress, and a consume's outcome
  freed,         \* nonces the call removed and has not yet subtracted
  cursor,        \* next shard of the call's sweep
  earliest,      \* the sweep's running minimum
  clock,         \* the time
  issued,        \* history: successful issues per nonce
  consumed       \* history: Consumed outcomes per nonce

store == <<map, expiry, outstanding, last_sweep, next_expiry, full_sweeps>>
local == <<pc, args, freed, cursor, earliest>>
vars == <<store, local, clock, issued, consumed>>

(***************************************************************************)
(* The shard operations.                                                   *)
(***************************************************************************)
HeldIn(m) == {n \in Nonces : m[n] # NoRecord}
Held == HeldIn(map)
InShard(s) == {n \in Nonces : ShardOf[n] = s}
HeapOf(s, h) == {e \in h : ShardOf[e[2]] = s}

\* Mutant of Popped: expires_at read as exclusive, so a purge takes a record
\* in its last valid second.
PoppedInclusive(s, now) == {e \in HeapOf(s, expiry) : e[1] <= now}

\* Shard::purge pops the heap while its top is expired, and drops the map
\* entry of a popped pair only if it still has that expiry.
Popped(s, now) == {e \in HeapOf(s, expiry) : e[1] < now}
Purged(s, now) ==
  {n \in InShard(s) : map[n] # NoRecord /\ <<map[n].expires_at, n>> \in Popped(s, now)}

Without(S) == [n \in Nonces |-> IF n \in S THEN NoRecord ELSE map[n]]

\* Shard::compact on heap h of a shard whose map is m: rebuilt from the map
\* when stale pairs outnumber the live ones.
Compacted(s, h, m) ==
  LET held == HeldIn(m) \cap InShard(s)
  IN  IF Cardinality(HeapOf(s, h)) > 2 * Cardinality(held) + CompactSlack
      THEN (h \ HeapOf(s, h)) \cup {<<m[n].expires_at, n>> : n \in held}
      ELSE h

\* Shard::earliest, folded into the sweep's running minimum.
EarlierOf(s, h, least) ==
  LET times == {e[1] : e \in HeapOf(s, h)} \cup {least}
  IN  CHOOSE t \in times : \A u \in times : t <= u

(***************************************************************************)
(* Control of a call.                                                      *)
(***************************************************************************)
Sections == {"idle", "purge", "release", "reserve", "gate", "sweep", "settle",
             "publish_earliest", "retry", "refuse", "insert", "undo", "publish",
             "consume", "finish"}

Goto(c, to) == pc' = [pc EXCEPT ![c] = to]
At(c, section) == pc[c] = section

Init ==
  /\ map = [n \in Nonces |-> NoRecord]
  /\ expiry = {}
  /\ outstanding = 0
  /\ last_sweep = -1
  /\ next_expiry = Never
  /\ full_sweeps = 0
  /\ pc = [c \in Callers |-> "idle"]
  /\ args = [c \in Callers |-> NoRecord]
  /\ freed = [c \in Callers |-> {}]
  /\ cursor = [c \in Callers |-> 1]
  /\ earliest = [c \in Callers |-> Never]
  /\ clock = 0
  /\ issued = [n \in Nonces |-> 0]
  /\ consumed = [n \in Nonces |-> 0]

Begin(c, section, a) ==
  /\ At(c, "idle")
  /\ Goto(c, section)
  /\ args' = [args EXCEPT ![c] = a]
  /\ UNCHANGED <<store, freed, cursor, earliest, clock, issued, consumed>>

\* issue_sync is called with a record issued now that expires in d seconds.
BeginIssue(c, n, v, d) ==
  /\ issued[n] < MaxIssues
  /\ Begin(c, "purge", [op |-> "issue", now |-> clock, nonce |-> n,
                        rec |-> [verifier |-> v, expires_at |-> clock + d]])

BeginConsume(c, n, v) ==
  Begin(c, "consume", [op |-> "consume", now |-> clock, nonce |-> n, verifier |-> v,
                      outcome |-> "none"])

\* sweep is public: an operator may run one at any time.
BeginSweep(c) ==
  Begin(c, "sweep", [op |-> "sweep", now |-> clock])

Return(c) ==
  /\ Goto(c, "idle")
  /\ args' = [args EXCEPT ![c] = NoRecord]
  /\ freed' = [freed EXCEPT ![c] = {}]
  /\ cursor' = [cursor EXCEPT ![c] = 1]
  /\ earliest' = [earliest EXCEPT ![c] = Never]

\* release(n): the count of what this call removed goes off the counter.
Release(c) == outstanding' = outstanding - Cardinality(freed[c])

(***************************************************************************)
(* issue_sync.                                                             *)
(***************************************************************************)
IssuePurge(c) ==
  LET s == ShardOf[args[c].nonce]
      now == args[c].now
  IN  /\ At(c, "purge")
      /\ freed' = [freed EXCEPT ![c] = Purged(s, now)]
      /\ map' = Without(Purged(s, now))
      /\ expiry' = expiry \ Popped(s, now)
      /\ Goto(c, "release")
      /\ UNCHANGED <<outstanding, last_sweep, next_expiry, full_sweeps,
                     args, cursor, earliest, clock, issued, consumed>>

IssueRelease(c) ==
  /\ At(c, "release")
  /\ Release(c)
  /\ freed' = [freed EXCEPT ![c] = {}]
  /\ Goto(c, "reserve")
  /\ UNCHANGED <<map, expiry, last_sweep, next_expiry, full_sweeps,
                 args, cursor, earliest, clock, issued, consumed>>

\* Mutant of TryReserve: off by one at the bound.
TryReserveOneMore(c, otherwise) ==
  /\ IF outstanding <= Capacity
     THEN outstanding' = outstanding + 1 /\ Goto(c, "insert")
     ELSE UNCHANGED outstanding /\ Goto(c, otherwise)
  /\ UNCHANGED <<map, expiry, last_sweep, next_expiry, full_sweeps,
                 args, freed, cursor, earliest, clock, issued, consumed>>

\* try_reserve: one fetch_update, which takes a slot only below capacity.
TryReserve(c, otherwise) ==
  /\ IF outstanding < Capacity
     THEN outstanding' = outstanding + 1 /\ Goto(c, "insert")
     ELSE UNCHANGED outstanding /\ Goto(c, otherwise)
  /\ UNCHANGED <<map, expiry, last_sweep, next_expiry, full_sweeps,
                 args, freed, cursor, earliest, clock, issued, consumed>>

Reserve(c) == At(c, "reserve") /\ TryReserve(c, "gate")

\* Mutant of SweepGate: the loser of the second sweeps too.
SweepGateEveryone(c) ==
  /\ At(c, "gate")
  /\ last_sweep' = IF last_sweep < args[c].now THEN args[c].now ELSE last_sweep
  /\ full_sweeps' = full_sweeps + 1
  /\ Goto(c, "sweep")
  /\ UNCHANGED <<map, expiry, outstanding, next_expiry,
                 args, freed, cursor, earliest, clock, issued, consumed>>

\* last_sweep.fetch_max(now): the winner of this second sweeps.
SweepGate(c) ==
  LET now == args[c].now
  IN  /\ At(c, "gate")
      /\ IF last_sweep < now
         THEN /\ last_sweep' = now
              /\ full_sweeps' = full_sweeps + 1
              /\ Goto(c, "sweep")
         ELSE UNCHANGED <<last_sweep, full_sweeps>> /\ Goto(c, "refuse")
      /\ UNCHANGED <<map, expiry, outstanding, next_expiry,
                     args, freed, cursor, earliest, clock, issued, consumed>>

RetryReserve(c) == At(c, "retry") /\ TryReserve(c, "refuse")

\* retry_after(now) as drawn from the bound nx; 0 stands for None.
RetryAfter(nx, now) ==
  IF nx = Never THEN 0 ELSE IF nx + 1 - now > 1 THEN nx + 1 - now ELSE 1

Refuse(c) ==
  /\ At(c, "refuse")
  /\ Return(c)
  /\ UNCHANGED <<store, clock, issued, consumed>>

Insert(c) ==
  LET n == args[c].nonce
      r == args[c].rec
      m == [map EXCEPT ![n] = r]
  IN  /\ At(c, "insert")
      /\ IF map[n] # NoRecord
         THEN /\ Goto(c, "undo")
              /\ UNCHANGED <<map, expiry, issued>>
         ELSE /\ map' = m
              /\ expiry' = Compacted(ShardOf[n], expiry \cup {<<r.expires_at, n>>}, m)
              /\ issued' = [issued EXCEPT ![n] = @ + 1]
              /\ Goto(c, "publish")
      /\ UNCHANGED <<outstanding, last_sweep, next_expiry, full_sweeps,
                     args, freed, cursor, earliest, clock, consumed>>

\* A duplicate gives its reserved slot back.
UndoReserve(c) ==
  /\ At(c, "undo")
  /\ outstanding' = outstanding - 1
  /\ Return(c)
  /\ UNCHANGED <<map, expiry, last_sweep, next_expiry, full_sweeps,
                 clock, issued, consumed>>

\* next_expiry.fetch_min, after the shard lock is gone.
PublishExpiry(c) ==
  LET e == args[c].rec.expires_at
  IN  /\ At(c, "publish")
      /\ next_expiry' = IF e < next_expiry THEN e ELSE next_expiry
      /\ Return(c)
      /\ UNCHANGED <<map, expiry, outstanding, last_sweep, full_sweeps,
                     clock, issued, consumed>>

(***************************************************************************)
(* sweep.                                                                  *)
(***************************************************************************)
SweepShard(c) ==
  LET s == cursor[c]
      now == args[c].now
      m == Without(Purged(s, now))
      h == Compacted(s, expiry \ Popped(s, now), m)
  IN  /\ At(c, "sweep")
      /\ map' = m
      /\ expiry' = h
      /\ freed' = [freed EXCEPT ![c] = @ \cup Purged(s, now)]
      /\ earliest' = [earliest EXCEPT ![c] = EarlierOf(s, h, @)]
      /\ cursor' = [cursor EXCEPT ![c] = @ + 1]
      /\ Goto(c, IF s = NumShards THEN "settle" ELSE "sweep")
      /\ UNCHANGED <<outstanding, last_sweep, next_expiry, full_sweeps,
                     args, clock, issued, consumed>>

SweepRelease(c) ==
  /\ At(c, "settle")
  /\ Release(c)
  /\ freed' = [freed EXCEPT ![c] = {}]
  /\ Goto(c, "publish_earliest")
  /\ UNCHANGED <<map, expiry, last_sweep, next_expiry, full_sweeps,
                 args, cursor, earliest, clock, issued, consumed>>

\* next_expiry.store(earliest); a sweep run by issue then tries again.
SweepStore(c) ==
  /\ At(c, "publish_earliest")
  /\ next_expiry' = earliest[c]
  /\ \/ /\ args[c].op = "issue"
        /\ Goto(c, "retry")
        /\ UNCHANGED <<args, freed, cursor, earliest>>
     \/ /\ args[c].op = "sweep"
        /\ Return(c)
  /\ UNCHANGED <<map, expiry, outstanding, last_sweep, full_sweeps,
                 clock, issued, consumed>>

(***************************************************************************)
(* consume_sync: one section under the shard lock decides the outcome, the *)
(* counter follows after the lock is released.                             *)
(***************************************************************************)
\* Mutant of Owned: whoever presents the nonce consumes it.
OwnedByAnyone(n, v) == map[n] # NoRecord

\* Another verifier's nonce stays outstanding for it.
Owned(n, v) == map[n] # NoRecord /\ map[n].verifier = v

Outcome(c, o) == args' = [args EXCEPT ![c].outcome = o]

\* Mutant of ConsumeMatch: the record is looked up and not removed.
ConsumeMatchKeeps(c) ==
  /\ Owned(args[c].nonce, args[c].verifier)
  /\ IF map[args[c].nonce].expires_at < args[c].now
     THEN Outcome(c, "Expired") /\ UNCHANGED consumed
     ELSE Outcome(c, "Consumed") /\ consumed' = [consumed EXCEPT ![args[c].nonce] = @ + 1]
  /\ UNCHANGED <<map, expiry, freed>>

\* Mutant of ConsumeMatch: it does not look at the expiry.
ConsumeMatchAnytime(c) ==
  LET n == args[c].nonce
      m == Without({n})
  IN  /\ Owned(n, args[c].verifier)
      /\ map' = m
      /\ expiry' = Compacted(ShardOf[n], expiry, m)
      /\ freed' = [freed EXCEPT ![c] = {n}]
      /\ Outcome(c, "Consumed")
      /\ consumed' = [consumed EXCEPT ![n] = @ + 1]

ConsumeMatch(c) ==
  LET n == args[c].nonce
      m == Without({n})
  IN  /\ Owned(n, args[c].verifier)
      /\ map' = m
      /\ expiry' = Compacted(ShardOf[n], expiry, m)
      /\ freed' = [freed EXCEPT ![c] = {n}]
      /\ IF map[n].expires_at < args[c].now
         THEN Outcome(c, "Expired") /\ UNCHANGED consumed
         ELSE Outcome(c, "Consumed") /\ consumed' = [consumed EXCEPT ![n] = @ + 1]

ConsumeUnknown(c) ==
  LET n == args[c].nonce
      s == ShardOf[n]
      now == args[c].now
  IN  /\ ~Owned(n, args[c].verifier)
      /\ map' = Without(Purged(s, now))
      /\ expiry' = expiry \ Popped(s, now)
      /\ freed' = [freed EXCEPT ![c] = Purged(s, now)]
      /\ Outcome(c, "Unknown")
      /\ UNCHANGED consumed

Consume(c) ==
  /\ At(c, "consume")
  /\ ConsumeMatch(c) \/ ConsumeUnknown(c)
  /\ Goto(c, "finish")
  /\ UNCHANGED <<outstanding, last_sweep, next_expiry, full_sweeps,
                 cursor, earliest, clock, issued>>

ConsumeRelease(c) ==
  /\ At(c, "finish")
  /\ Release(c)
  /\ Return(c)
  /\ UNCHANGED <<map, expiry, last_sweep, next_expiry, full_sweeps,
                 clock, issued, consumed>>

Tick ==
  /\ clock < MaxTime
  /\ clock' = clock + 1
  /\ UNCHANGED <<store, local, issued, consumed>>

IssueStep(c) ==
  IssuePurge(c) \/ IssueRelease(c) \/ Reserve(c) \/ SweepGate(c) \/ RetryReserve(c)
  \/ Refuse(c) \/ Insert(c) \/ UndoReserve(c) \/ PublishExpiry(c)
SweepStep(c) == SweepShard(c) \/ SweepRelease(c) \/ SweepStore(c)
ConsumeStep(c) == Consume(c) \/ ConsumeRelease(c)

Next ==
  \/ \E c \in Callers, n \in Nonces, v \in Verifiers, d \in Ttls : BeginIssue(c, n, v, d)
  \/ \E c \in Callers, n \in Nonces, v \in Verifiers : BeginConsume(c, n, v)
  \/ \E c \in Callers : BeginSweep(c)
  \/ \E c \in Callers : IssueStep(c)
  \/ \E c \in Callers : SweepStep(c)
  \/ \E c \in Callers : ConsumeStep(c)
  \/ Tick

Spec == Init /\ [][Next]_vars

(***************************************************************************)
(* Properties.                                                             *)
(***************************************************************************)
IssueArgs == [op : {"issue"}, now : Nat, nonce : Nonces, rec : Record]
Outcomes == {"Consumed", "Expired", "Unknown"}
ConsumeArgs == [op : {"consume"}, now : Nat, nonce : Nonces, verifier : Verifiers,
                outcome : Outcomes \cup {"none"}]
SweepArgs == [op : {"sweep"}, now : Nat]

IssueSections == {"purge", "release", "reserve", "gate", "retry", "refuse",
                  "insert", "undo", "publish"}
SweepSections == {"sweep", "settle", "publish_earliest"}

ArgsOK(c) ==
  \/ pc[c] = "idle" /\ args[c] = NoRecord
  \/ pc[c] \in IssueSections \cup SweepSections /\ args[c] \in IssueArgs
  \/ pc[c] = "consume" /\ args[c] \in ConsumeArgs
  \/ pc[c] = "finish" /\ args[c] \in ConsumeArgs /\ args[c].outcome \in Outcomes
  \/ pc[c] \in SweepSections /\ args[c] \in SweepArgs

\* The state of the store and of every call has its type. outstanding is a
\* usize: being in Nat says that no release ever subtracts more than is there.
TypeOK ==
  /\ map \in [Nonces -> Record \cup {NoRecord}]
  /\ expiry \subseteq (Nat \X Nonces)
  /\ outstanding \in Nat
  /\ last_sweep \in Int /\ last_sweep >= -1
  /\ next_expiry \in Nat
  /\ full_sweeps \in Nat
  /\ pc \in [Callers -> Sections]
  /\ args \in [Callers -> IssueArgs \cup ConsumeArgs \cup SweepArgs \cup {NoRecord}]
  /\ \A c \in Callers : ArgsOK(c)
  /\ freed \in [Callers -> SUBSET Nonces]
  /\ cursor \in [Callers -> 1..(NumShards + 1)]
  /\ earliest \in [Callers -> Nat]
  /\ clock \in 0..MaxTime
  /\ issued \in [Nonces -> Nat]
  /\ consumed \in [Nonces -> Nat]

\* The capacity a NonceStore promises: however issues, sweeps and consumes
\* interleave, the shards together never hold more than Capacity records,
\* though the check (try_reserve) and the insertion are separate sections.
CapacityBound == Cardinality(Held) <= Capacity

ReservingIn(p) == {c \in Callers : p[c] \in {"insert", "undo"}}
Reserving == ReservingIn(pc)
DebtOf(f) == {p \in Callers \X Nonces : p[2] \in f[p[1]]}
Debt == DebtOf(freed)

\* The counter is exact: outstanding counts the records held, the slots
\* reserved by issues between try_reserve and the insertion (or its undo),
\* and the records removed by calls that have not called release yet.
CounterExact ==
  outstanding = Cardinality(Held) + Cardinality(Reserving) + Cardinality(Debt)

\* What holds of every call between its sections.
CallOK(c) ==
  /\ pc[c] \notin {"release", "sweep", "settle", "finish"} => freed[c] = {}
  /\ pc[c] \in {"idle", "purge", "release", "reserve", "gate"} => cursor[c] = 1
  /\ pc[c] = "sweep" => cursor[c] <= NumShards /\ \A n \in freed[c] : ShardOf[n] < cursor[c]
  /\ pc[c] # "idle" => args[c].now \in 0..clock

\* A nonce is good for one use per issue: Consumed is reported at most once
\* for each successful issue, and not at all while the record is still held.
SingleUse ==
  \A n \in Nonces : consumed[n] + (IF map[n] # NoRecord THEN 1 ELSE 0) <= issued[n]

Covers(h, m) == \A n \in HeldIn(m) : <<m[n].expires_at, n>> \in h

\* Every record held has its pair in its shard's heap, so that purge can
\* find it when it expires: no record escapes expiry, whatever compact drops.
HeapCoversMap == Covers(expiry, map)

\* "At capacity a full sweep runs at most once per second of the caller's
\* clock": two refused issues of the same second never both sweep.
OneSweepPerSecond == full_sweeps <= last_sweep + 1

\* The inductive invariant of the counter, the sweeps and the histories.
StoreInv ==
  /\ TypeOK
  /\ \A c \in Callers : CallOK(c)
  /\ CounterExact
  /\ outstanding <= Capacity
  /\ SingleUse
  /\ HeapCoversMap
  /\ OneSweepPerSecond

Settled(n) == ~ \E c \in Callers : At(c, "publish") /\ args[c].nonce = n

\* What the comments on next_expiry ("Lower bound on the earliest outstanding
\* expiry") and in sweep ("A concurrent issue may lower it again; that only
\* makes it earlier") say: once an issue has returned, the bound is no later
\* than its record's expiry, so the Retry-After of a refused challenge is
\* never late. One thread keeps it. Two do not: a sweep that has passed the
\* shard overwrites with its store what the other's fetch_min has lowered.
RetryAfterNeverLate ==
  \A c \in Callers, n \in Held :
     At(c, "refuse") /\ Settled(n) =>
        /\ next_expiry # Never
        /\ RetryAfter(next_expiry, args[c].now) <= RetryAfter(map[n].expires_at, args[c].now)

\* The store implements the ledger of single-use, capacity-bounded nonces:
\* the insertion under the lock is the ledger's issue, the section that
\* decides a consume is the ledger's, a purge drops what expired, and every
\* other section is invisible. What a consume is told agrees with the record,
\* the verifier and the clock reading of the call: no nonce is spent by
\* another verifier or after its expiry, however old the reading and whatever
\* was purged or issued since.
Told ==
  [c \in Callers |->
     IF pc[c] # "finish" THEN NoRecord
     ELSE [nonce |-> args[c].nonce, verifier |-> args[c].verifier,
           now |-> args[c].now, outcome |-> args[c].outcome]]
Ledger == INSTANCE NonceLedger WITH live <- map, told <- Told
ImplementsLedger == Ledger!LedgerSpec
=============================================================================
