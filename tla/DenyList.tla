------------------------------ MODULE DenyList ------------------------------
(***************************************************************************)
(* InMemoryMessageIdDenyList (crates/aitp/src/handshake/admission/         *)
(* deny_list.rs): message ids of admitted presentations, in mutex-guarded  *)
(* shards with one atomic counter, under concurrent contains, insert and   *)
(* sweep calls. An action is one access to a shard or to the counter;      *)
(* insert and contains keep their shard's lock across several of them.     *)
(*                                                                         *)
(* A shard's heap is not modelled: an id leaves the map only when its pair *)
(* is popped and enters only when absent, so the heap holds exactly the    *)
(* pairs of the map.                                                       *)
(***************************************************************************)
EXTENDS Integers, FiniteSets

CONSTANTS
  Callers,     \* threads that may be inside the list at once
  Ids,         \* message ids
  NumShards,   \* number of shards
  ShardOf,     \* the hash: which shard holds an id
  Capacity,    \* bound on live records
  Windows,     \* how far past now a record may live (0..2 * tolerance)
  MaxTime,     \* bound of the model: last second of the clock
  Absent,      \* an id with no record
  NoOne        \* holder of a free lock

Shards == 1..NumShards

ASSUME ConstantAssumption ==
  /\ IsFiniteSet(Callers) /\ Callers # {} /\ IsFiniteSet(Ids)
  /\ NumShards \in Nat \ {0} /\ ShardOf \in [Ids -> Shards]
  /\ Capacity \in Nat /\ MaxTime \in Nat /\ Windows \subseteq Nat
  /\ Absent \notin Nat /\ NoOne \notin Callers

VARIABLES
  until,       \* the maps: last second of each id's record, or Absent
  live,        \* AtomicUsize
  lock,        \* holder of each shard's mutex, or NoOne
  pc,          \* next access of each call
  args,        \* arguments of each call in progress
  freed,       \* ids the call purged and has not yet subtracted
  cursor,      \* next shard of the call's sweep
  clock        \* the time

list == <<until, live, lock>>
vars == <<list, pc, args, freed, cursor, clock>>

Held == {i \in Ids : until[i] # Absent}

\* Shard::purge: what it drops, and the map after it.
Purged(s, now) == {i \in Ids : ShardOf[i] = s /\ until[i] # Absent /\ until[i] < now}
Without(S) == [i \in Ids |-> IF i \in S THEN Absent ELSE until[i]]

MyShard(c) == ShardOf[args[c].id]
At(c, access) == pc[c] = access
Goto(c, access) == pc' = [pc EXCEPT ![c] = access]
Lock(c, s) == lock[s] = NoOne /\ lock' = [lock EXCEPT ![s] = c]
Unlock(c) == lock' = [lock EXCEPT ![MyShard(c)] = NoOne]

Return(c) ==
  /\ Goto(c, "idle")
  /\ args' = [args EXCEPT ![c] = Absent]
  /\ cursor' = [cursor EXCEPT ![c] = 1]

Init ==
  /\ until = [i \in Ids |-> Absent]
  /\ live = 0
  /\ lock = [s \in Shards |-> NoOne]
  /\ pc = [c \in Callers |-> "idle"]
  /\ args = [c \in Callers |-> Absent]
  /\ freed = [c \in Callers |-> {}]
  /\ cursor = [c \in Callers |-> 1]
  /\ clock = 0

Begin(c, access, a) ==
  /\ At(c, "idle")
  /\ Goto(c, access)
  /\ args' = [args EXCEPT ![c] = a]
  /\ UNCHANGED <<list, freed, cursor, clock>>

BeginContains(c, i) == Begin(c, "purge", [op |-> "contains", id |-> i, now |-> clock])
BeginInsert(c, i, w) ==
  Begin(c, "purge", [op |-> "insert", id |-> i, now |-> clock, until |-> clock + w])
BeginSweep(c) == Begin(c, "sweep", [op |-> "sweep", now |-> clock])

\* insert_sync and contains_sync both start by purging their shard.
Purge(c) ==
  LET gone == Purged(MyShard(c), args[c].now)
  IN  /\ At(c, "purge")
      /\ Lock(c, MyShard(c))
      /\ until' = Without(gone)
      /\ freed' = [freed EXCEPT ![c] = gone]
      /\ Goto(c, "subtract")
      /\ UNCHANGED <<live, args, cursor, clock>>

Subtract(c) ==
  /\ At(c, "subtract")
  /\ live' = live - Cardinality(freed[c])
  /\ freed' = [freed EXCEPT ![c] = {}]
  /\ Goto(c, "lookup")
  /\ UNCHANGED <<until, lock, args, cursor, clock>>

\* Mutant of Lookup: the lock is kept while the caller sweeps.
LookupKeepsLock(c) ==
  /\ At(c, "lookup")
  /\ IF args[c].op = "contains" \/ until[args[c].id] # Absent
     THEN Unlock(c) /\ Return(c)
     ELSE /\ Goto(c, IF live >= Capacity THEN "sweep" ELSE "put")
          /\ UNCHANGED <<lock, args, cursor>>
  /\ UNCHANGED <<until, live, freed, clock>>

\* contains answers; insert returns false on a hit, and otherwise reads the
\* counter: at capacity it lets go of the lock and sweeps.
Lookup(c) ==
  /\ At(c, "lookup")
  /\ IF args[c].op = "contains" \/ until[args[c].id] # Absent
     THEN Unlock(c) /\ Return(c)
     ELSE /\ IF live >= Capacity
             THEN Unlock(c) /\ Goto(c, "sweep")
             ELSE UNCHANGED lock /\ Goto(c, "put")
          /\ UNCHANGED <<args, cursor>>
  /\ UNCHANGED <<until, live, freed, clock>>

Put(c) ==
  /\ At(c, "put")
  /\ until' = [until EXCEPT ![args[c].id] = args[c].until]
  /\ Goto(c, "count")
  /\ UNCHANGED <<live, lock, args, freed, cursor, clock>>

Count(c) ==
  /\ At(c, "count")
  /\ live' = live + 1
  /\ Unlock(c)
  /\ Return(c)
  /\ UNCHANGED <<until, freed, clock>>

\* sweep locks one shard at a time and subtracts at the end.
SweepShard(c) ==
  LET s == cursor[c]
      gone == Purged(s, args[c].now)
  IN  /\ At(c, "sweep")
      /\ lock[s] = NoOne
      /\ until' = Without(gone)
      /\ freed' = [freed EXCEPT ![c] = @ \cup gone]
      /\ cursor' = [cursor EXCEPT ![c] = @ + 1]
      /\ Goto(c, IF s = NumShards THEN "swept" ELSE "sweep")
      /\ UNCHANGED <<live, lock, args, clock>>

\* Mutant of SweepSubtract: what the sweep removed stays counted.
SweepForgets(c) ==
  /\ At(c, "swept")
  /\ freed' = [freed EXCEPT ![c] = {}]
  /\ IF args[c].op = "insert"
     THEN Goto(c, "recheck") /\ UNCHANGED <<args, cursor>>
     ELSE Return(c)
  /\ UNCHANGED <<list, clock>>

SweepSubtract(c) ==
  /\ At(c, "swept")
  /\ live' = live - Cardinality(freed[c])
  /\ freed' = [freed EXCEPT ![c] = {}]
  /\ IF args[c].op = "insert"
     THEN Goto(c, "recheck") /\ UNCHANGED <<args, cursor>>
     ELSE Return(c)
  /\ UNCHANGED <<until, lock, clock>>

\* Still full: AtCapacity.
Recheck(c) ==
  /\ At(c, "recheck")
  /\ IF live >= Capacity
     THEN Return(c)
     ELSE Goto(c, "relock") /\ UNCHANGED <<args, cursor>>
  /\ UNCHANGED <<list, freed, clock>>

\* Mutant of Relock: the second contains_key is forgotten.
RelockUnchecked(c) ==
  /\ At(c, "relock")
  /\ Lock(c, MyShard(c))
  /\ Goto(c, "put")
  /\ UNCHANGED <<until, live, args, freed, cursor, clock>>

\* Another call may have recorded the id while the lock was free.
Relock(c) ==
  /\ At(c, "relock")
  /\ lock[MyShard(c)] = NoOne
  /\ IF until[args[c].id] # Absent
     THEN UNCHANGED lock /\ Return(c)
     ELSE Lock(c, MyShard(c)) /\ Goto(c, "put") /\ UNCHANGED <<args, cursor>>
  /\ UNCHANGED <<until, live, freed, clock>>

Tick ==
  /\ clock < MaxTime
  /\ clock' = clock + 1
  /\ UNCHANGED <<list, pc, args, freed, cursor>>

Step(c) ==
  \/ Purge(c) \/ Subtract(c) \/ Lookup(c) \/ Put(c) \/ Count(c)
  \/ SweepShard(c) \/ SweepSubtract(c) \/ Recheck(c) \/ Relock(c)

Next ==
  \/ \E c \in Callers, i \in Ids : BeginContains(c, i)
  \/ \E c \in Callers, i \in Ids, w \in Windows : BeginInsert(c, i, w)
  \/ \E c \in Callers : BeginSweep(c)
  \/ \E c \in Callers : Step(c)
  \/ Tick

\* Threads are scheduled: a call that can go on goes on. A std mutex is not
\* fair, so nothing is assumed of who gets a contended lock, and new calls
\* are the environment's.
Spec == Init /\ [][Next]_vars /\ \A c \in Callers : WF_vars(Step(c))

(***************************************************************************)
(* Properties.                                                             *)
(***************************************************************************)
Locked == {"subtract", "lookup", "put", "count"}

\* Types, and a mutex is held exactly by the call between its lock and its
\* unlock.
TypeOK ==
  /\ until \in [Ids -> Nat \cup {Absent}]
  /\ live \in Nat
  /\ lock \in [Shards -> Callers \cup {NoOne}]
  /\ \A c \in Callers : pc[c] \in Locked => lock[MyShard(c)] = c
  /\ freed \in [Callers -> SUBSET Ids]
  /\ cursor \in [Callers -> 1..(NumShards + 1)]
  /\ clock \in 0..MaxTime

\* A call about to record an id finds it unrecorded, on the slow path too,
\* where the lock was let go of between the lookup and the insertion: of two
\* concurrent presentations of one message id only one is told true.
RecordsFreshId == \A c \in Callers : At(c, "put") => until[args[c].id] = Absent

\* The counter is exact once calls in progress are accounted for, so it
\* never wraps below zero and never stays too high after they return.
CounterExact ==
  live + Cardinality({c \in Callers : At(c, "count")})
    = Cardinality(Held) + Cardinality({p \in Callers \X Ids : p[2] \in freed[p[1]]})

\* How far the list can outgrow its capacity: the counter is read before
\* the insertion, so each thread inside the list may add one record.
OverrunBounded == Cardinality(Held) <= Capacity + Cardinality(Callers) - 1

\* What the list keeps while calls run: its locks and counter are in order,
\* and it outgrows "bounded at `capacity` live records" (its doc comment) by
\* no more than the calls inside it.
ListKept == TypeOK /\ CounterExact /\ OverrunBounded

\* No lock is kept for ever: once callers stop making new calls, every call
\* in progress returns, whatever it was waiting for. The lock is held over
\* finitely many accesses, a sweep takes one lock at a time with none held,
\* and insert lets go of its own before it sweeps.
CallsReturn ==
  (<>[][\A c \in Callers : At(c, "idle") => pc'[c] = "idle"]_vars)
    => \A c \in Callers : <>[]At(c, "idle")
=============================================================================
