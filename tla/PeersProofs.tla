---------------------------- MODULE PeersProofs -----------------------------
(***************************************************************************)
(* What the token buckets and the sliding windows admit, for any number of *)
(* callers, clients and keys, any rate, and clock readings that arrive out *)
(* of order; what a peer renews, for any number of requests, in any order  *)
(* of their steps; the sessions and the token cache of the bindings, for   *)
(* any sequence of calls; what connect hands its caller, whoever answers;  *)
(* what an agent signs, whatever its key backend answers; which session    *)
(* bundles a participant accepts, whatever was posted; and whom an         *)
(* accepted delegation was given its scope by, whichever tokens there are. *)
(***************************************************************************)
EXTENDS Conformance, Delegation, RateLimit, Renewal, Bindings, Connect, Signing, SessionBundle,
        VerifierProofs, FiniteSetTheorems

(***************************************************************************)
(* The inductive invariant of the token buckets.                           *)
(***************************************************************************)
Buckets == [tokens : 0..Burst, last : Nat]
ChargingStates ==
  [pc : {"idle", "transport", "label"}, key : TransportKeys \cup {Missing},
   label : Labels \cup {Missing}, now : Nat]

\* A key that has no bucket has its burst.
TokensOf(b) == IF b = Missing THEN Burst ELSE b.tokens

RlTypes ==
  /\ instant \in Nat
  /\ buckets \in [Keys -> Buckets \cup {Missing}]
  /\ charged \in [Keys -> Nat] /\ mark \in [Keys -> Nat] /\ overtaken \in [Keys -> Nat]
  /\ charging \in [Chargers -> ChargingStates]

\* What a key has been given and still has, it was owed.
KeyFits(k) ==
  /\ TokensOf(buckets[k]) + UNIT * charged[k] <= Burst + PER_TICK * (mark[k] + overtaken[k])
  /\ buckets[k] # Missing => buckets[k].last = mark[k]
  /\ mark[k] <= instant

\* A caller's reading of the clock is one of the past.
ChargingFits(c) ==
  /\ charging[c].now <= instant
  /\ charging[c].pc = "transport" => charging[c].key \in TransportKeys
  /\ charging[c].pc = "label" => charging[c].label \in Labels

RateInv ==
  /\ RlTypes
  /\ \A k \in Keys : KeyFits(k)
  /\ \A c \in Chargers : ChargingFits(c)

(***************************************************************************)
(* Arithmetic.                                                             *)
(***************************************************************************)

\* The constants are numbers.
LEMMA RlConstants == UNIT \in Nat /\ UNIT > 0 /\ PER_TICK \in Nat /\ Burst \in Nat /\ Burst >= UNIT
<1>1. UNIT \in Nat /\ UNIT > 0 /\ PER_TICK \in Nat /\ BURST \in Nat
  BY RateLimitAssumption
<1>2. CASE BURST = 0
  BY <1>1, <1>2 DEF Burst
<1>3. CASE BURST # 0
  <2>1. BURST - 1 \in Nat /\ UNIT * (BURST - 1) \in Nat /\ UNIT * BURST = UNIT + UNIT * (BURST - 1)
    BY <1>1, <1>3
  <2>2. Burst = UNIT * BURST
    BY <1>3 DEF Burst
  <2> QED
    BY <1>1, <2>1, <2>2
<1> QED
  BY <1>2, <1>3

\* More time yields no fewer tokens.
LEMMA RateGrows ==
  ASSUME NEW a \in Nat, NEW b \in Nat, a <= b
  PROVE  /\ PER_TICK * a \in Nat /\ PER_TICK * b \in Nat /\ PER_TICK * (b - a) \in Nat
         /\ PER_TICK * a <= PER_TICK * b /\ PER_TICK * b = PER_TICK * a + PER_TICK * (b - a)
<1>1. b - a \in Nat /\ PER_TICK \in Nat
  BY RlConstants
<1>2. PER_TICK * (b - a) \in Nat /\ PER_TICK * a \in Nat /\ PER_TICK * b \in Nat
  BY <1>1
<1>3. PER_TICK * b = PER_TICK * a + PER_TICK * (b - a)
  BY <1>1
<1> QED
  BY <1>2, <1>3

\* A reading that was overtaken by d counts d again.
Overtaken(m, o, now) == IF m > now THEN o + m - now ELSE o

\* The time a key is owed for does not shrink.
LEMMA OwedTime ==
  ASSUME NEW m \in Nat, NEW o \in Nat, NEW now \in Nat
  PROVE  /\ Overtaken(m, o, now) \in Nat /\ m + o <= now + Overtaken(m, o, now)
         /\ now + Overtaken(m, o, now) = (m + o) + (IF now > m THEN now - m ELSE 0)
BY DEF Overtaken

\* A refill yields no more than the rate over the time that counts.
LEMMA RefillPays ==
  ASSUME NEW b \in Buckets, NEW now \in Nat, NEW o \in Nat, NEW spent \in Nat,
         b.tokens + spent <= Burst + PER_TICK * (b.last + o)
  PROVE  /\ Refill(b, now) \in Buckets /\ Refill(b, now).last = now
         /\ Refill(b, now).tokens + spent <= Burst + PER_TICK * (now + Overtaken(b.last, o, now))
<1> DEFINE d == IF now > b.last THEN now - b.last ELSE 0
           y == PER_TICK * d
           r == Refill(b, now)
<1>1. b.tokens \in Nat /\ b.tokens <= Burst /\ b.last \in Nat /\ d \in Nat /\ y \in Nat /\ Burst \in Nat
  BY RlConstants DEF Buckets
<1>2. r = [tokens |-> Least(b.tokens + y, Burst), last |-> now]
  BY DEF Refill
<1>3. PER_TICK * (now + Overtaken(b.last, o, now)) = PER_TICK * (b.last + o) + y
  <2>1. now + Overtaken(b.last, o, now) = (b.last + o) + d
    BY <1>1, OwedTime
  <2>2. PER_TICK * ((b.last + o) + d) = PER_TICK * (b.last + o) + PER_TICK * d
    BY <1>1, RlConstants
  <2> QED
    BY <2>1, <2>2
<1>4. PER_TICK * (b.last + o) \in Nat
  BY <1>1, RlConstants
<1> HIDE DEF y, d
<1>5. r.tokens \in 0..Burst /\ r.tokens <= b.tokens + y /\ r.last = now
  BY <1>1, <1>2 DEF Least
<1>6. r \in Buckets
  BY <1>2, <1>5 DEF Buckets
<1>7. r.tokens + spent <= Burst + PER_TICK * (now + Overtaken(b.last, o, now))
  BY <1>1, <1>3, <1>4, <1>5
<1> QED
  BY <1>5, <1>6, <1>7

(***************************************************************************)
(* One call of check_key_at.                                               *)
(***************************************************************************)

\* A bucket is not the absence of one.
LEMMA BucketNotMissing ==
  ASSUME NEW b \in Buckets
  PROVE  b # Missing
<1>1. b \in [tokens : Nat, last : Nat]
  BY RlConstants DEF Buckets
<1> QED
  BY <1>1, RateLimitAssumption

\* A prune leaves a key that it does not touch, and gives no other key more
\* than a refill: one that is full again has its burst without a bucket too.
LEMMA PrunePays ==
  ASSUME NEW which \in {"transport", "label"}, NEW now \in Nat, NEW k \in Keys, RlTypes, KeyFits(k)
  PROVE  /\ k \notin Tracked(buckets, which) => Prune(which, now)[k] = buckets[k]
         /\ k \in Tracked(buckets, which) =>
              /\ Prune(which, now)[k] \in Buckets \cup {Missing}
              /\ Prune(which, now)[k] # Missing => Prune(which, now)[k].last = now
              /\ TokensOf(Prune(which, now)[k]) + UNIT * charged[k]
                   <= Burst + PER_TICK * (now + Overtaken(mark[k], overtaken[k], now))
<1>1. ASSUME k \notin Tracked(buckets, which) PROVE Prune(which, now)[k] = buckets[k]
  BY <1>1 DEF Prune
<1>2. ASSUME k \in Tracked(buckets, which)
      PROVE  /\ Prune(which, now)[k] \in Buckets \cup {Missing}
             /\ Prune(which, now)[k] # Missing => Prune(which, now)[k].last = now
             /\ TokensOf(Prune(which, now)[k]) + UNIT * charged[k]
                  <= Burst + PER_TICK * (now + Overtaken(mark[k], overtaken[k], now))
  <2> DEFINE b == buckets[k]
             r == Refill(b, now)
  <2>1. b \in Buckets /\ b.last = mark[k] /\ overtaken[k] \in Nat /\ charged[k] \in Nat
    BY <1>2 DEF Tracked, RlTypes, KeyFits
  <2>2. UNIT * charged[k] \in Nat
    BY <2>1, RlConstants
  <2>3. b.tokens + UNIT * charged[k] <= Burst + PER_TICK * (b.last + overtaken[k])
    BY <2>1, BucketNotMissing DEF KeyFits, TokensOf
  <2>4. /\ r \in Buckets /\ r.last = now
        /\ r.tokens + UNIT * charged[k] <= Burst + PER_TICK * (now + Overtaken(b.last, overtaken[k], now))
    BY <2>1, <2>2, <2>3, RefillPays
  <2>5. Prune(which, now)[k] = IF r.tokens < Burst THEN r ELSE Missing
    BY <1>2 DEF Prune
  <2>6. r.tokens \in 0..Burst /\ r # Missing /\ Burst \in Nat
    BY <2>4, BucketNotMissing, RlConstants DEF Buckets
  <2> HIDE DEF b, r
  <2>7. TokensOf(Prune(which, now)[k]) = r.tokens
    BY <2>5, <2>6 DEF TokensOf
  <2> QED
    BY <2>1, <2>4, <2>5, <2>6, <2>7
<1> QED
  BY <1>1, <1>2

\* What a call makes of the key it charges: a key that is charged has paid.
LEMMA CheckPays ==
  ASSUME NEW which \in {"transport", "label"}, NEW key \in LimiterKeys(which), NEW now \in Nat,
         RlTypes, \A k \in Keys : KeyFits(k), NEW r, r = Check(which, key, now)
  PROVE  /\ r.ok \in BOOLEAN
         /\ r.table[key] \in Buckets \cup {Missing}
         /\ r.table[key] # Missing => r.table[key].last = now
         /\ TokensOf(r.table[key]) + UNIT * (IF r.ok THEN charged[key] + 1 ELSE charged[key])
              <= Burst + PER_TICK * (now + Overtaken(mark[key], overtaken[key], now))
         /\ DOMAIN r.table = Keys
         /\ \A k \in Keys : k # key =>
              r.table[k] = IF PruneDue(which, key, now) THEN Prune(which, now)[k] ELSE buckets[k]
<1> DEFINE pruned == IF PruneDue(which, key, now) THEN Prune(which, now) ELSE buckets
           full == pruned[key] = Missing /\ Cardinality(Tracked(pruned, which)) >= MAX_SOURCES
           start == IF pruned[key] = Missing THEN [tokens |-> Burst, last |-> now] ELSE pruned[key]
           b == Refill(start, now)
           ok == ~full /\ b.tokens >= UNIT
           next == IF ok THEN [b EXCEPT !.tokens = @ - UNIT] ELSE b
<1>1. r = [ok |-> ok, table |-> IF full THEN pruned ELSE [pruned EXCEPT ![key] = next]]
  BY DEF Check
<1>2. key \in Keys
  BY DEF LimiterKeys, Keys
<1>3. DOMAIN pruned = Keys /\ pruned[key] = buckets[key]
  <2>1. CASE PruneDue(which, key, now)
    <3>1. key \notin Tracked(buckets, which)
      BY <2>1 DEF PruneDue, Tracked
    <3>2. DOMAIN Prune(which, now) = Keys /\ Prune(which, now)[key] = buckets[key]
      BY <1>2, <3>1 DEF Prune
    <3> QED
      BY <2>1, <3>2
  <2>2. CASE ~PruneDue(which, key, now)
    BY <2>2 DEF RlTypes
  <2> QED
    BY <2>1, <2>2
<1>4. /\ buckets[key] \in Buckets \cup {Missing} /\ charged[key] \in Nat /\ mark[key] \in Nat
      /\ overtaken[key] \in Nat /\ KeyFits(key)
  BY <1>2 DEF RlTypes
<1> DEFINE spent == UNIT * charged[key]
           owed == Burst + PER_TICK * (now + Overtaken(mark[key], overtaken[key], now))
<1>5. spent \in Nat /\ UNIT * (charged[key] + 1) = spent + UNIT /\ owed \in Nat
  <2>1. now + Overtaken(mark[key], overtaken[key], now) \in Nat
    <3>1. Overtaken(mark[key], overtaken[key], now) \in Nat
      BY <1>4, OwedTime
    <3> QED
      BY <3>1
  <2>2. PER_TICK * (now + Overtaken(mark[key], overtaken[key], now)) \in Nat
    BY <2>1, RlConstants
  <2> QED
    BY <1>4, <2>2, RlConstants
<1>6. buckets[key] = Missing => Burst + spent <= owed
  <2> SUFFICES ASSUME buckets[key] = Missing PROVE Burst + spent <= owed
    OBVIOUS
  <2>1. Burst + spent <= Burst + PER_TICK * (mark[key] + overtaken[key])
    BY <1>4 DEF KeyFits, TokensOf
  <2>2. /\ mark[key] + overtaken[key] \in Nat /\ now + Overtaken(mark[key], overtaken[key], now) \in Nat
        /\ mark[key] + overtaken[key] <= now + Overtaken(mark[key], overtaken[key], now)
    BY <1>4, OwedTime
  <2>3. /\ PER_TICK * (mark[key] + overtaken[key]) \in Nat
        /\ PER_TICK * (now + Overtaken(mark[key], overtaken[key], now)) \in Nat
        /\ PER_TICK * (mark[key] + overtaken[key]) <= PER_TICK * (now + Overtaken(mark[key], overtaken[key], now))
    BY <2>2, RateGrows
  <2> QED
    BY <1>5, <2>1, <2>3, RlConstants
<1>7. b \in Buckets /\ b.last = now /\ b.tokens + spent <= owed
  <2>1. CASE buckets[key] = Missing
    <3>1. start = [tokens |-> Burst, last |-> now]
      BY <1>3, <2>1
    <3>2. b = [tokens |-> Least(Burst + PER_TICK * 0, Burst), last |-> now]
      BY <3>1 DEF Refill
    <3>3. b = [tokens |-> Burst, last |-> now]
      BY <3>2, RlConstants DEF Least
    <3> QED
      BY <1>6, <2>1, <3>3, RlConstants DEF Buckets
  <2>2. CASE buckets[key] # Missing
    <3>1. start = buckets[key] /\ start \in Buckets /\ start.last = mark[key]
      BY <1>3, <1>4, <2>2 DEF KeyFits
    <3>2. start.tokens + spent <= Burst + PER_TICK * (start.last + overtaken[key])
      BY <1>4, <2>2, <3>1 DEF KeyFits, TokensOf
    <3> HIDE DEF start, spent
    <3>3. /\ Refill(start, now) \in Buckets /\ Refill(start, now).last = now
          /\ Refill(start, now).tokens + spent
               <= Burst + PER_TICK * (now + Overtaken(start.last, overtaken[key], now))
      BY <1>4, <1>5, <3>1, <3>2, RefillPays
    <3> QED
      BY <3>1, <3>3
  <2> QED
    BY <2>1, <2>2
<1> HIDE DEF b, spent, owed, start
<1>8. /\ next \in Buckets /\ next.last = now
      /\ next.tokens + (IF ok THEN spent + UNIT ELSE spent) <= owed
  <2>1. b = [tokens |-> b.tokens, last |-> now] /\ b.tokens \in 0..Burst
    BY <1>7 DEF Buckets
  <2>2. CASE ok
    <3>1. next = [tokens |-> b.tokens - UNIT, last |-> now] /\ b.tokens - UNIT \in 0..Burst
      BY <2>1, <2>2, RlConstants
    <3> QED
      BY <1>5, <1>7, <2>1, <2>2, <3>1, RlConstants DEF Buckets
  <2>3. CASE ~ok
    BY <1>7, <2>3
  <2> QED
    BY <2>2, <2>3
<1> HIDE DEF next
<1>9. CASE full
  <2>1. ~ok /\ buckets[key] = Missing /\ r.ok = ok /\ r.table = pruned
    BY <1>1, <1>3, <1>9
  <2> QED
    BY <1>3, <1>6, <1>9, <2>1 DEF TokensOf, spent, owed
<1>10. CASE ~full
  <2>1. r.ok = ok /\ r.table = [pruned EXCEPT ![key] = next]
    BY <1>1, <1>10
  <2>2. r.table[key] = next /\ DOMAIN r.table = Keys /\ \A k \in Keys : k # key => r.table[k] = pruned[k]
    BY <1>2, <1>3, <2>1
  <2>3. TokensOf(next) = next.tokens
    BY <1>8, BucketNotMissing DEF TokensOf
  <2>4. UNIT * (IF r.ok THEN charged[key] + 1 ELSE charged[key]) = IF ok THEN spent + UNIT ELSE spent
    BY <1>5, <2>1 DEF spent
  <2>5. TokensOf(r.table[key]) + UNIT * (IF r.ok THEN charged[key] + 1 ELSE charged[key]) <= owed
    BY <1>8, <2>2, <2>3, <2>4
  <2> QED
    BY <1>8, <2>1, <2>2, <2>5 DEF owed
<1> QED
  BY <1>9, <1>10

\* What a call makes of a key of its limiter or of the other one.
LEMMA ChargeKeepsKey ==
  ASSUME NEW which \in {"transport", "label"}, NEW key \in LimiterKeys(which), NEW now \in Nat,
         RlTypes, \A k \in Keys : KeyFits(k), now <= instant,
         Charge(which, key, now), instant' = instant, NEW k \in Keys
  PROVE  /\ buckets'[k] \in Buckets \cup {Missing} /\ charged'[k] \in Nat
         /\ mark'[k] \in Nat /\ overtaken'[k] \in Nat
         /\ KeyFits(k)'
<1> DEFINE due == PruneDue(which, key, now)
           touched == {key} \cup (IF due THEN Tracked(buckets, which) ELSE {})
<1>1. PICK r : r = Check(which, key, now)
  OBVIOUS
<1>2. /\ buckets' = r.table
      /\ charged' = [charged EXCEPT ![key] = IF r.ok THEN @ + 1 ELSE @]
      /\ mark' = [x \in Keys |-> IF x \in touched THEN now ELSE mark[x]]
      /\ overtaken' = [x \in Keys |->
           IF x \in touched /\ mark[x] > now THEN overtaken[x] + mark[x] - now ELSE overtaken[x]]
  BY <1>1 DEF Charge
<1>3. /\ r.ok \in BOOLEAN
      /\ r.table[key] \in Buckets \cup {Missing}
      /\ r.table[key] # Missing => r.table[key].last = now
      /\ TokensOf(r.table[key]) + UNIT * (IF r.ok THEN charged[key] + 1 ELSE charged[key])
           <= Burst + PER_TICK * (now + Overtaken(mark[key], overtaken[key], now))
      /\ \A x \in Keys : x # key => r.table[x] = IF due THEN Prune(which, now)[x] ELSE buckets[x]
  BY <1>1, CheckPays
<1>4. /\ buckets[k] \in Buckets \cup {Missing} /\ charged[k] \in Nat /\ mark[k] \in Nat
      /\ overtaken[k] \in Nat /\ KeyFits(k) /\ instant \in Nat
  BY DEF RlTypes
<1>5. DOMAIN charged = Keys /\ Overtaken(mark[k], overtaken[k], now) \in Nat
  BY <1>4, OwedTime DEF RlTypes
<1>6. ASSUME k \in touched
      PROVE  mark'[k] = now /\ overtaken'[k] = Overtaken(mark[k], overtaken[k], now)
  BY <1>2, <1>6 DEF Overtaken
<1>7. ASSUME k \notin touched PROVE mark'[k] = mark[k] /\ overtaken'[k] = overtaken[k]
  BY <1>2, <1>7
<1> HIDE DEF due
<1>8. CASE k = key
  <2>1. charged'[k] = (IF r.ok THEN charged[k] + 1 ELSE charged[k]) /\ k \in touched
    BY <1>2, <1>5, <1>8
  <2>2. charged'[k] \in Nat
    BY <1>4, <2>1
  <2>3. TokensOf(buckets'[k]) + UNIT * charged'[k] <= Burst + PER_TICK * (mark'[k] + overtaken'[k])
    BY <1>2, <1>3, <1>6, <1>8, <2>1
  <2>4. KeyFits(k)' = /\ TokensOf(buckets'[k]) + UNIT * charged'[k] <= Burst + PER_TICK * (mark'[k] + overtaken'[k])
                      /\ buckets'[k] # Missing => buckets'[k].last = mark'[k]
                      /\ mark'[k] <= instant'
    BY DEF KeyFits, TokensOf
  <2>5. buckets'[k] \in Buckets \cup {Missing} /\ (buckets'[k] # Missing => buckets'[k].last = mark'[k])
    BY <1>2, <1>3, <1>6, <1>8, <2>1
  <2> QED
    BY <1>5, <1>6, <2>1, <2>2, <2>3, <2>4, <2>5
<1>9. CASE k # key /\ due /\ k \in Tracked(buckets, which)
  <2>1. charged'[k] = charged[k] /\ k \in touched /\ buckets'[k] = Prune(which, now)[k]
    BY <1>2, <1>3, <1>5, <1>9
  <2>2. /\ buckets'[k] \in Buckets \cup {Missing}
        /\ buckets'[k] # Missing => buckets'[k].last = now
        /\ TokensOf(buckets'[k]) + UNIT * charged[k]
             <= Burst + PER_TICK * (now + Overtaken(mark[k], overtaken[k], now))
    BY <1>4, <1>9, <2>1, PrunePays
  <2>3. KeyFits(k)' = /\ TokensOf(buckets'[k]) + UNIT * charged'[k] <= Burst + PER_TICK * (mark'[k] + overtaken'[k])
                      /\ buckets'[k] # Missing => buckets'[k].last = mark'[k]
                      /\ mark'[k] <= instant'
    BY DEF KeyFits, TokensOf
  <2> QED
    BY <1>4, <1>5, <1>6, <2>1, <2>2, <2>3
<1>10. CASE k # key /\ ~(due /\ k \in Tracked(buckets, which))
  <2>1. charged'[k] = charged[k] /\ k \notin touched
    BY <1>2, <1>5, <1>10
  <2>2. buckets'[k] = buckets[k]
    <3>1. due => Prune(which, now)[k] = buckets[k]
      BY <1>4, <1>10, PrunePays
    <3> QED
      BY <1>2, <1>3, <1>10, <3>1
  <2>3. KeyFits(k)'
    BY <1>4, <1>7, <2>1, <2>2 DEF KeyFits, TokensOf
  <2> QED
    BY <1>4, <1>7, <2>1, <2>2, <2>3
<1> QED
  BY <1>8, <1>9, <1>10

\* A call keeps the table and what it owes.
LEMMA ChargeKeeps ==
  ASSUME NEW which \in {"transport", "label"}, NEW key \in LimiterKeys(which), NEW now \in Nat,
         RlTypes, \A k \in Keys : KeyFits(k), now <= instant,
         Charge(which, key, now), instant' = instant
  PROVE  /\ instant' \in Nat
         /\ buckets' \in [Keys -> Buckets \cup {Missing}]
         /\ charged' \in [Keys -> Nat] /\ mark' \in [Keys -> Nat] /\ overtaken' \in [Keys -> Nat]
         /\ \A k \in Keys : KeyFits(k)'
<1>1. \A k \in Keys :
        /\ buckets'[k] \in Buckets \cup {Missing} /\ charged'[k] \in Nat
        /\ mark'[k] \in Nat /\ overtaken'[k] \in Nat /\ KeyFits(k)'
  BY ChargeKeepsKey
<1>2. buckets' = [k \in Keys |-> buckets'[k]]
  <2>1. PICK r : r = Check(which, key, now)
    OBVIOUS
  <2>2. DOMAIN r.table = Keys
    BY <2>1, CheckPays
  <2>3. PruneDue(which, key, now) => Prune(which, now) = [k \in Keys |-> Prune(which, now)[k]]
    BY DEF Prune
  <2>4. buckets = [k \in Keys |-> buckets[k]]
    BY DEF RlTypes
  <2>5. r.table = [k \in Keys |-> r.table[k]]
    BY <2>1, <2>2, <2>3, <2>4 DEF Check
  <2> QED
    BY <2>1, <2>5 DEF Charge
<1>3. charged' = [k \in Keys |-> charged'[k]] /\ mark' = [k \in Keys |-> mark'[k]]
      /\ overtaken' = [k \in Keys |-> overtaken'[k]]
  BY DEF Charge, RlTypes
<1>4. instant' \in Nat
  BY DEF RlTypes
<1> QED
  BY <1>1, <1>2, <1>3, <1>4

(***************************************************************************)
(* Steps.                                                                  *)
(***************************************************************************)

\* A caller's next state is one of its states.
LEMMA ChargingKept ==
  ASSUME NEW c \in Chargers, NEW s \in ChargingStates, RlTypes, \A d \in Chargers : ChargingFits(d),
         s.now <= instant, s.pc = "transport" => s.key \in TransportKeys,
         s.pc = "label" => s.label \in Labels,
         charging' = [charging EXCEPT ![c] = s], instant' = instant
  PROVE  charging' \in [Chargers -> ChargingStates] /\ \A d \in Chargers : ChargingFits(d)'
BY DEF RlTypes, ChargingFits

\* The initial state fits.
LEMMA RateInitially == RlInit => RateInv
<1> SUFFICES ASSUME RlInit PROVE RateInv
  OBVIOUS
<1>1. NotCharging \in ChargingStates
  BY DEF NotCharging, ChargingStates
<1>2. RlTypes
  BY <1>1 DEF RlInit, RlTypes
<1>3. \A k \in Keys : KeyFits(k)
  BY RlConstants DEF RlInit, KeyFits, TokensOf
<1>4. \A c \in Chargers : ChargingFits(c)
  BY DEF RlInit, ChargingFits, NotCharging
<1> QED
  BY <1>2, <1>3, <1>4 DEF RateInv

\* Every step keeps the invariant.
LEMMA RateStep == RateInv /\ [BucketNext \/ WindowNext]_rlVars => RateInv'
<1> SUFFICES ASSUME RateInv, [BucketNext \/ WindowNext]_rlVars PROVE RateInv'
  OBVIOUS
<1>0. /\ RlTypes /\ (\A k \in Keys : KeyFits(k)) /\ (\A c \in Chargers : ChargingFits(c))
      /\ NotCharging \in ChargingStates /\ NotCharging.pc = "idle" /\ NotCharging.now = 0
      /\ instant \in Nat
  BY DEF RateInv, NotCharging, ChargingStates, RlTypes
<1>1. ASSUME NEW c \in Chargers, NEW key \in TransportKeys, NEW label \in Labels \cup {Missing},
             ReadInstant(c, key, label)
      PROVE  RateInv'
  <2>1. PICK s : s = [pc |-> "transport", key |-> key, label |-> label, now |-> instant]
    OBVIOUS
  <2>2. s \in ChargingStates /\ s.now <= instant /\ s.key \in TransportKeys /\ s.pc = "transport"
    BY <1>0, <2>1 DEF ChargingStates
  <2>3. charging' = [charging EXCEPT ![c] = s] /\ UNCHANGED <<instant, buckets, charged, mark, overtaken>>
    BY <1>1, <2>1 DEF ReadInstant
  <2>4. charging' \in [Chargers -> ChargingStates] /\ \A d \in Chargers : ChargingFits(d)'
    BY <1>0, <2>2, <2>3, ChargingKept
  <2> QED
    BY <1>0, <2>3, <2>4 DEF RateInv, RlTypes, KeyFits, TokensOf
<1>2. ASSUME NEW c \in Chargers, CheckTransport(c) PROVE RateInv'
  <2>1. PICK now, key, label : now = charging[c].now /\ key = charging[c].key /\ label = charging[c].label
    OBVIOUS
  <2>2. /\ charging[c] \in ChargingStates /\ now \in Nat /\ now <= instant
        /\ key \in TransportKeys /\ key \in LimiterKeys("transport")
        /\ label \in Labels \cup {Missing} /\ charging[c].pc = "transport"
    BY <1>0, <1>2, <2>1 DEF RlTypes, ChargingStates, ChargingFits, LimiterKeys, CheckTransport
  <2>3. Charge("transport", key, now) /\ instant' = instant
    BY <1>2, <2>1 DEF CheckTransport
  <2>4. /\ instant' \in Nat /\ buckets' \in [Keys -> Buckets \cup {Missing}]
        /\ charged' \in [Keys -> Nat] /\ mark' \in [Keys -> Nat] /\ overtaken' \in [Keys -> Nat]
        /\ \A k \in Keys : KeyFits(k)'
    BY <1>0, <2>2, <2>3, ChargeKeeps
  <2>5. PICK s : s = IF Check("transport", key, now).ok /\ label # Missing
                     THEN [charging[c] EXCEPT !.pc = "label"] ELSE NotCharging
    OBVIOUS
  <2>6. charging' = [charging EXCEPT ![c] = s]
    BY <1>0, <1>2, <2>1, <2>5 DEF CheckTransport, RlTypes
  <2>7. /\ s \in ChargingStates /\ s.now <= instant /\ s.pc # "transport"
        /\ s.pc = "label" => s.label \in Labels
    <3>1. CASE Check("transport", key, now).ok /\ label # Missing
      <4>1. s = [pc |-> "label", key |-> key, label |-> label, now |-> now]
        BY <2>1, <2>2, <2>5, <3>1 DEF ChargingStates
      <4> QED
        BY <2>2, <3>1, <4>1 DEF ChargingStates
    <3>2. CASE ~(Check("transport", key, now).ok /\ label # Missing)
      BY <1>0, <2>5, <3>2
    <3> QED
      BY <3>1, <3>2
  <2>8. charging' \in [Chargers -> ChargingStates] /\ \A d \in Chargers : ChargingFits(d)'
    BY <1>0, <2>3, <2>6, <2>7, ChargingKept
  <2> QED
    BY <2>4, <2>8 DEF RateInv, RlTypes
<1>3. ASSUME NEW c \in Chargers, CheckLabel(c) PROVE RateInv'
  <2>1. PICK now, label : now = charging[c].now /\ label = charging[c].label
    OBVIOUS
  <2>2. now \in Nat /\ now <= instant /\ label \in LimiterKeys("label")
    BY <1>0, <1>3, <2>1 DEF RlTypes, ChargingStates, ChargingFits, LimiterKeys, CheckLabel
  <2>3. Charge("label", label, now) /\ instant' = instant /\ charging' = [charging EXCEPT ![c] = NotCharging]
    BY <1>3, <2>1 DEF CheckLabel
  <2>4. /\ instant' \in Nat /\ buckets' \in [Keys -> Buckets \cup {Missing}]
        /\ charged' \in [Keys -> Nat] /\ mark' \in [Keys -> Nat] /\ overtaken' \in [Keys -> Nat]
        /\ \A k \in Keys : KeyFits(k)'
    BY <1>0, <2>2, <2>3, ChargeKeeps
  <2>5. charging' \in [Chargers -> ChargingStates] /\ \A d \in Chargers : ChargingFits(d)'
    <3>1. PICK s : s = NotCharging
      OBVIOUS
    <3>2. s \in ChargingStates /\ s.now <= instant /\ s.pc # "transport" /\ s.pc # "label"
      BY <1>0, <3>1
    <3>3. charging' = [charging EXCEPT ![c] = s]
      BY <2>3, <3>1
    <3> QED
      BY <1>0, <2>3, <3>2, <3>3, ChargingKept
  <2> QED
    BY <2>4, <2>5 DEF RateInv, RlTypes
<1>4. CASE RlTick
  <2>1. instant' = instant + 1 /\ UNCHANGED <<buckets, charged, mark, overtaken, charging>>
    BY <1>4 DEF RlTick, bucketVars
  <2>2. RlTypes'
    BY <1>0, <2>1 DEF RlTypes
  <2>3. \A k \in Keys : KeyFits(k)'
    <3> SUFFICES ASSUME NEW k \in Keys PROVE KeyFits(k)'
      OBVIOUS
    <3>1. mark[k] \in Nat /\ mark[k] <= instant
      BY <1>0 DEF RlTypes, KeyFits
    <3>2. mark'[k] <= instant'
      BY <1>0, <2>1, <3>1
    <3> QED
      BY <1>0, <2>1, <3>2 DEF KeyFits, TokensOf
  <2>4. \A c \in Chargers : ChargingFits(c)'
    <3> SUFFICES ASSUME NEW c \in Chargers PROVE ChargingFits(c)'
      OBVIOUS
    <3>1. charging[c].now \in Nat /\ charging[c].now <= instant
      BY <1>0 DEF RlTypes, ChargingStates, ChargingFits
    <3>2. charging'[c].now <= instant'
      BY <1>0, <2>1, <3>1
    <3> QED
      BY <1>0, <2>1, <3>2 DEF ChargingFits
  <2> QED
    BY <2>2, <2>3, <2>4 DEF RateInv
<1>5. ASSUME UNCHANGED <<instant, bucketVars>> PROVE RateInv'
  BY <1>0, <1>5 DEF bucketVars, RateInv, RlTypes, KeyFits, TokensOf, ChargingFits
<1>6. CASE BucketNext
  BY <1>1, <1>2, <1>3, <1>4, <1>6 DEF BucketNext
<1>7. CASE WindowNext
  <2>1. ASSUME NEW a, NEW proxied, NEW edge, NEW hops, NEW real_ip, NEW aid,
               Arrives(a, proxied, edge, hops, real_ip, aid)
        PROVE  UNCHANGED <<instant, bucketVars>>
    BY <2>1, Zenon DEF Arrives
  <2>2. WindowNext => RlTick \/ UNCHANGED <<instant, bucketVars>>
    BY <2>1, Zenon DEF WindowNext
  <2> QED
    BY <1>4, <1>5, <1>7, <2>2
<1>8. CASE UNCHANGED rlVars
  BY <1>5, <1>8 DEF rlVars, bucketVars
<1> QED
  BY <1>6, <1>7, <1>8

\* The tables, the readings and what was charged fit together in every
\* reachable state, whichever order the callers take the lock in.
THEOREM RateCorrect == RlSpec => []RateInv
BY RateInitially, RateStep, PTL DEF RlSpec

\* RateHolds, for any number of callers and keys: a key is never admitted more
\* than its burst and what its rate yields, over the time that passed and the
\* time by which readings were overtaken; forgetting full buckets is harmless.
THEOREM BucketsHoldRate == RlSpec => []RateHolds
<1>1. RateInv => RateHolds
  <2> SUFFICES ASSUME RateInv, NEW k \in Keys
               PROVE  UNIT * charged[k] <= Burst + PER_TICK * (instant + overtaken[k])
    BY DEF RateHolds
  <2>1. /\ buckets[k] \in Buckets \cup {Missing} /\ charged[k] \in Nat /\ mark[k] \in Nat
        /\ overtaken[k] \in Nat /\ KeyFits(k) /\ instant \in Nat
    BY DEF RateInv, RlTypes
  <2>2. TokensOf(buckets[k]) \in Nat
    BY <2>1, RlConstants DEF TokensOf, Buckets
  <2>3. TokensOf(buckets[k]) + UNIT * charged[k] <= Burst + PER_TICK * (mark[k] + overtaken[k])
    BY <2>1 DEF KeyFits
  <2>4. /\ mark[k] + overtaken[k] \in Nat /\ instant + overtaken[k] \in Nat
        /\ mark[k] + overtaken[k] <= instant + overtaken[k]
    BY <2>1 DEF KeyFits
  <2>5. /\ PER_TICK * (mark[k] + overtaken[k]) \in Nat /\ PER_TICK * (instant + overtaken[k]) \in Nat
        /\ PER_TICK * (mark[k] + overtaken[k]) <= PER_TICK * (instant + overtaken[k])
    BY <2>4, RateGrows
  <2>6. UNIT * charged[k] \in Nat /\ Burst \in Nat
    BY <2>1, RlConstants
  <2> QED
    BY <2>2, <2>3, <2>5, <2>6
<1> QED
  BY <1>1, RateCorrect, PTL

(***************************************************************************)
(* The address that counts.                                                *)
(***************************************************************************)

\* Whoever a request of n hops came through, a last hop that is nobody's
\* proxy is its client: there is one walk over the hops, and it stops there.
LEMMA NearestHop ==
  ASSUME NEW peer, NEW xff, NEW n \in Nat, n > 0, Len(xff) = n, NEW real_ip, NEW proxies, NEW none,
         xff[n] # none, ~\E p \in proxies : Contains(p, xff[n]),
         \E p \in proxies : Contains(p, peer)
  PROVE  ResolveSourceIp(peer, xff, real_ip, proxies, none) = xff[n]
<1>1. /\ n \in 0..n /\ n - 1 \in 0..n /\ n - 1 # n /\ (n - 1) + 1 = n
      /\ \A k \in 0..n : k # n => k + 1 \in 0..n
      /\ \A j \in 0..(n - 1) : j < n - 1 =>
           n - 1 - (j + 1) \in 0..n /\ n - 1 - (j + 1) # n /\ (n - 1 - (j + 1)) + 1 = n - 1 - j
      /\ n - 1 - 0 = n - 1 /\ n - 1 \in 0..(n - 1) /\ 0 \in 0..(n - 1)
      /\ n - 1 - (n - 1) = 0 /\ n - 1 \in Nat
      /\ \A k \in 0..n : k # n /\ k + 1 # n => k # n - 1
  OBVIOUS
<1> DEFINE T(ip) == \E p \in proxies : Contains(p, ip)
           Next1(w, k) == IF k = n THEN [ip |-> peer, on |-> TRUE]
                          ELSE IF ~w[k + 1].on \/ xff[k + 1] = none THEN [w[k + 1] EXCEPT !.on = FALSE]
                          ELSE [ip |-> xff[k + 1], on |-> T(xff[k + 1])]
           Walk(w) == w = [k \in 0..n |-> Next1(w, k)]
<1>2. T(xff[n]) = FALSE /\ T(peer) = TRUE
  OBVIOUS
<1>3. xff # << >>
  <2>1. Len(<< >>) = 0
    OBVIOUS
  <2> QED
    BY <2>1
<1>4. ResolveSourceIp(peer, xff, real_ip, proxies, none) = (CHOOSE w : Walk(w))[0].ip
  <2>1. ResolveSourceIp(peer, xff, real_ip, proxies, none) =
          IF ~T(peer) THEN peer
          ELSE IF xff # << >> THEN
            (CHOOSE w : w = [k \in 0..Len(xff) |->
               IF k = Len(xff) THEN [ip |-> peer, on |-> TRUE]
               ELSE IF ~w[k + 1].on \/ xff[k + 1] = none THEN [w[k + 1] EXCEPT !.on = FALSE]
               ELSE [ip |-> xff[k + 1], on |-> T(xff[k + 1])]])[0].ip
          ELSE IF real_ip # none THEN real_ip ELSE peer
    BY DEF ResolveSourceIp
  <2>2. ResolveSourceIp(peer, xff, real_ip, proxies, none) =
          IF ~T(peer) THEN peer
          ELSE IF xff # << >> THEN (CHOOSE w : Walk(w))[0].ip
          ELSE IF real_ip # none THEN real_ip ELSE peer
    BY <2>1
  <2> QED
    BY <1>2, <1>3, <2>2
<1> HIDE DEF T
<1>5. PICK R0, R1 : R0 = [ip |-> peer, on |-> TRUE] /\ R1 = [ip |-> xff[n], on |-> FALSE]
  OBVIOUS
<1>6. R0.on = TRUE /\ R1.on = FALSE /\ R1.ip = xff[n] /\ [R1 EXCEPT !.on = FALSE] = R1
  <2>1. R0.on = TRUE
    BY <1>5
  <2>2. R1.on = FALSE /\ R1.ip = xff[n]
    BY <1>5
  <2>3. ASSUME NEW off PROVE [[ip |-> xff[n], on |-> off] EXCEPT !.on = off] = [ip |-> xff[n], on |-> off]
    OBVIOUS
  <2>4. [R1 EXCEPT !.on = FALSE] = R1
    BY <1>5, <2>3, Zenon
  <2> QED
    BY <2>1, <2>2, <2>4
<1>7. \E w : Walk(w)
  <2>1. PICK w : w = [k \in 0..n |-> IF k = n THEN R0 ELSE R1]
    OBVIOUS
  <2>2. ASSUME NEW k \in 0..n PROVE w[k] = Next1(w, k)
    <3>1. CASE k = n
      BY <2>1, <3>1, <1>5
    <3>2. CASE k # n /\ k + 1 = n
      <4>1. w[k] = R1 /\ w[k + 1] = R0 /\ w[k + 1].on
        BY <2>1, <3>2, <1>1, <1>6
      <4>2. Next1(w, k) = [ip |-> xff[n], on |-> T(xff[n])]
        BY <3>2, <4>1
      <4> QED
        BY <4>1, <4>2, <1>2, <1>5
    <3>3. CASE k # n /\ k + 1 # n
      <4>1. w[k] = R1 /\ w[k + 1] = R1 /\ ~w[k + 1].on
        BY <2>1, <3>3, <1>1, <1>6
      <4>2. Next1(w, k) = [w[k + 1] EXCEPT !.on = FALSE]
        BY <3>3, <4>1
      <4> QED
        BY <4>1, <4>2, <1>6
    <3> QED
      BY <3>1, <3>2, <3>3
  <2>3. w = [k \in 0..n |-> w[k]]
    BY <2>1
  <2>4. Walk(w)
    BY <2>2, <2>3
  <2> QED
    BY <2>4
<1>8. PICK w : Walk(w) /\ w = CHOOSE x : Walk(x)
  <2> HIDE DEF Walk
  <2> QED
    BY <1>7
<1>9. \A k \in 0..n : w[k] = Next1(w, k)
  BY <1>8
<1> DEFINE S == {j \in 0..(n - 1) : w[n - 1 - j] = R1}
<1>10. 0 \in S
  <2>1. w[n] = R0 /\ w[n].on
    <3>1. w[n] = Next1(w, n)
      BY <1>9, <1>1
    <3>2. w[n] = R0
      BY <3>1, <1>5
    <3> QED
      BY <3>2, <1>6
  <2>2. w[n - 1] = Next1(w, n - 1)
    BY <1>9, <1>1
  <2>3. Next1(w, n - 1) = [ip |-> xff[n], on |-> T(xff[n])]
    BY <2>1, <1>1
  <2>4. w[n - 1] = R1
    BY <2>2, <2>3, <1>2, <1>5
  <2> QED
    BY <2>4, <1>1
<1>11. ASSUME NEW j \in 0..(n - 1), j \in S, j < n - 1 PROVE j + 1 \in S
  <2>1. PICK k : k = n - 1 - (j + 1)
    OBVIOUS
  <2>2. k \in 0..n /\ k # n /\ k + 1 = n - 1 - j /\ j + 1 \in 0..(n - 1)
    BY <1>1, <1>11, <2>1
  <2>3. w[k + 1] = R1 /\ ~w[k + 1].on
    BY <1>11, <2>2, <1>6
  <2>4. w[k] = [w[k + 1] EXCEPT !.on = FALSE]
    BY <1>9, <2>2, <2>3
  <2>5. w[k] = R1
    BY <2>3, <2>4, <1>6
  <2> QED
    BY <2>1, <2>2, <2>5
<1>12. w[0] = R1
  <2> HIDE DEF S
  <2>1. \A j \in 0..(n - 1) : j \in S
    BY <1>1, <1>10, <1>11, UpTo
  <2>2. n - 1 \in S
    BY <1>1, <2>1
  <2> QED
    BY <1>1, <2>2 DEF S
<1> QED
  BY <1>4, <1>8, <1>12, <1>6

\* A request of a client is charged to the client, whichever way it comes and
\* whatever its headers say.
LEMMA ChargesItsOwn ==
  ASSUME NEW a \in Clients, NEW proxied \in BOOLEAN, NEW edge \in BOOLEAN,
         NEW hops \in Seq(ForgedHops), NEW real_ip
  PROVE  ChargedKey(a, proxied, edge, hops, real_ip) = TransportKey(a)
<1>1. /\ a # Missing /\ ~\E p \in Proxies : Contains(p, a)
      /\ \E p \in Proxies : Contains(p, ProxyAddress)
  BY RateLimitAssumption
<1>2. CASE ~proxied
  <2>1. PICK xff : xff = IF edge THEN ClientIp(a, hops, real_ip) ELSE hops
    OBVIOUS
  <2>2. ChargedKey(a, proxied, edge, hops, real_ip) = SourceKey(a, xff, real_ip)
    BY <1>2, <2>1 DEF ChargedKey
  <2>3. ResolveSourceIp(a, xff, real_ip, Proxies, Missing) = a
    BY <1>1 DEF ResolveSourceIp
  <2> QED
    BY <2>2, <2>3 DEF SourceKey
<1>3. CASE proxied /\ ~edge
  <2>1. PICK xff : xff = Append(hops, a)
    OBVIOUS
  <2>2. ChargedKey(a, proxied, edge, hops, real_ip) = SourceKey(ProxyAddress, xff, real_ip)
    <3>1. Append(hops, a) \o << >> = Append(hops, a)
      <4>1. hops \in Seq(ForgedHops \cup {a}) /\ a \in ForgedHops \cup {a}
        OBVIOUS
      <4>2. Append(hops, a) \in Seq(ForgedHops \cup {a})
        BY <4>1
      <4> QED
        BY <4>2
    <3> QED
      BY <1>3, <2>1, <3>1 DEF ChargedKey
  <2>3. PICK n \in Nat : n = Len(hops) + 1
    OBVIOUS
  <2>4. n > 0 /\ Len(xff) = n /\ xff[n] = a
    <3>1. hops \in Seq(ForgedHops \cup {a}) /\ a \in ForgedHops \cup {a}
      OBVIOUS
    <3> QED
      BY <2>1, <2>3, <3>1
  <2>5. ResolveSourceIp(ProxyAddress, xff, real_ip, Proxies, Missing) = xff[n]
    <3>1. xff[n] # Missing /\ ~\E p \in Proxies : Contains(p, xff[n])
      BY <1>1, <2>4
    <3> QED
      BY <1>1, <2>4, <3>1, NearestHop
  <2> QED
    BY <2>2, <2>4, <2>5 DEF SourceKey
<1>4. CASE proxied /\ edge
  <2>1. PICK xff : xff = <<a>>
    OBVIOUS
  <2>2. ChargedKey(a, proxied, edge, hops, real_ip) = SourceKey(ProxyAddress, xff, real_ip)
    BY <1>1, <1>4, <2>1 DEF ChargedKey, ClientIp
  <2>3. Len(xff) = 1 /\ xff[1] = a
    BY <2>1
  <2>4. ResolveSourceIp(ProxyAddress, xff, real_ip, Proxies, Missing) = xff[1]
    <3>1. PICK n \in Nat : n = 1
      OBVIOUS
    <3>2. n > 0 /\ Len(xff) = n /\ xff[n] = a
      BY <2>3, <3>1
    <3>3. xff[n] # Missing /\ ~\E p \in Proxies : Contains(p, xff[n])
      BY <1>1, <3>2
    <3>4. ResolveSourceIp(ProxyAddress, xff, real_ip, Proxies, Missing) = xff[n]
      BY <1>1, <3>2, <3>3, NearestHop
    <3> QED
      BY <3>1, <3>4
  <2> QED
    BY <2>2, <2>3, <2>4 DEF SourceKey
<1> QED
  BY <1>2, <1>3, <1>4

(***************************************************************************)
(* The sliding window.                                                     *)
(***************************************************************************)

\* The events of one instant are numbered.
Numbered(i, n) == {<<i, j>> : j \in 0..(n - 1)}
At(S, i) == {t \in S : t[1] = i}

\* What a client got through, its source has counted: at this instant perhaps
\* more, for clients of one network share their source, and never fewer.
WindowFits(a) ==
  LET k == TransportKey(a)
  IN  /\ IsFiniteSet(events[k])
      /\ \A t \in events[k] \cup passed[a] : t[1] \in 0..instant
      /\ \E n \in Nat : /\ At(events[k], instant) = Numbered(instant, n)
                        /\ \E m \in 0..n : At(passed[a], instant) = Numbered(instant, m)
      /\ \A t \in passed[a] : instant - t[1] < WINDOW => t \in events[k]
      /\ Count(k) <= PER_SOURCE

WindowTypes ==
  /\ instant \in Nat
  /\ events = [k \in DOMAIN events |-> events[k]]
  /\ {TransportKey(a) : a \in Clients} \subseteq DOMAIN events
  /\ passed = [a \in Clients |-> passed[a]]

WindowInv == WindowTypes /\ \A a \in Clients : WindowFits(a)

\* Numbers up to the next one.
LEMMA NumberedGrows ==
  ASSUME NEW i, NEW n \in Nat
  PROVE  Numbered(i, n + 1) = Numbered(i, n) \cup {<<i, n>>} /\ <<i, n>> \notin Numbered(i, n)
<1>1. 0..((n + 1) - 1) = 0..(n - 1) \cup {n} /\ n \notin 0..(n - 1)
  OBVIOUS
<1>2. <<i, n>> \notin Numbered(i, n)
  <2>1. ASSUME NEW j \in 0..(n - 1), <<i, n>> = <<i, j>> PROVE FALSE
    BY <1>1, <2>1
  <2> QED
    BY <2>1 DEF Numbered
<1>3. ASSUME NEW t PROVE t \in Numbered(i, n + 1) <=> t \in Numbered(i, n) \cup {<<i, n>>}
  BY <1>1 DEF Numbered
<1> QED
  BY <1>2, <1>3

\* They are as many as the number says.
LEMMA NumberedCount ==
  ASSUME NEW i, NEW n \in Nat
  PROVE  IsFiniteSet(Numbered(i, n)) /\ Cardinality(Numbered(i, n)) = n
<1> DEFINE S == {k \in 0..n : IsFiniteSet(Numbered(i, k)) /\ Cardinality(Numbered(i, k)) = k}
<1>1. 0 \in S
  <2>1. Numbered(i, 0) = {}
    <3>1. 0..(0 - 1) = {}
      OBVIOUS
    <3> QED
      BY <3>1 DEF Numbered
  <2> QED
    BY <2>1, FS_EmptySet
<1>2. ASSUME NEW k \in 0..n, k \in S, k < n PROVE k + 1 \in S
  <2>1. k \in Nat /\ k + 1 \in 0..n
    BY <1>2
  <2>2. /\ Numbered(i, k + 1) = Numbered(i, k) \cup {<<i, k>>} /\ <<i, k>> \notin Numbered(i, k)
    BY <2>1, NumberedGrows
  <2>3. IsFiniteSet(Numbered(i, k)) /\ Cardinality(Numbered(i, k)) = k
    BY <1>2
  <2>4. IsFiniteSet(Numbered(i, k + 1)) /\ Cardinality(Numbered(i, k + 1)) = k + 1
    BY <2>2, <2>3, FS_AddElement
  <2> QED
    BY <2>1, <2>4
<1>3. n \in S
  <2> HIDE DEF S
  <2>1. \A k \in 0..n : k \in S
    BY <1>1, <1>2, UpTo
  <2> QED
    BY <2>1
<1> QED
  BY <1>3

\* At the start nothing is counted.
LEMMA WindowInitially == RlInit => WindowInv
<1> SUFFICES ASSUME RlInit PROVE WindowInv
  OBVIOUS
<1>1. /\ instant = 0 /\ passed = [a \in Clients |-> {}]
      /\ events = [k \in {TransportKey(a) : a \in Clients \cup {ProxyAddress} \cup (ForgedHops \ {Missing})}
                          \cup ClaimedAids |-> {}]
  BY DEF RlInit
<1>2. WindowTypes
  BY <1>1 DEF WindowTypes
<1>3. ASSUME NEW a \in Clients PROVE WindowFits(a)
  <2>1. PICK k : k = TransportKey(a)
    OBVIOUS
  <2>2. events[k] = {} /\ passed[a] = {}
    BY <1>1, <2>1
  <2>3. At(events[k], instant) = {} /\ At(passed[a], instant) = {}
    BY <2>2 DEF At
  <2>4. Numbered(instant, 0) = {}
    <3>1. 0..(0 - 1) = {}
      OBVIOUS
    <3> QED
      BY <3>1 DEF Numbered
  <2>5. IsFiniteSet(events[k]) /\ Count(k) = 0
    <3>1. Retained(k) = {}
      BY <2>2 DEF Retained
    <3> QED
      BY <2>2, <3>1, FS_EmptySet DEF Count
  <2>6. PER_SOURCE \in Nat /\ 0 \in Nat /\ 0 \in 0..0
    BY RateLimitAssumption
  <2>7. Count(k) <= PER_SOURCE
    BY <2>5, <2>6
  <2>8. \E n \in Nat : /\ At(events[k], instant) = Numbered(instant, n)
                       /\ \E m \in 0..n : At(passed[a], instant) = Numbered(instant, m)
    BY <2>3, <2>4, <2>6
  <2> QED
    BY <2>1, <2>2, <2>5, <2>7, <2>8 DEF WindowFits
<1> QED
  BY <1>2, <1>3 DEF WindowInv

\* As time passes nothing is added, and at a new instant nothing has happened.
LEMMA TickKeeps == ASSUME WindowInv, RlTick PROVE WindowInv'
<1>1. /\ WindowTypes /\ instant \in Nat /\ instant' = instant + 1
      /\ events' = events /\ passed' = passed
  BY DEF WindowInv, WindowTypes, RlTick, windowVars
<1>2. WindowTypes'
  BY <1>1 DEF WindowTypes
<1>3. ASSUME NEW a \in Clients PROVE WindowFits(a)'
  <2>1. PICK k : k = TransportKey(a)
    OBVIOUS
  <2>2. /\ IsFiniteSet(events[k])
        /\ \A t \in events[k] \cup passed[a] : t[1] \in 0..instant
        /\ \A t \in passed[a] : instant - t[1] < WINDOW => t \in events[k]
        /\ Count(k) <= PER_SOURCE
    BY <2>1 DEF WindowInv, WindowFits
  <2>3. At(events[k], instant') = {} /\ At(passed[a], instant') = {}
    <3>1. \A t \in events[k] \cup passed[a] : t[1] # instant'
      BY <1>1, <2>2
    <3> QED
      BY <3>1 DEF At
  <2>4. Numbered(instant', 0) = {}
    <3>1. 0..(0 - 1) = {}
      OBVIOUS
    <3> QED
      BY <3>1 DEF Numbered
  <2>5. \A t \in events[k] \cup passed[a] : t[1] \in 0..instant' /\
          (instant' - t[1] < WINDOW => instant - t[1] < WINDOW)
    <3>1. WINDOW \in Nat
      BY RateLimitAssumption
    <3> QED
      BY <1>1, <2>2, <3>1
  <2>6. Count(k)' <= PER_SOURCE
    <3>1. PICK R, Q : R = Retained(k) /\ Q = Retained(k)'
      OBVIOUS
    <3>2. R = {t \in events[k] : instant - t[1] < WINDOW} /\ Q = {t \in events[k] : instant' - t[1] < WINDOW}
      BY <1>1, <3>1 DEF Retained
    <3>3. Q \in SUBSET R /\ R \in SUBSET events[k]
      BY <2>5, <3>2
    <3>4. IsFiniteSet(R)
      BY <2>2, <3>3, FS_Subset
    <3>5. IsFiniteSet(Q) /\ Cardinality(Q) <= Cardinality(R)
      BY <3>3, <3>4, FS_Subset
    <3>6. Cardinality(Q) \in Nat /\ Cardinality(R) \in Nat /\ PER_SOURCE \in Nat
      BY <3>4, <3>5, FS_CardinalityType, RateLimitAssumption
    <3>7. Count(k) = Cardinality(R) /\ Count(k)' = Cardinality(Q)
      BY <3>1 DEF Count
    <3> QED
      BY <2>2, <3>5, <3>6, <3>7
  <2>7. \E n \in Nat : /\ At(events[k], instant') = Numbered(instant', n)
                       /\ \E m \in 0..n : At(passed[a], instant') = Numbered(instant', m)
    <3>1. 0 \in Nat /\ 0 \in 0..0
      OBVIOUS
    <3> QED
      BY <2>3, <2>4, <3>1
  <2> QED
    BY <1>1, <2>1, <2>2, <2>5, <2>6, <2>7 DEF WindowFits
<1> QED
  BY <1>2, <1>3 DEF WindowInv

\* What a request of a client does to the counts: those of other sources stay,
\* for a claimed AID is nobody's address.
LEMMA CountsChange ==
  ASSUME WindowTypes, NEW b \in Clients, NEW aid \in ClaimedAids \cup {Missing},
         RateLimitCheck(TransportKey(b), aid)
  PROVE  /\ DOMAIN events' = DOMAIN events /\ events' = [k \in DOMAIN events' |-> events'[k]]
         /\ \A a \in Clients :
              LET k == TransportKey(a) IN
              events'[k] = IF k # TransportKey(b) THEN events[k]
                           ELSE IF Allowed(k, aid) THEN Retained(k) \cup {NewEvent(k)}
                           ELSE Retained(k)
<1>1. PICK key : key = TransportKey(b)
  OBVIOUS
<1>2. events = [k \in DOMAIN events |-> events[k]] /\ {TransportKey(a) : a \in Clients} \subseteq DOMAIN events
  BY DEF WindowTypes
<1>3. \A a \in Clients : TransportKey(a) # aid /\ TransportKey(a) \in DOMAIN events
  BY <1>2, RateLimitAssumption
<1>4. key # aid /\ key \in DOMAIN events
  BY <1>1, <1>3
<1>5. CASE Allowed(key, aid)
  <2>1. events' = [k \in DOMAIN events |->
                     IF k \in {key, aid} THEN Retained(k) \cup {NewEvent(k)} ELSE events[k]]
    BY <1>1, <1>5 DEF Allowed, RateLimitCheck
  <2> QED
    BY <1>1, <1>3, <1>5, <2>1
<1>6. CASE ~Allowed(key, aid)
  <2>1. \/ events' = [events EXCEPT ![key] = Retained(key)]
        \/ events' = [events EXCEPT ![key] = Retained(key), ![aid] = Retained(aid)]
    BY <1>1, <1>6 DEF Allowed, RateLimitCheck
  <2>2. DOMAIN events' = DOMAIN events /\ events' = [k \in DOMAIN events' |-> events'[k]]
    BY <1>2, <2>1
  <2>3. ASSUME NEW k \in DOMAIN events, k # aid
        PROVE  events'[k] = IF k # key THEN events[k] ELSE Retained(k)
    BY <1>2, <1>4, <2>1, <2>3
  <2> QED
    BY <1>1, <1>3, <1>6, <2>2, <2>3
<1> QED
  BY <1>5, <1>6

\* A request of a client keeps what every client's counts say.
LEMMA RequestKeeps ==
  ASSUME WindowInv, NEW b \in Clients, NEW proxied \in BOOLEAN, NEW edge \in BOOLEAN,
         NEW hops \in Seq(ForgedHops), NEW real_ip, NEW aid \in ClaimedAids \cup {Missing},
         Arrives(b, proxied, edge, hops, real_ip, aid)
  PROVE  WindowInv'
<1>1. PICK key, i : key = TransportKey(b) /\ i = instant
  OBVIOUS
<1>2. /\ RateLimitCheck(key, aid) /\ instant' = instant
      /\ passed' = [passed EXCEPT ![b] =
           {t \in passed[b] : instant - t[1] < WINDOW} \cup
           (IF Allowed(key, aid) THEN {<<instant, Cardinality({t \in passed[b] : t[1] = instant})>>} ELSE {})]
  <2>1. ChargedKey(b, proxied, edge, hops, real_ip) = key
    BY <1>1, ChargesItsOwn
  <2> QED
    BY <2>1 DEF Arrives
<1>3. /\ WindowTypes /\ i \in Nat /\ i' = i
      /\ passed = [a \in Clients |-> passed[a]]
  BY <1>1, <1>2 DEF WindowInv, WindowTypes
<1>4. /\ DOMAIN events' = DOMAIN events /\ events' = [k \in DOMAIN events' |-> events'[k]]
      /\ \A a \in Clients :
           LET k == TransportKey(a) IN
           events'[k] = IF k # key THEN events[k]
                        ELSE IF Allowed(key, aid) THEN Retained(k) \cup {NewEvent(k)}
                        ELSE Retained(k)
  BY <1>1, <1>2, <1>3, CountsChange
<1>5. WindowTypes'
  BY <1>2, <1>3, <1>4 DEF WindowTypes
<1>6. ASSUME NEW a \in Clients PROVE WindowFits(a)'
  <2>1. PICK k, E, P, R, Q : /\ k = TransportKey(a) /\ E = events[k] /\ P = passed[a]
                             /\ R = {t \in E : i - t[1] < WINDOW} /\ Q = {t \in P : i - t[1] < WINDOW}
    OBVIOUS
  <2>2. /\ IsFiniteSet(E)
        /\ \A t \in E \cup P : t[1] \in 0..i
        /\ \E n \in Nat : At(E, i) = Numbered(i, n) /\ \E m \in 0..n : At(P, i) = Numbered(i, m)
        /\ \A t \in P : i - t[1] < WINDOW => t \in E
        /\ Cardinality(R) <= PER_SOURCE
        /\ Retained(k) = R
    BY <1>1, <2>1 DEF WindowInv, WindowFits, Count, Retained
  <2>3. PICK n \in Nat : At(E, i) = Numbered(i, n) /\ \E m \in 0..n : At(P, i) = Numbered(i, m)
    BY <2>2
  <2>4. PICK m \in 0..n : At(P, i) = Numbered(i, m)
    BY <2>3
  <2>5. m \in Nat /\ m <= n /\ WINDOW \in Nat /\ WINDOW > 0 /\ PER_SOURCE \in Nat
    BY <2>4, RateLimitAssumption
  <2>6. IsFiniteSet(R) /\ R \subseteq E
    <3>1. R \in SUBSET E
      BY <2>1
    <3> QED
      BY <2>2, <3>1, FS_Subset
  <2>7. PICK x, y : x = <<i, n>> /\ y = <<i, m>>
    OBVIOUS
  <2>8. x[1] = i /\ y[1] = i
    BY <2>7
  <2>9. /\ {t \in events[k] : t[1] = instant} = Numbered(i, n)
        /\ {t \in passed[a] : t[1] = instant} = Numbered(i, m)
    BY <1>1, <2>1, <2>3, <2>4 DEF At
  <2>10. NewEvent(k) = x
    BY <1>1, <2>7, <2>9, NumberedCount DEF NewEvent
  <2>11. Cardinality({t \in passed[a] : t[1] = instant}) = m
    BY <2>5, <2>9, NumberedCount
  <2>12. At(R, i) = Numbered(i, n) /\ At(Q, i) = Numbered(i, m)
    <3>1. At(R, i) = At(E, i) /\ At(Q, i) = At(P, i)
      <4>1. i - i < WINDOW
        BY <1>3, <2>5
      <4> QED
        BY <2>1, <4>1 DEF At
    <3> QED
      BY <2>3, <2>4, <3>1
  <2>13. At(R \cup {x}, i) = Numbered(i, n + 1) /\ At(Q \cup {y}, i) = Numbered(i, m + 1)
    <3>1. At(R \cup {x}, i) = At(R, i) \cup {x} /\ At(Q \cup {y}, i) = At(Q, i) \cup {y}
      BY <2>8 DEF At
    <3> QED
      BY <2>5, <2>7, <2>12, <3>1, NumberedGrows
  <2>14. y \in Numbered(i, n + 1) /\ y \in R \cup {x}
    <3>1. m \in 0..((n + 1) - 1)
      BY <2>5
    <3>2. y \in Numbered(i, n + 1)
      BY <2>7, <3>1 DEF Numbered
    <3> QED
      BY <2>13, <3>2 DEF At
  <2>15. \A t \in R \cup {x} \cup Q \cup {y} : t[1] \in 0..i
    BY <1>3, <2>1, <2>2, <2>8
  <2>16. {t \in R : i - t[1] < WINDOW} = R /\ {t \in R \cup {x} : i - t[1] < WINDOW} = R \cup {x}
    <3>1. i - x[1] < WINDOW
      BY <1>3, <2>5, <2>8
    <3> QED
      BY <2>1, <3>1
  <2>17. Cardinality(R) \in Nat
    BY <2>6, FS_CardinalityType
  \* What is to be shown, of the sets there are afterwards.
  <2> DEFINE Fits(F, O) ==
        /\ IsFiniteSet(F)
        /\ \A t \in F \cup O : t[1] \in 0..i
        /\ \E c \in Nat : At(F, i) = Numbered(i, c) /\ \E d \in 0..c : At(O, i) = Numbered(i, d)
        /\ \A t \in O : i - t[1] < WINDOW => t \in F
        /\ Cardinality({t \in F : i - t[1] < WINDOW}) <= PER_SOURCE
  <2>18. Fits(E, P)
    BY <2>1, <2>2
  <2>19. Fits(R, P) /\ Fits(R, Q)
    <3>1. \A t \in P : i - t[1] < WINDOW => t \in R
      BY <2>1, <2>2
    <3>2. Q \subseteq P /\ R \subseteq E
      BY <2>1
    <3>3. \E c \in Nat : At(R, i) = Numbered(i, c) /\ \E d \in 0..c : At(P, i) = Numbered(i, d)
      BY <2>4, <2>12
    <3>4. \E c \in Nat : At(R, i) = Numbered(i, c) /\ \E d \in 0..c : At(Q, i) = Numbered(i, d)
      BY <2>4, <2>12
    <3> QED
      BY <2>2, <2>6, <2>16, <3>1, <3>2, <3>3, <3>4
  <2>20. ASSUME ~(Cardinality(R) >= PER_SOURCE) PROVE Fits(R \cup {x}, P) /\ Fits(R \cup {x}, Q \cup {y})
    <3>1. IsFiniteSet(R \cup {x}) /\ Cardinality(R \cup {x}) <= PER_SOURCE
      <4>1. /\ IsFiniteSet(R \cup {x})
            /\ Cardinality(R \cup {x}) = IF x \in R THEN Cardinality(R) ELSE Cardinality(R) + 1
        BY <2>6, FS_AddElement
      <4> QED
        BY <2>5, <2>17, <2>20, <4>1
    <3>2. \A t \in P : i - t[1] < WINDOW => t \in R \cup {x}
      BY <2>1, <2>2
    <3>3. \A t \in Q \cup {y} : t \in R \cup {x}
      BY <2>1, <2>2, <2>14
    <3>4. n + 1 \in Nat /\ m \in 0..(n + 1) /\ m + 1 \in 0..(n + 1)
      BY <2>5
    <3>5. \E c \in Nat : At(R \cup {x}, i) = Numbered(i, c) /\ \E d \in 0..c : At(P, i) = Numbered(i, d)
      BY <2>4, <2>13, <3>4
    <3>6. \E c \in Nat : /\ At(R \cup {x}, i) = Numbered(i, c)
                         /\ \E d \in 0..c : At(Q \cup {y}, i) = Numbered(i, d)
      BY <2>13, <3>4
    <3>7. \A t \in P : t[1] \in 0..i
      BY <2>2
    <3> QED
      BY <2>15, <2>16, <3>1, <3>2, <3>3, <3>5, <3>6, <3>7
  <2>21. Fits(events'[k], passed'[a])
    <3> HIDE DEF Fits
    <3>1. events'[k] = IF k # key THEN E ELSE IF Allowed(key, aid) THEN R \cup {x} ELSE R
      BY <1>4, <2>1, <2>2, <2>10
    <3>2. passed'[a] = IF a # b THEN P ELSE IF Allowed(key, aid) THEN Q \cup {y} ELSE Q
      <4>1. CASE a # b
        BY <1>2, <1>3, <2>1, <4>1
      <4>2. CASE a = b
        <5>1. passed'[a] = {t \in passed[b] : instant - t[1] < WINDOW} \cup
                 (IF Allowed(key, aid) THEN {<<instant, Cardinality({t \in passed[b] : t[1] = instant})>>} ELSE {})
          BY <1>2, <1>3, <4>2
        <5>2. {t \in passed[b] : instant - t[1] < WINDOW} = Q
          BY <1>1, <2>1, <4>2
        <5>3. <<instant, Cardinality({t \in passed[b] : t[1] = instant})>> = y
          BY <1>1, <2>7, <2>11, <4>2
        <5> QED
          BY <4>2, <5>1, <5>2, <5>3
      <4> QED
        BY <4>1, <4>2
    <3>3. a = b => k = key
      BY <1>1, <2>1
    <3>4. k = key /\ Allowed(key, aid) => ~(Cardinality(R) >= PER_SOURCE)
      BY <2>2 DEF Allowed, Count
    <3> QED
      BY <2>18, <2>19, <2>20, <3>1, <3>2, <3>3, <3>4
  <2>22. Count(k)' = Cardinality({t \in events'[k] : i - t[1] < WINDOW})
    BY <1>1, <1>2 DEF Count, Retained
  <2>23. instant' = i
    BY <1>1, <1>2
  <2> QED
    BY <2>1, <2>21, <2>22, <2>23 DEF WindowFits
<1> QED
  BY <1>5, <1>6 DEF WindowInv

\* Requests and time are all that touches the windows.
LEMMA WindowStep == ASSUME WindowInv, [BucketNext \/ WindowNext]_rlVars PROVE WindowInv'
<1>1. ASSUME UNCHANGED <<instant, windowVars>> PROVE WindowInv'
  <2>1. instant' = instant /\ events' = events /\ passed' = passed
    BY <1>1 DEF windowVars
  <2> QED
    BY <2>1 DEF WindowInv, WindowTypes, WindowFits, Count, Retained
<1>2. CASE UNCHANGED rlVars
  BY <1>1, <1>2 DEF rlVars, windowVars
<1>3. CASE RlTick
  BY <1>3, TickKeeps
<1>4. ASSUME NEW c \in Chargers, NEW key \in TransportKeys, NEW label \in Labels \cup {Missing},
             ReadInstant(c, key, label)
      PROVE  WindowInv'
  BY <1>1, <1>4 DEF ReadInstant
<1>5. ASSUME NEW c \in Chargers, CheckTransport(c) PROVE WindowInv'
  BY <1>1, <1>5 DEF CheckTransport
<1>6. ASSUME NEW c \in Chargers, CheckLabel(c) PROVE WindowInv'
  BY <1>1, <1>6 DEF CheckLabel
<1>7. ASSUME NEW a \in Clients, NEW proxied \in BOOLEAN, NEW edge \in BOOLEAN, NEW hop \in ForgedHops,
             NEW some \in BOOLEAN, NEW real_ip \in ForgedHops, NEW aid \in ClaimedAids \cup {Missing},
             Arrives(a, proxied, edge, IF some THEN <<hop>> ELSE << >>, real_ip, aid)
      PROVE  WindowInv'
  <2>1. PICK hops : hops = IF some THEN <<hop>> ELSE << >>
    OBVIOUS
  <2>2. hops \in Seq(ForgedHops)
    BY <2>1
  <2> QED
    BY <1>7, <2>1, <2>2, RequestKeeps
<1>8. CASE BucketNext
  BY <1>3, <1>4, <1>5, <1>6, <1>8 DEF BucketNext
<1>9. CASE WindowNext
  BY <1>3, <1>7, <1>9 DEF WindowNext
<1> QED
  BY <1>2, <1>8, <1>9

\* What a client got through in the window its source has counted, and that is
\* bounded.
LEMMA WindowBounds == ASSUME WindowInv PROVE ClientBounded
<1>1. ASSUME NEW a \in Clients
      PROVE  Cardinality({t \in passed[a] : instant - t[1] < WINDOW}) <= PER_SOURCE
  <2>1. PICK k, R, Q : /\ k = TransportKey(a) /\ R = Retained(k)
                       /\ Q = {t \in passed[a] : instant - t[1] < WINDOW}
    OBVIOUS
  <2>2. /\ IsFiniteSet(events[k]) /\ Cardinality(R) <= PER_SOURCE
        /\ \A t \in passed[a] : instant - t[1] < WINDOW => t \in events[k]
    BY <2>1 DEF WindowInv, WindowFits, Count
  <2>3. R \in SUBSET events[k] /\ Q \in SUBSET R
    BY <2>1, <2>2 DEF Retained
  <2>4. IsFiniteSet(R)
    BY <2>2, <2>3, FS_Subset
  <2>5. IsFiniteSet(Q) /\ Cardinality(Q) <= Cardinality(R)
    BY <2>3, <2>4, FS_Subset
  <2>6. Cardinality(Q) \in Nat /\ Cardinality(R) \in Nat /\ PER_SOURCE \in Nat
    BY <2>4, <2>5, FS_CardinalityType, RateLimitAssumption
  <2>7. Cardinality(Q) <= PER_SOURCE
    BY <2>2, <2>5, <2>6
  <2> QED
    BY <2>1, <2>7
<1> QED
  BY <1>1 DEF ClientBounded

\* The windows count what clients got through, however the requests of all the
\* clients, the calls of the token buckets and the ticks of the clock interleave.
THEOREM WindowCorrect == RlSpec => []WindowInv
<1>1. WindowInv /\ [BucketNext \/ WindowNext]_rlVars => WindowInv'
  BY WindowStep
<1> QED
  BY WindowInitially, <1>1, PTL DEF RlSpec

\* ClientBounded: in no window does a client get more requests through
\* (rate_limit_check) than a source may have, for any number of clients, any
\* trusted proxies and any X-Forwarded-For, and at any limit.
THEOREM ClientsAreBounded == RlSpec => []ClientBounded
<1>1. WindowInv => ClientBounded
  BY WindowBounds
<1> QED
  BY WindowCorrect, <1>1, PTL

(***************************************************************************)
(* Renewal: the inductive invariant.                                       *)
(***************************************************************************)

\* A token of the chain that starts with the first one.
TokenFits(t) ==
  /\ t.sub = Holder /\ t.jkt = Holder /\ t.grants \subseteq FirstGrants
  /\ t.iat \in Nat /\ t.exp \in Nat

\* The token that a renewal presents, and what it got: its own.
CallFits(n) ==
  /\ renewing[n].pc # "idle" => TokenFits(renewing[n].current)
  /\ renewing[n].got # None =>
       \E r \in renewals : r.nonce = n /\ r.src = renewing[n].current /\ r.tct = renewing[n].got

\* Nonce n is the one t was presented with.
PresentedWith(t, n) == n \in RenewalNonces /\ renewing[n].pc # "idle" /\ t = renewing[n].current

\* A request carries a signature over some nonce; once it is verified, over its
\* own, of a token that was not on the list, read in the manifest's lifetime.
HandlerFits(h) ==
  handler[h].pc # "idle" =>
    LET r == handler[h].req
    IN  /\ r.pop_nonce \in RenewalNonces
        /\ \E k \in RenewalNonces : PresentedWith(r.current_tct, k) /\ r.pop.over = RenewalPopInput(r.current_tct, k)
        /\ handler[h].listed => r.current_tct.jti \in list
        /\ handler[h].pc = "record" =>
             /\ PresentedWith(r.current_tct, r.pop_nonce) /\ ~handler[h].listed
             /\ handler[h].now \in Nat /\ handler[h].now <= rtime /\ handler[h].now <= MANIFEST_EXPIRES_AT

\* While the presented token lives, the store remembers the nonce.
RenewalFits(r) ==
  /\ PresentedWith(r.src, r.nonce)
  /\ seen[r.nonce] = r.src.exp \/ rtime > r.src.exp
  /\ TokenFits(r.tct) /\ r.tct.grants \subseteq r.src.grants /\ r.tct.exp <= MANIFEST_EXPIRES_AT
  /\ ~r.listed

RenewInv ==
  /\ rtime \in Nat /\ seen \in [RenewalNonces -> Nat \cup {None}]
  /\ DOMAIN handler = RenewHandlers /\ DOMAIN renewing = RenewalNonces
  /\ held # None => TokenFits(held.tct)
  /\ \A n \in RenewalNonces : CallFits(n)
  /\ \A h \in RenewHandlers : HandlerFits(h)
  /\ \A r \in renewals : RenewalFits(r)
  /\ NonceRenewsOnce

\* process_renewal_request: a request that passes is signed over its own nonce,
\* and its token is in date and not on the list.
LEMMA RequestHolds ==
  ASSUME NEW r, NEW now \in Nat, NEW readable \in BOOLEAN, RequestVerdict(r, now, readable) = "ok",
         r.current_tct.exp \in Nat
  PROVE  /\ r.pop.over = RenewalPopInput(r.current_tct, r.pop_nonce)
         /\ r.current_tct.jti \notin list
         /\ now <= r.current_tct.exp /\ r.current_tct.exp <= MANIFEST_EXPIRES_AT
<1>1. PICK t, ctx :
        /\ t = r.current_tct
        /\ ctx = [issuer |-> Issuer, for |-> t.aud, now |-> now, clock_skew |-> 0,
                  cap |-> MANIFEST_EXPIRES_AT, revocation |-> "fail_open"]
  OBVIOUS
<1>2. PICK v, w : v = VerifyTct(t, ctx, Answer("clear")).verdict
                  /\ w = ApplyRevocation("check", ListAnswer(t.jti, readable), t.grants).verdict
  OBVIOUS
<1> DEFINE a == Sub(v)
           b == <<t.aud = t.sub, "AudienceMismatch">>
           c == <<r.pop.by = t.sub /\ r.pop.over = RenewalPopInput(t, r.pop_nonce), "PopFailed">>
           d == Sub(w)
<1>3. Verdict(<<a, b, c, d>>) = "ok"
  BY <1>1, <1>2 DEF RequestVerdict
<1>4. Fine(b) /\ Fine(c)
  BY DEF Fine
<1>5. Fine(a) /\ Fine(d) /\ (a[1] => v = "ok") /\ (d[1] => w = "ok")
  BY SubFine
<1> HIDE DEF a, b, c, d
<1>6. v = "ok" /\ w = "ok" /\ r.pop.over = RenewalPopInput(t, r.pop_nonce)
  <2>1. a[1] /\ c[1] /\ d[1]
    BY <1>3, <1>4, <1>5, FourHold
  <2>2. r.pop.by = t.sub /\ r.pop.over = RenewalPopInput(t, r.pop_nonce)
    BY <2>1, ConditionOf DEF c
  <2> QED
    BY <1>5, <2>1, <2>2
<1>7. t.exp >= ctx.now - ctx.clock_skew /\ (ctx.cap = None \/ t.exp <= ctx.cap)
  BY <1>2, <1>6, TctInDate
<1>8. MANIFEST_EXPIRES_AT \in Nat /\ MANIFEST_EXPIRES_AT # None
  BY RenewalAssumption, TokenAssumption
<1>9. now <= t.exp /\ t.exp <= MANIFEST_EXPIRES_AT
  BY <1>1, <1>7, <1>8
<1>10. ListAnswer(t.jti, readable).kind # "unavailable" /\ ListAnswer(t.jti, readable).kind # "revoked"
  BY <1>2, <1>6, CheckedClear
<1>11. t.jti \notin list
  BY <1>10 DEF ListAnswer, Answer
<1> QED
  BY <1>1, <1>6, <1>9, <1>11

(***************************************************************************)
(* Renewal: tokens and replies.                                            *)
(***************************************************************************)

\* The first token belongs to the chain.
LEMMA FirstFits == TokenFits(FirstTct)
<1>1. PICK j : j = FirstJti
  OBVIOUS
<1>2. FirstTct = [typ |-> "tct", signer |-> Issuer, flaw |-> "none", jti |-> j, iss |-> Issuer,
                  sub |-> Holder, aud |-> Holder, iat |-> 0, exp |-> 0 + RENEWAL_TTL,
                  grants |-> FirstGrants, jkt |-> Holder, ext |-> FALSE]
  BY <1>1 DEF FirstTct, BuiltTct, Attesting
<1> QED
  BY <1>2, RenewalAssumption DEF TokenFits

\* What TctBuilder makes of a renewal.
LEMMA NewTokenFields ==
  ASSUME NEW sub, NEW aud, NEW gs, NEW ttl, NEW j, NEW now, NEW new, NEW b,
         b = [subject |-> sub, audience |-> aud, subject_pubkey |-> sub, grants |-> gs, ttl |-> ttl,
              jti |-> j, ext |-> FALSE, attestation |-> FALSE, mint_voucher |-> TRUE],
         new = BuiltTct(Issuer, b, now)
  PROVE  new.sub = sub /\ new.jkt = sub /\ new.grants = gs /\ new.iat = now /\ new.exp = now + ttl
<1>1. Attesting(Issuer, b) = b
  BY DEF Attesting
<1>2. b.subject = sub /\ b.subject_pubkey = sub /\ b.grants = gs /\ b.ttl = ttl
  OBVIOUS
<1>3. new = [typ |-> "tct", signer |-> Issuer, flaw |-> "none", jti |-> b.jti, iss |-> Issuer,
             sub |-> b.subject, aud |-> b.audience, iat |-> now, exp |-> now + b.ttl, grants |-> b.grants,
             jkt |-> b.subject_pubkey, ext |-> b.ext]
  BY <1>1 DEF BuiltTct
<1> QED
  BY <1>2, <1>3

\* A renewed token belongs to the chain of the one presented, and ends with
\* the manifest.
LEMMA NewTokenFits ==
  ASSUME NEW t, NEW policy, NEW now \in Nat, NEW new, TokenFits(t), now <= MANIFEST_EXPIRES_AT,
         new.sub = t.sub, new.jkt = t.sub, new.grants = RenewedGrants(t.grants, policy),
         new.iat = now, new.exp = now + RenewedTtl(now)
  PROVE  TokenFits(new) /\ new.grants \subseteq t.grants /\ new.exp <= MANIFEST_EXPIRES_AT
<1> DEFINE gs == RenewedGrants(t.grants, policy)
           ttl == RenewedTtl(now)
<1>1. /\ new.sub = t.sub /\ new.jkt = t.sub /\ new.grants = gs /\ new.iat = now /\ new.exp = now + ttl
  OBVIOUS
<1> HIDE DEF gs, ttl
<1>2. RENEWAL_TTL \in Nat /\ MANIFEST_EXPIRES_AT \in Nat
  BY RenewalAssumption
<1>3. ttl \in Nat /\ now + ttl <= MANIFEST_EXPIRES_AT
  BY <1>2 DEF RenewedTtl, Least, ttl
<1>4. gs \subseteq t.grants
  BY DEF RenewedGrants, gs
<1>5. now + ttl \in Nat /\ gs \subseteq FirstGrants /\ t.sub = Holder
  BY <1>3, <1>4 DEF TokenFits
<1> QED
  BY <1>1, <1>3, <1>4, <1>5 DEF TokenFits

\* verify_renewal_response: a reply that passes was made for this nonce.
LEMMA ReplyHolds ==
  ASSUME NEW n, NEW env \in Answering, RenewalVerdict(n, env) = "ok", rtime \in Nat,
         \A r \in renewals : TokenFits(r.tct)
  PROVE  \E r \in renewals : r.nonce = n /\ r.tct = env.payload.tct
<1>1. env.message_type # "error" /\ EchoesNonce(n, env.payload)
  <2>1. PICK current, ctx :
          /\ current = renewing[n].current
          /\ ctx = [issuer |-> current.iss, for |-> Holder, now |-> rtime, clock_skew |-> 0,
                    cap |-> MANIFEST_EXPIRES_AT, revocation |-> "fail_open"]
    OBVIOUS
  <2> DEFINE a == <<rtime - TOLERANCE <= env.timestamp /\ env.timestamp <= rtime + TOLERANCE, "TimestampExpired">>
             b == <<env.message_type \in {"tct", "error"}, "InvalidEnvelope">>
             c == <<VerifyEnvelopeSignature(env, env.sender), "InvalidSignature">>
             d == <<env.sender = current.iss, "PeerMismatch">>
             e == <<env.message_type # "error", "Refused">>
             before == Verdict(<<a, b, c, d, e>>)
             f == <<CheckMembers(env.payload, RENEWAL_RESPONSE_PAYLOAD_MEMBERS), "UnknownField">>
             g == <<EchoesNonce(n, env.payload), "NonceMismatch">>
             v == VerifyTct(env.payload.tct, ctx, Answer("clear")).verdict
             i == <<env.payload.tct.sub = Holder /\ env.payload.tct.jkt = current.jkt, "AudienceMismatch">>
             j == <<env.payload.tct.grants \subseteq current.grants, "GrantOverflow">>
  <2>2. RenewalVerdict(n, env) = IF before # "ok" THEN before ELSE Verdict(<<f, g, Sub(v), i, j>>)
    BY <2>1 DEF RenewalVerdict
  <2>3. Fine(a) /\ Fine(b) /\ Fine(c)
    BY DEF Fine
  <2>4. Fine(d) /\ Fine(e) /\ Fine(f)
    BY DEF Fine
  <2>5. Fine(g) /\ Fine(i) /\ Fine(j)
    BY DEF Fine
  <2>6. PICK w : w = Sub(v) /\ Fine(w)
    BY SubFine
  <2> HIDE DEF a, b, c, d, e, f, g, v, i, j
  <2>7. before = "ok" /\ Verdict(<<f, g, w, i, j>>) = "ok"
    BY <2>2, <2>6
  <2>8. e[1]
    BY <2>3, <2>4, <2>7, FiveHold
  <2>9. g[1]
    BY <2>4, <2>5, <2>6, <2>7, FiveHold
  <2>10. env.message_type # "error"
    BY <2>8, ConditionOf DEF e
  <2>11. EchoesNonce(n, env.payload)
    BY <2>9, ConditionOf DEF g
  <2> QED
    BY <2>10, <2>11
<1>2. ErrorEnvelope(rtime).message_type = "error"
  <2>1. PICK p : p = [code |-> "any"]
    OBVIOUS
  <2>2. ErrorEnvelope(rtime) = SignedEnvelope(Issuer, UnsignedEnvelope(Issuer, "error", p, rtime, None), None)
    BY <2>1 DEF ErrorEnvelope
  <2> QED
    BY <2>2, EnvelopeMade
<1>3. PICK r, e : /\ r \in renewals /\ e = ResponseEnvelope(r.tct, r.nonce, r.tct.iat)
                  /\ env = e \/ env = [e EXCEPT !.sender = Holder]
  BY <1>1, <1>2 DEF Answering
<1>4. PICK p : p = [tct |-> r.tct, pop_nonce_echo |-> r.nonce, members |-> RENEWAL_RESPONSE_PAYLOAD_MEMBERS]
  OBVIOUS
<1>5. e = SignedEnvelope(Issuer, UnsignedEnvelope(Issuer, "tct", p, r.tct.iat, None), None) /\ r.tct.iat \in Nat
  BY <1>3, <1>4 DEF ResponseEnvelope, TokenFits
<1>6. e.payload = p /\ [e EXCEPT !.sender = Holder].payload = p
  BY <1>5, EnvelopeMade
<1>7. env.payload = p
  BY <1>3, <1>6
<1> QED
  BY <1>1, <1>3, <1>4, <1>7 DEF EchoesNonce

(***************************************************************************)
(* Renewal: steps.                                                         *)
(***************************************************************************)

\* What has to be true of the next state of a handler.
LEMMA HandlerBecomes ==
  ASSUME NEW h, NEW x, NEW r, NEW k \in RenewalNonces, x = handler'[h], r = x.req,
         r.pop_nonce \in RenewalNonces, PresentedWith(r.current_tct, k)',
         r.pop.over = RenewalPopInput(r.current_tct, k), x.listed => r.current_tct.jti \in list',
         x.pc = "record" => /\ PresentedWith(r.current_tct, r.pop_nonce)' /\ ~x.listed
                            /\ x.now \in Nat /\ x.now <= rtime' /\ x.now <= MANIFEST_EXPIRES_AT
  PROVE  HandlerFits(h)'
BY DEF HandlerFits, PresentedWith, RenewalPopInput

\* What a handler is doing stays fitting while the list and the clock grow and
\* renewals are begun and ended.
LEMMA HandlerKept ==
  ASSUME NEW h, HandlerFits(h), handler'[h] = handler[h], list \subseteq list',
         rtime \in Nat, rtime' \in Nat, rtime <= rtime',
         \A t, n : PresentedWith(t, n) => PresentedWith(t, n)'
  PROVE  HandlerFits(h)'
<1>1. PICK x, r : x = handler[h] /\ r = x.req
  OBVIOUS
<1>2. CASE x.pc = "idle"
  BY <1>1, <1>2 DEF HandlerFits
<1>3. CASE x.pc # "idle"
  <2>1. PICK k \in RenewalNonces :
          /\ PresentedWith(r.current_tct, k) /\ r.pop.over = RenewalPopInput(r.current_tct, k)
          /\ r.pop_nonce \in RenewalNonces /\ (x.listed => r.current_tct.jti \in list)
    BY <1>1, <1>3 DEF HandlerFits
  <2>2. x.pc = "record" => /\ PresentedWith(r.current_tct, r.pop_nonce) /\ ~x.listed
                           /\ x.now \in Nat /\ x.now <= rtime /\ x.now <= MANIFEST_EXPIRES_AT
    BY <1>1, <1>3 DEF HandlerFits
  <2>3. x.pc = "record" => /\ PresentedWith(r.current_tct, r.pop_nonce)' /\ ~x.listed
                           /\ x.now \in Nat /\ x.now <= rtime' /\ x.now <= MANIFEST_EXPIRES_AT
    BY <2>2
  <2>4. PresentedWith(r.current_tct, k)' /\ (x.listed => r.current_tct.jti \in list') /\ x = handler'[h]
    BY <1>1, <2>1
  <2> QED
    BY <1>1, <2>1, <2>3, <2>4, HandlerBecomes
<1> QED
  BY <1>2, <1>3

\* What a renewal in the books says stays true while the record of its nonce
\* is kept, and after its token has expired.
LEMMA RenewalKept ==
  ASSUME NEW r, RenewalFits(r), rtime \in Nat, rtime' \in Nat, rtime <= rtime', r.src.exp \in Nat,
         seen'[r.nonce] = seen[r.nonce] \/ seen'[r.nonce] = r.src.exp \/ rtime' > r.src.exp,
         \A t, n : PresentedWith(t, n) => PresentedWith(t, n)'
  PROVE  RenewalFits(r)'
<1>1. seen'[r.nonce] = r.src.exp \/ rtime' > r.src.exp
  BY DEF RenewalFits
<1>2. PresentedWith(r.src, r.nonce)'
  BY DEF RenewalFits
<1> QED
  BY <1>1, <1>2 DEF RenewalFits, TokenFits

\* The token of a renewal in the books has an expiry.
LEMMA SourceFits ==
  ASSUME RenewInv, NEW t, NEW n, PresentedWith(t, n)
  PROVE  TokenFits(t) /\ t.exp \in Nat
BY DEF RenewInv, PresentedWith, CallFits, TokenFits

\* handle_renew reads the list before it verifies anything.
LEMMA ArriveKeeps ==
  ASSUME RenewInv, NEW h \in RenewHandlers, NEW r \in Arriving, Arrive(h, r)
  PROVE  RenewInv'
<1>1. PICK x : x = [Waiting EXCEPT !.pc = "verify", !.req = r, !.listed = r.current_tct.jti \in list]
  OBVIOUS
<1>2. /\ handler' = [handler EXCEPT ![h] = x] /\ UNCHANGED <<rtime, list, seen, held, renewing, renewals>>
      /\ DOMAIN handler = RenewHandlers
  BY <1>1 DEF Arrive, Handler, RenewInv
<1>3. x = [pc |-> "verify", req |-> r, listed |-> r.current_tct.jti \in list, now |-> 0]
  BY <1>1 DEF Waiting
<1>4. PICK k \in RenewalNonces : /\ renewing[k].pc # "idle" /\ r.current_tct = renewing[k].current
                                 /\ r.pop_nonce \in RenewalNonces
                                 /\ r.pop.over = RenewalPopInput(r.current_tct, k)
  <2>1. PICK k, q :
          /\ k \in RenewalNonces /\ renewing[k].pc # "idle" /\ q = Request(renewing[k].current, k, Holder)
          /\ r = q \/ \E n \in RenewalNonces : r = [q EXCEPT !.pop_nonce = n]
    BY DEF Arriving
  <2>2. PICK t, o : t = renewing[k].current /\ o = RenewalPopInput(t, k)
    OBVIOUS
  <2>3. q = [current_tct |-> t, pop_nonce |-> k, pop |-> [by |-> Holder, over |-> o]]
    BY <2>1, <2>2 DEF Request
  <2>4. PICK n \in RenewalNonces : r = [current_tct |-> t, pop_nonce |-> n, pop |-> [by |-> Holder, over |-> o]]
    BY <2>1, <2>3
  <2>5. r.current_tct = t /\ r.pop_nonce = n /\ r.pop.over = o
    BY <2>4
  <2> QED
    BY <2>1, <2>2, <2>5
<1>5. \A t, n : PresentedWith(t, n) => PresentedWith(t, n)'
  BY <1>2 DEF PresentedWith
<1>6. HandlerFits(h)'
  <2>1. handler'[h] = x /\ x.pc = "verify" /\ x.req = r
    BY <1>2, <1>3
  <2>2. x.listed => r.current_tct.jti \in list
    BY <1>3
  <2>3. PresentedWith(r.current_tct, k)'
    BY <1>2, <1>4 DEF PresentedWith
  <2> QED
    BY <1>2, <1>4, <2>1, <2>2, <2>3, HandlerBecomes
<1>7. \A i \in RenewHandlers : HandlerFits(i)'
  <2> SUFFICES ASSUME NEW i \in RenewHandlers, i # h PROVE HandlerFits(i)'
    BY <1>6
  <2>1. handler'[i] = handler[i] /\ HandlerFits(i) /\ rtime \in Nat /\ rtime' = rtime /\ list' = list
    BY <1>2 DEF RenewInv
  <2> QED
    BY <1>5, <2>1, HandlerKept
<1> QED
  BY <1>2, <1>7 DEF RenewInv, CallFits, RenewalFits, TokenFits, PresentedWith, NonceRenewsOnce

\* A handler that gives up, or is done.
LEMMA RefuseKeeps ==
  ASSUME RenewInv, NEW h \in RenewHandlers, Refuse(h),
         UNCHANGED <<rtime, list, held, renewing>>
  PROVE  /\ DOMAIN handler' = RenewHandlers /\ \A i \in RenewHandlers : HandlerFits(i)'
         /\ \A t, n : PresentedWith(t, n) => PresentedWith(t, n)'
<1>1. handler' = [handler EXCEPT ![h] = Waiting] /\ DOMAIN handler = RenewHandlers /\ Waiting.pc = "idle"
  BY DEF Refuse, Handler, RenewInv, Waiting
<1>2. \A t, n : PresentedWith(t, n) => PresentedWith(t, n)'
  BY DEF PresentedWith
<1>3. ASSUME NEW i \in RenewHandlers PROVE HandlerFits(i)'
  <2>1. CASE i = h
    BY <1>1, <2>1 DEF HandlerFits
  <2>2. CASE i # h
    <3>1. handler'[i] = handler[i] /\ HandlerFits(i) /\ rtime \in Nat
      BY <1>1, <2>2 DEF RenewInv
    <3> QED
      BY <1>2, <3>1, HandlerKept
  <2> QED
    BY <2>1, <2>2
<1> QED
  BY <1>1, <1>2, <1>3

\* A request that is verified is bound to its own nonce.
LEMMA VerifyKeeps ==
  ASSUME RenewInv, NEW h \in RenewHandlers, NEW readable \in BOOLEAN, VerifyRequest(h, readable)
  PROVE  RenewInv'
<1>1. UNCHANGED <<rtime, list, seen, held, renewing, renewals>> /\ handler[h].pc = "verify"
      /\ DOMAIN handler = RenewHandlers /\ rtime \in Nat
  BY DEF VerifyRequest, RenewInv
<1>2. \A t, n : PresentedWith(t, n) => PresentedWith(t, n)'
  BY <1>1 DEF PresentedWith
<1>3. DOMAIN handler' = RenewHandlers /\ \A i \in RenewHandlers : HandlerFits(i)'
  <2>1. CASE RequestVerdict(handler[h].req, rtime, readable) # "ok"
    <3>1. Refuse(h)
      BY <2>1 DEF VerifyRequest
    <3> QED
      BY <1>1, <3>1, RefuseKeeps
  <2>2. CASE RequestVerdict(handler[h].req, rtime, readable) = "ok"
    <3>1. PICK y, x, r : y = handler[h] /\ x = [y EXCEPT !.pc = "record", !.now = rtime] /\ r = y.req
      OBVIOUS
    <3>2. handler' = [handler EXCEPT ![h] = x]
      BY <2>2, <3>1 DEF VerifyRequest, Handler
    <3>3. y.pc = "verify" /\ y.req = r /\ HandlerFits(h)
      BY <1>1, <3>1 DEF RenewInv
    <3>4. PICK k \in RenewalNonces : /\ PresentedWith(r.current_tct, k) /\ r.pop_nonce \in RenewalNonces
                                     /\ r.pop.over = RenewalPopInput(r.current_tct, k)
                                     /\ y.listed => r.current_tct.jti \in list
      BY <3>1, <3>3 DEF HandlerFits
    <3>5. TokenFits(r.current_tct) /\ r.current_tct.exp \in Nat
      BY <3>4, SourceFits
    <3>6. /\ r.pop.over = RenewalPopInput(r.current_tct, r.pop_nonce) /\ r.current_tct.jti \notin list
          /\ rtime <= r.current_tct.exp /\ r.current_tct.exp <= MANIFEST_EXPIRES_AT
      BY <1>1, <2>2, <3>1, <3>5, RequestHolds
    <3>7. r.pop_nonce = k /\ ~y.listed
      BY <3>4, <3>6 DEF RenewalPopInput
    <3>8. rtime <= MANIFEST_EXPIRES_AT
      BY <1>1, <3>5, <3>6, RenewalAssumption
    <3>9. HandlerFits(h)'
      <4>1. handler'[h] = x
        BY <1>1, <3>2
      <4>2. x.pc = "record" /\ x.now = rtime /\ x.req = r /\ ~x.listed
        BY <3>1, <3>3, <3>7
      <4>3. PresentedWith(r.current_tct, k)'
        BY <1>2, <3>4
      <4>4. PresentedWith(r.current_tct, r.pop_nonce)' /\ x.now \in Nat /\ x.now <= rtime' /\ x.now <= MANIFEST_EXPIRES_AT
        BY <1>1, <3>7, <3>8, <4>2, <4>3
      <4> QED
        BY <3>4, <4>1, <4>2, <4>3, <4>4, HandlerBecomes
    <3>10. ASSUME NEW i \in RenewHandlers, i # h PROVE HandlerFits(i)'
      <4>1. handler'[i] = handler[i] /\ HandlerFits(i)
        BY <1>1, <3>2, <3>10 DEF RenewInv
      <4> QED
        BY <1>1, <1>2, <4>1, HandlerKept
    <3> QED
      BY <1>1, <3>2, <3>9, <3>10
  <2> QED
    BY <2>1, <2>2
<1> QED
  BY <1>1, <1>3 DEF RenewInv, CallFits, RenewalFits, TokenFits, PresentedWith, NonceRenewsOnce

\* What the nonce store forgets when a handler that read the clock at now
\* records n has expired by then.
LEMMA PurgedFits ==
  ASSUME RenewInv, NEW now \in Nat, now <= rtime, NEW n \in RenewalNonces, NEW P \in Purges(n, now),
         NEW m \in RenewalNonces
  PROVE  /\ Purged(P)[m] \in Nat \cup {None}
         /\ m \notin P => Purged(P)[m] = seen[m]
         /\ m \in P => Purged(P)[m] = None /\ seen[m] \in Nat /\ seen[m] < rtime
<1>1. m \in P => seen[m] # None /\ seen[m] < now
  BY DEF Purges
<1>2. seen[m] \in Nat \cup {None} /\ rtime \in Nat
  BY DEF RenewInv
<1>3. m \in P => seen[m] \in Nat /\ seen[m] < rtime
  BY <1>1, <1>2
<1> QED
  BY <1>2, <1>3 DEF Purged

\* Recording a nonce: the renewals in the books stay remembered or expire, and
\* those of the same nonce have expired by now.
LEMMA RecordKeeps ==
  ASSUME RenewInv, NEW now \in Nat, now <= rtime, NEW n, NEW t, PresentedWith(t, n),
         NEW P \in Purges(n, now), NEW r \in renewals, rtime' = rtime,
         \A a, b : PresentedWith(a, b) => PresentedWith(a, b)',
         \/ seen' = Purged(P)
         \/ Purged(P)[n] = None /\ seen' = [Purged(P) EXCEPT ![n] = t.exp]
  PROVE  /\ RenewalFits(r)'
         /\ Purged(P)[n] = None /\ r.nonce = n => r.src = t /\ rtime > t.exp
<1>1. /\ RenewalFits(r) /\ PresentedWith(r.src, r.nonce) /\ r.nonce \in RenewalNonces /\ n \in RenewalNonces
      /\ rtime \in Nat
  BY DEF RenewInv, RenewalFits, PresentedWith
<1>2. r.src.exp \in Nat /\ t.exp \in Nat
  BY <1>1, SourceFits
<1>3. r.nonce = n => r.src = t
  BY <1>1 DEF PresentedWith
<1>4. DOMAIN Purged(P) = RenewalNonces
  BY DEF Purged
<1>5. r.nonce \in P => Purged(P)[r.nonce] = None /\ seen[r.nonce] \in Nat /\ seen[r.nonce] < rtime
  BY <1>1, PurgedFits
<1>6. r.nonce \notin P => Purged(P)[r.nonce] = seen[r.nonce]
  BY <1>1, PurgedFits
<1>7. r.nonce \in P => rtime > r.src.exp
  BY <1>1, <1>2, <1>5 DEF RenewalFits
<1>8. /\ seen'[r.nonce] = seen[r.nonce] \/ seen'[r.nonce] = r.src.exp \/ rtime' > r.src.exp
  <2>1. CASE r.nonce \in P
    BY <1>7, <2>1
  <2>2. CASE r.nonce \notin P /\ seen' = Purged(P)
    BY <1>6, <2>2
  <2>3. CASE r.nonce \notin P /\ seen' = [Purged(P) EXCEPT ![n] = t.exp]
    <3>1. CASE r.nonce = n
      BY <1>1, <1>3, <1>4, <2>3, <3>1
    <3>2. CASE r.nonce # n
      BY <1>1, <1>4, <1>6, <2>3, <3>2
    <3> QED
      BY <3>1, <3>2
  <2> QED
    BY <2>1, <2>2, <2>3
<1>9. RenewalFits(r)'
  BY <1>1, <1>2, <1>8, RenewalKept
<1>10. ASSUME Purged(P)[n] = None, r.nonce = n PROVE rtime > t.exp
  <2>1. CASE n \in P
    BY <1>3, <1>7, <1>10, <2>1
  <2>2. CASE n \notin P
    <3>1. seen[n] = None
      BY <1>6, <1>10, <2>2
    <3>2. seen[n] # r.src.exp
      BY <1>2, <3>1, TokenAssumption
    <3> QED
      BY <1>1, <1>3, <1>10, <3>2 DEF RenewalFits
  <2> QED
    BY <2>1, <2>2
<1> QED
  BY <1>3, <1>9, <1>10

\* The nonce is recorded and the token issued in one step.
LEMMA IssueKeeps ==
  ASSUME RenewInv, NEW h \in RenewHandlers, NEW P \in SUBSET RenewalNonces, NEW policy,
         RecordAndIssue(h, P, policy)
  PROVE  RenewInv'
<1>1. PICK x, r, t, n, now : x = handler[h] /\ r = x.req /\ t = r.current_tct /\ n = r.pop_nonce /\ now = x.now
  OBVIOUS
<1>2. UNCHANGED <<rtime, list, held, renewing>> /\ x.pc = "record" /\ P \in Purges(n, now)
  BY <1>1 DEF RecordAndIssue
<1>3. /\ PresentedWith(t, n) /\ ~x.listed /\ now \in Nat /\ now <= rtime /\ now <= MANIFEST_EXPIRES_AT
      /\ n \in RenewalNonces /\ rtime \in Nat
  BY <1>1, <1>2 DEF RenewInv, HandlerFits
<1>4. TokenFits(t) /\ t.exp \in Nat
  BY <1>3, SourceFits
<1>5. Refuse(h)
  BY DEF RecordAndIssue, Refuse
<1>6. /\ DOMAIN handler' = RenewHandlers /\ (\A i \in RenewHandlers : HandlerFits(i)')
      /\ \A a, b : PresentedWith(a, b) => PresentedWith(a, b)'
  BY <1>2, <1>5, RefuseKeeps
<1>7. PICK s : /\ s.nonce = n /\ s.src = t /\ s.at = rtime /\ s.listed = x.listed
               /\ TokenFits(s.tct) /\ s.tct.grants \subseteq t.grants /\ s.tct.exp <= MANIFEST_EXPIRES_AT
               /\ \/ seen' = Purged(P) /\ renewals' = renewals
                  \/ /\ Purged(P)[n] = None /\ seen' = [Purged(P) EXCEPT ![n] = t.exp]
                     /\ renewals' = renewals \/ renewals' = renewals \cup {s}
  <2>1. PICK j, b : /\ j = FreshJti
                    /\ b = [subject |-> t.sub, audience |-> t.aud, subject_pubkey |-> t.sub,
                            grants |-> RenewedGrants(t.grants, policy), ttl |-> RenewedTtl(now), jti |-> j,
                            ext |-> FALSE, attestation |-> FALSE, mint_voucher |-> TRUE]
    OBVIOUS
  <2>2. PICK new : new = BuiltTct(Issuer, b, now)
    OBVIOUS
  <2>3. /\ new.sub = t.sub /\ new.jkt = t.sub /\ new.grants = RenewedGrants(t.grants, policy)
        /\ new.iat = now /\ new.exp = now + RenewedTtl(now)
    BY <2>1, <2>2, NewTokenFields
  <2>4. TokenFits(new) /\ new.grants \subseteq t.grants /\ new.exp <= MANIFEST_EXPIRES_AT
    BY <1>3, <1>4, <2>3, NewTokenFits
  <2>5. PICK s : s = [nonce |-> n, src |-> t, tct |-> new, at |-> rtime, listed |-> x.listed]
    OBVIOUS
  <2>6. s.nonce = n /\ s.src = t /\ s.at = rtime /\ s.listed = x.listed /\ s.tct = new
    BY <2>5
  <2>7. IF Purged(P)[n] # None
        THEN seen' = Purged(P) /\ Refuse(h) /\ renewals' = renewals
        ELSE /\ seen' = [Purged(P) EXCEPT ![n] = RecordExpiry(t, now)]
             /\ IF RenewedGrants(t.grants, policy) = {}
                THEN Refuse(h) /\ renewals' = renewals
                ELSE Handler(h, Waiting) /\ renewals' = renewals \cup {s}
    BY <1>1, <2>1, <2>2, <2>5 DEF RecordAndIssue
  <2>8. \/ seen' = Purged(P) /\ renewals' = renewals
        \/ /\ Purged(P)[n] = None /\ seen' = [Purged(P) EXCEPT ![n] = t.exp]
           /\ renewals' = renewals \/ renewals' = renewals \cup {s}
    BY <2>7 DEF RecordExpiry
  <2> QED
    BY <2>4, <2>6, <2>8
<1>8. \A m \in RenewalNonces : Purged(P)[m] \in Nat \cup {None}
  BY <1>2, <1>3, PurgedFits
<1>9. seen' \in [RenewalNonces -> Nat \cup {None}]
  <2>1. Purged(P) \in [RenewalNonces -> Nat \cup {None}]
    BY <1>8 DEF Purged
  <2> QED
    BY <1>4, <1>7, <2>1
<1>10. ASSUME NEW o \in renewals
       PROVE  RenewalFits(o)' /\ (Purged(P)[n] = None /\ o.nonce = n => o.src = t /\ rtime > t.exp)
  BY <1>2, <1>3, <1>6, <1>7, <1>10, RecordKeeps
<1>11. CASE renewals' = renewals
  <2>1. \A o \in renewals' : RenewalFits(o)'
    BY <1>10, <1>11
  <2> QED
    BY <1>2, <1>6, <1>9, <1>11, <2>1 DEF RenewInv, CallFits, TokenFits, NonceRenewsOnce
<1>12. CASE renewals' = renewals \cup {s} /\ renewals' # renewals
  <2>1. Purged(P)[n] = None /\ seen' = [Purged(P) EXCEPT ![n] = t.exp] /\ seen'[n] = t.exp
    BY <1>3, <1>7, <1>12 DEF Purged
  <2>2. RenewalFits(s)'
    <3>1. PresentedWith(s.src, s.nonce)'
      BY <1>3, <1>6, <1>7
    <3>2. seen'[s.nonce] = s.src.exp
      BY <1>7, <2>1
    <3> QED
      BY <1>3, <1>7, <3>1, <3>2 DEF RenewalFits, TokenFits
  <2>3. \A o \in renewals' : RenewalFits(o)'
    BY <1>10, <1>12, <2>2
  <2>4. NonceRenewsOnce'
    <3> SUFFICES ASSUME NEW a \in renewals', NEW b \in renewals', a.nonce = b.nonce, a # b
                 PROVE  a.at > a.src.exp \/ b.at > b.src.exp
      BY DEF NonceRenewsOnce
    <3>1. CASE a \in renewals /\ b \in renewals
      BY <3>1 DEF RenewInv, NonceRenewsOnce
    <3>2. CASE a \in renewals /\ b = s
      BY <1>7, <1>10, <2>1, <3>2
    <3>3. CASE b \in renewals /\ a = s
      BY <1>7, <1>10, <2>1, <3>3
    <3> QED
      BY <1>12, <3>1, <3>2, <3>3
  <2>5. \A m \in RenewalNonces : CallFits(m)'
    BY <1>2, <1>12 DEF RenewInv, CallFits, TokenFits
  <2> QED
    BY <1>2, <1>6, <1>9, <2>3, <2>4, <2>5 DEF RenewInv, TokenFits
<1> QED
  BY <1>7, <1>11, <1>12

\* A step that leaves the issuer alone but for its list and the clock.
LEMMA HolderKeeps ==
  ASSUME RenewInv, UNCHANGED <<seen, handler, renewals>>, list \subseteq list',
         rtime' \in Nat, rtime <= rtime', DOMAIN renewing' = RenewalNonces,
         \A n \in RenewalNonces : renewing[n].pc # "idle" =>
            renewing'[n].pc # "idle" /\ renewing'[n].current = renewing[n].current,
         held' # None => TokenFits(held.tct)',
         \A n \in RenewalNonces : CallFits(n)'
  PROVE  RenewInv'
<1>1. \A t, n : PresentedWith(t, n) => PresentedWith(t, n)'
  BY DEF PresentedWith
<1>2. rtime \in Nat /\ DOMAIN handler = RenewHandlers /\ seen \in [RenewalNonces -> Nat \cup {None}]
  BY DEF RenewInv
<1>3. ASSUME NEW h \in RenewHandlers PROVE HandlerFits(h)'
  <2>1. HandlerFits(h) /\ handler'[h] = handler[h]
    BY DEF RenewInv
  <2> QED
    BY <1>1, <1>2, <2>1, HandlerKept
<1>4. ASSUME NEW r \in renewals' PROVE RenewalFits(r)'
  <2>1. RenewalFits(r) /\ PresentedWith(r.src, r.nonce)
    BY DEF RenewInv, RenewalFits
  <2>2. r.src.exp \in Nat /\ seen'[r.nonce] = seen[r.nonce]
    BY <2>1, SourceFits
  <2> QED
    BY <1>1, <1>2, <2>1, <2>2, RenewalKept
<1>5. NonceRenewsOnce'
  BY DEF RenewInv, NonceRenewsOnce
<1> QED
  BY <1>2, <1>3, <1>4, <1>5 DEF RenewInv

\* renew_tct returns: a token it got was issued for this very request.
LEMMA ReceiveKeeps ==
  ASSUME RenewInv, NEW n \in RenewalNonces, NEW env \in Answering, Receive(n, env)
  PROVE  RenewInv'
<1>1. /\ renewing[n].pc = "sent" /\ UNCHANGED <<rtime, list, seen, handler, renewals>> /\ rtime \in Nat
      /\ DOMAIN renewing = RenewalNonces /\ \A r \in renewals : RenewalFits(r) /\ TokenFits(r.tct)
  BY DEF Receive, RenewInv, RenewalFits
<1>2. \A m \in RenewalNonces : CallFits(m)
  BY DEF RenewInv
<1>3. CASE RenewalVerdict(n, env) = "ok"
  <2>1. PICK t : t = env.payload.tct
    OBVIOUS
  <2>2. /\ renewing' = [renewing EXCEPT ![n].pc = "done", ![n].got = t]
        /\ held' = [tct |-> t, original_ttl |-> t.exp - t.iat]
    BY <1>3, <2>1 DEF Receive, Insert
  <2>3. PICK r \in renewals : r.nonce = n /\ r.tct = t
    BY <1>1, <1>3, <2>1, ReplyHolds
  <2>4. TokenFits(t) /\ r.src = renewing[n].current
    BY <1>1, <2>3 DEF RenewalFits, PresentedWith
  <2>5. DOMAIN renewing' = RenewalNonces /\ \A m \in RenewalNonces : m # n => renewing'[m] = renewing[m]
    BY <1>1, <2>2
  <2>6. renewing'[n].pc = "done" /\ renewing'[n].current = renewing[n].current /\ renewing'[n].got = t
    BY <1>1, <2>2
  <2>7. CallFits(n)'
    BY <1>1, <1>2, <2>3, <2>4, <2>6 DEF CallFits, TokenFits
  <2>8. ASSUME NEW m \in RenewalNonces PROVE CallFits(m)'
    <3>1. CASE m # n
      BY <1>1, <1>2, <2>5, <3>1 DEF CallFits, TokenFits
    <3> QED
      BY <2>7, <3>1
  <2>9. TokenFits(held.tct)'
    BY <2>2, <2>4 DEF TokenFits
  <2>10. \A m \in RenewalNonces : renewing[m].pc # "idle" =>
           renewing'[m].pc # "idle" /\ renewing'[m].current = renewing[m].current
    BY <2>5, <2>6
  <2> QED
    BY <1>1, <2>5, <2>8, <2>9, <2>10, HolderKeeps
<1>4. CASE RenewalVerdict(n, env) # "ok"
  <2>1. renewing' = [renewing EXCEPT ![n].pc = "failed"] /\ held' = held
    BY <1>4 DEF Receive
  <2>2. DOMAIN renewing' = RenewalNonces /\ \A m \in RenewalNonces : m # n => renewing'[m] = renewing[m]
    BY <1>1, <2>1
  <2>3. renewing'[n].pc = "failed" /\ renewing'[n].current = renewing[n].current /\ renewing'[n].got = renewing[n].got
    BY <1>1, <2>1
  <2>4. ASSUME NEW m \in RenewalNonces PROVE CallFits(m)'
    <3>1. CASE m # n
      BY <1>1, <1>2, <2>2, <3>1 DEF CallFits, TokenFits
    <3>2. CASE m = n
      BY <1>1, <1>2, <2>3, <3>2 DEF CallFits, TokenFits
    <3> QED
      BY <3>1, <3>2
  <2>5. held' # None => TokenFits(held.tct)'
    BY <2>1 DEF RenewInv, TokenFits
  <2>6. \A m \in RenewalNonces : renewing[m].pc # "idle" =>
          renewing'[m].pc # "idle" /\ renewing'[m].current = renewing[m].current
    BY <2>2, <2>3
  <2> QED
    BY <1>1, <2>2, <2>4, <2>5, <2>6, HolderKeeps
<1> QED
  BY <1>3, <1>4

\* Every step keeps the invariant.
LEMMA RenewStep == RenewInv /\ [RnNext]_rnVars => RenewInv'
<1> SUFFICES ASSUME RenewInv, [RnNext]_rnVars PROVE RenewInv'
  OBVIOUS
<1>0. /\ rtime \in Nat /\ DOMAIN renewing = RenewalNonces /\ (\A n \in RenewalNonces : CallFits(n))
      /\ held # None => TokenFits(held.tct)
  BY DEF RenewInv
<1>1. ASSUME NEW h \in RenewHandlers, StoreFails(h) PROVE RenewInv'
  <2>1. Refuse(h) /\ UNCHANGED <<rtime, list, seen, held, renewing, renewals>>
    BY <1>1 DEF StoreFails
  <2>2. DOMAIN handler' = RenewHandlers /\ \A i \in RenewHandlers : HandlerFits(i)'
    BY <2>1, RefuseKeeps
  <2> QED
    BY <2>1, <2>2 DEF RenewInv, CallFits, RenewalFits, TokenFits, PresentedWith, NonceRenewsOnce
<1>2. ASSUME UNCHANGED <<seen, handler, renewals, renewing>>, list \subseteq list', rtime' \in Nat, rtime <= rtime',
             held' = held \/ held' = None
      PROVE  RenewInv'
  <2>1. \A n \in RenewalNonces : CallFits(n)'
    BY <1>0, <1>2 DEF CallFits, TokenFits
  <2>2. held' # None => TokenFits(held.tct)'
    BY <1>0, <1>2 DEF TokenFits
  <2> QED
    BY <1>0, <1>2, <2>1, <2>2, HolderKeeps
<1>3. ASSUME NEW x, Revoke(x) PROVE RenewInv'
  BY <1>0, <1>2, <1>3 DEF Revoke
<1>4. CASE Remove
  BY <1>0, <1>2, <1>4 DEF Remove
<1>5. CASE RnTick
  BY <1>0, <1>2, <1>5 DEF RnTick
<1>6. CASE UNCHANGED rnVars
  BY <1>0, <1>2, <1>6 DEF rnVars
<1>7. ASSUME NEW n \in RenewalNonces, Renew(n) PROVE RenewInv'
  <2>1. /\ renewing[n].pc = "idle" /\ held # None /\ UNCHANGED <<rtime, list, seen, handler, held, renewals>>
        /\ renewing' = [renewing EXCEPT ![n] = [pc |-> "sent", current |-> held.tct, got |-> None]]
    BY <1>7 DEF Renew, NeedsRefresh
  <2>2. DOMAIN renewing' = RenewalNonces /\ \A m \in RenewalNonces : m # n => renewing'[m] = renewing[m]
    BY <1>0, <2>1
  <2>3. renewing'[n].current = held.tct /\ renewing'[n].got = None
    BY <1>0, <2>1
  <2>4. ASSUME NEW m \in RenewalNonces PROVE CallFits(m)'
    <3>1. CASE m # n
      BY <1>0, <2>1, <2>2, <3>1 DEF CallFits, TokenFits
    <3>2. CASE m = n
      BY <1>0, <2>1, <2>3, <3>2 DEF CallFits, TokenFits
    <3> QED
      BY <3>1, <3>2
  <2>5. held' # None => TokenFits(held.tct)'
    BY <1>0, <2>1 DEF TokenFits
  <2>6. \A m \in RenewalNonces : renewing[m].pc # "idle" =>
          renewing'[m].pc # "idle" /\ renewing'[m].current = renewing[m].current
    BY <2>1, <2>2
  <2> QED
    BY <1>0, <2>1, <2>2, <2>4, <2>5, <2>6, HolderKeeps
<1> QED
  BY <1>1, <1>3, <1>4, <1>5, <1>6, <1>7, ArriveKeeps, VerifyKeeps, IssueKeeps, ReceiveKeeps DEF RnNext

\* Before any request, the holder has the first token.
LEMMA RenewInitially == RnInit => RenewInv
<1> SUFFICES ASSUME RnInit PROVE RenewInv
  OBVIOUS
<1>1. rtime \in Nat /\ seen \in [RenewalNonces -> Nat \cup {None}] /\ DOMAIN handler = RenewHandlers
      /\ DOMAIN renewing = RenewalNonces
  BY DEF RnInit
<1>2. TokenFits(held.tct)
  <2>1. PICK t : t = FirstTct
    OBVIOUS
  <2>2. held = [tct |-> t, original_ttl |-> RENEWAL_TTL]
    BY <2>1 DEF RnInit
  <2> QED
    BY <2>1, <2>2, FirstFits
<1>3. \A n \in RenewalNonces : CallFits(n)
  BY DEF RnInit, CallFits
<1>4. \A h \in RenewHandlers : HandlerFits(h)
  BY DEF RnInit, HandlerFits, Waiting
<1>5. (\A r \in renewals : RenewalFits(r)) /\ NonceRenewsOnce
  BY DEF RnInit, NonceRenewsOnce
<1> QED
  BY <1>1, <1>2, <1>3, <1>4, <1>5 DEF RenewInv

\* The issuer's books, its nonce store, its handlers and the holder's renewals
\* fit together in every reachable state.
THEOREM RenewalCorrect == RnSpec => []RenewInv
BY RenewInitially, RenewStep, PTL DEF RnSpec

\* NonceRenewsOnce, for any number of handlers and nonces: while the presented
\* token lives, a nonce renews it at most once.
THEOREM RenewedOnce == RnSpec => []NonceRenewsOnce
<1>1. RenewInv => NonceRenewsOnce
  BY DEF RenewInv
<1> QED
  BY <1>1, RenewalCorrect, PTL

\* RenewalsSound, for chains of any length: no renewal of a listed token, no
\* widening, and no reply taken for that of another request.
THEOREM RenewalsStaySound == RnSpec => []RenewalsSound
<1>1. RenewInv => RenewalsSound
  BY DEF RenewInv, RenewalFits, CallFits, TokenFits, RenewalsSound
<1> QED
  BY <1>1, RenewalCorrect, PTL

(***************************************************************************)
(* The sessions of the bindings: the inductive invariant.                  *)
(***************************************************************************)

\* The messages that draw a nonce.
Drawn(w) == {m \in w : m.type \in {"hello", "hello_ack"}}

\* A nonce tells a HELLO_ACK from all others, and one not drawn is not echoed.
NoncesDrawn ==
  /\ IsFiniteSet(wire)
  /\ \A m \in Drawn(wire) : m.nonce \in Nat /\ m.nonce <= Cardinality(Drawn(wire))
  /\ \A a \in Of("hello_ack") : a.echo \in Nat /\ a.echo <= Cardinality(Drawn(wire))
  /\ \A a, b \in Of("hello_ack") : a.nonce = b.nonce => a = b

\* The COMMIT c answers an answer to the HELLO of nonce h.
Commits(c, h) == \E a \in Of("hello_ack") : a.nonce = c.echo /\ a.echo = h

\* The Initiator is the one of the HELLO made last, and makes one COMMIT.
InitiatorFits ==
  /\ DOMAIN initiator = {"manifest", "inner"}
  /\ initiator.inner # None =>
       LET i == initiator.inner
       IN  /\ {"state", "nonce"} \subseteq DOMAIN i /\ i.nonce = latest
           /\ i.state = "AwaitingHelloAck" => \A c \in Of("commit") : ~Commits(c, i.nonce)
           /\ i.state = "AwaitingCommitAck" =>
                \A c \in Of("commit") : Commits(c, i.nonce) => c.echo = i.peerNonce

\* The Responder is the one of the HELLO_ACK made last.
ResponderFits ==
  /\ DOMAIN responder = {"manifest", "inner"}
  /\ responder.inner # None =>
       LET r == responder.inner
       IN  /\ {"state", "nonce", "peerNonce"} \subseteq DOMAIN r
           /\ \E a \in Of("hello_ack") : a.nonce = r.nonce /\ a.echo = r.peerNonce

CommitsAnswer == \A c \in Of("commit") : \E a \in Of("hello_ack") : a.nonce = c.echo

\* A COMMIT_ACK was made on completion, for a COMMIT to the HELLO it echoes.
CommitAcksEarned ==
  \A k \in Of("commit_ack") : \E c \in Of("commit"), d \in completed :
     Commits(c, k.echo) /\ d.by = JsAgent /\ d.nonces = <<k.echo, c.echo>>

SessionInv ==
  /\ NoncesDrawn /\ InitiatorFits /\ ResponderFits /\ CommitsAnswer /\ CommitAcksEarned
  /\ LatestHelloCompletes

(***************************************************************************)
(* The sessions of the bindings: steps.                                    *)
(***************************************************************************)

\* Nothing is made before the first call.
LEMMA SessionInitially == BdInit => SessionInv
<1> SUFFICES ASSUME BdInit PROVE SessionInv
  OBVIOUS
<1>1. wire = {} /\ completed = {} /\ initiator.inner = None /\ responder.inner = None
      /\ DOMAIN initiator = {"manifest", "inner"} /\ DOMAIN responder = {"manifest", "inner"}
  BY DEF BdInit, NoSession
<1>2. Of("hello_ack") = {} /\ Of("commit") = {} /\ Of("commit_ack") = {} /\ Drawn(wire) = {}
  BY <1>1 DEF Of, Drawn
<1>3. IsFiniteSet(wire)
  BY <1>1, FS_EmptySet
<1> QED
  BY <1>1, <1>2, <1>3 DEF SessionInv, NoncesDrawn, InitiatorFits, ResponderFits, CommitsAnswer,
     CommitAcksEarned, LatestHelloCompletes

\* The nonces of HELLO and HELLO_ACK are counted, so the next is a new one.
LEMMA NonceDrawn ==
  ASSUME NoncesDrawn, NEW m, m.type \in {"hello", "hello_ack"}, m.nonce \in FreshNonces,
         wire' = wire \cup {m}, m.type = "hello_ack" => \E h \in Of("hello") : m.echo = h.nonce
  PROVE  /\ NoncesDrawn'
         /\ \A a \in Of("hello_ack") : a.nonce # m.nonce /\ a.echo # m.nonce
<1> DEFINE n == Cardinality(Drawn(wire))
<1>1. IsFiniteSet(Drawn(wire))
  BY FS_Subset DEF NoncesDrawn, Drawn
<1>2. n \in Nat
  BY <1>1, FS_CardinalityType
<1>3. m.nonce = n + 1
  BY DEF FreshNonces, Drawn
<1>4. Drawn(wire') = Drawn(wire) \cup {m}
  BY DEF Drawn
<1>5. m \notin Drawn(wire)
  BY <1>2, <1>3 DEF NoncesDrawn
<1>6. Cardinality(Drawn(wire')) = n + 1
  BY <1>1, <1>4, <1>5, FS_AddElement
<1>7. IsFiniteSet(wire')
  BY FS_AddElement DEF NoncesDrawn
<1>8. \A x \in {"hello", "hello_ack"} : Of(x) \subseteq Drawn(wire)
  BY DEF Of, Drawn
<1>9. \A a \in Of("hello_ack") : a.nonce \in Nat /\ a.nonce <= n /\ a.echo \in Nat /\ a.echo <= n
  BY <1>8 DEF NoncesDrawn
<1>10. m.type = "hello_ack" => m.echo \in Nat /\ m.echo <= n
  BY <1>8 DEF NoncesDrawn
<1>11. Of("hello_ack")' = Of("hello_ack") \cup (IF m.type = "hello_ack" THEN {m} ELSE {})
  BY DEF Of
<1>12. \A a \in Of("hello_ack") : a.nonce # m.nonce /\ a.echo # m.nonce
  BY <1>2, <1>3, <1>9
<1>13. \A a, b \in Of("hello_ack")' : a.nonce = b.nonce => a = b
  BY <1>11, <1>12 DEF NoncesDrawn
<1>14. \A x \in Drawn(wire') : x.nonce \in Nat /\ x.nonce <= Cardinality(Drawn(wire'))
  <2>1. \A x \in Drawn(wire) : x.nonce \in Nat /\ x.nonce <= n
    BY DEF NoncesDrawn
  <2> HIDE DEF n
  <2>2. ASSUME NEW x \in Drawn(wire) PROVE x.nonce \in Nat /\ x.nonce <= n + 1
    BY <1>2, <2>1
  <2>3. m.nonce \in Nat /\ m.nonce <= n + 1
    BY <1>2, <1>3
  <2> QED
    BY <1>4, <1>6, <2>2, <2>3
<1>15. \A a \in Of("hello_ack")' : a.echo \in Nat /\ a.echo <= Cardinality(Drawn(wire'))
  BY <1>2, <1>6, <1>9, <1>10, <1>11
<1> QED
  BY <1>7, <1>12, <1>13, <1>14, <1>15 DEF NoncesDrawn

\* The other messages draw none.
LEMMA NoNonceDrawn ==
  ASSUME NoncesDrawn, NEW m, m.type \in {"commit", "commit_ack"}, wire' = wire \cup {m}
  PROVE  NoncesDrawn' /\ Of("hello_ack")' = Of("hello_ack")
<1>1. Drawn(wire') = Drawn(wire)
  BY DEF Drawn
<1>2. Of("hello_ack")' = Of("hello_ack")
  BY DEF Of
<1>3. IsFiniteSet(wire')
  BY FS_AddElement DEF NoncesDrawn
<1> QED
  BY <1>1, <1>2, <1>3 DEF NoncesDrawn

\* A HELLO_ACK with a new nonce was not committed to.
LEMMA CommitsKept ==
  ASSUME CommitsAnswer, NEW S, Of("hello_ack")' = Of("hello_ack") \cup S,
         \A x \in S : \A a \in Of("hello_ack") : a.nonce # x.nonce
  PROVE  \A c \in Of("commit") : \A h : Commits(c, h)' <=> Commits(c, h)
BY DEF CommitsAnswer, Commits

\* A session that is made has not begun, and no call of the other one, nor the
\* clock, matters to it.
LEMMA SessionCalm ==
  ASSUME SessionInv, wire' = wire, completed' = completed, latest' = latest,
         \/ initiator' = initiator
         \/ DOMAIN initiator' = {"manifest", "inner"} /\ initiator'.inner = None
         \/ initiator' = [initiator EXCEPT !.inner.state = "Failed"] /\ initiator.inner # None,
         \/ responder' = responder
         \/ DOMAIN responder' = {"manifest", "inner"} /\ responder'.inner = None
         \/ responder' = [responder EXCEPT !.inner.state = "Failed"] /\ responder.inner # None
  PROVE  SessionInv'
<1>1. \A x : Of(x)' = Of(x)
  BY DEF Of
<1>2. NoncesDrawn' /\ CommitsAnswer' /\ \A c, h : Commits(c, h)' <=> Commits(c, h)
  BY <1>1 DEF SessionInv, NoncesDrawn, CommitsAnswer, Commits
<1>3. CommitAcksEarned'
  BY <1>1, <1>2 DEF SessionInv, CommitAcksEarned
<1>4. LatestHelloCompletes'
  BY DEF SessionInv, LatestHelloCompletes
<1>5. InitiatorFits'
  <2>1. CASE initiator' = initiator
    BY <1>1, <1>2, <2>1 DEF SessionInv, InitiatorFits
  <2>2. CASE DOMAIN initiator' = {"manifest", "inner"} /\ initiator'.inner = None
    BY <2>2 DEF InitiatorFits
  <2>3. CASE initiator' = [initiator EXCEPT !.inner.state = "Failed"] /\ initiator.inner # None
    <3>1. PICK i : i = initiator.inner
      OBVIOUS
    <3>2. DOMAIN initiator = {"manifest", "inner"} /\ {"state", "nonce"} \subseteq DOMAIN i /\ i.nonce = latest
      BY <2>3, <3>1 DEF SessionInv, InitiatorFits
    <3>3. DOMAIN initiator' = {"manifest", "inner"} /\ initiator'.inner = [i EXCEPT !.state = "Failed"]
      BY <2>3, <3>1, <3>2
    <3>4. DOMAIN initiator'.inner = DOMAIN i /\ initiator'.inner.nonce = i.nonce /\ initiator'.inner.state = "Failed"
      BY <3>2, <3>3
    <3> QED
      BY <3>2, <3>3, <3>4 DEF InitiatorFits
  <2> QED
    BY <2>1, <2>2, <2>3
<1>6. ResponderFits'
  <2>1. CASE responder' = responder
    BY <1>1, <2>1 DEF SessionInv, ResponderFits
  <2>2. CASE DOMAIN responder' = {"manifest", "inner"} /\ responder'.inner = None
    BY <2>2 DEF ResponderFits
  <2>3. CASE responder' = [responder EXCEPT !.inner.state = "Failed"] /\ responder.inner # None
    <3>1. PICK r : r = responder.inner
      OBVIOUS
    <3>2. DOMAIN responder = {"manifest", "inner"} /\ {"state", "nonce", "peerNonce"} \subseteq DOMAIN r
          /\ \E a \in Of("hello_ack") : a.nonce = r.nonce /\ a.echo = r.peerNonce
      BY <2>3, <3>1 DEF SessionInv, ResponderFits
    <3>3. DOMAIN responder' = {"manifest", "inner"} /\ responder'.inner = [r EXCEPT !.state = "Failed"]
      BY <2>3, <3>1, <3>2
    <3>4. /\ DOMAIN responder'.inner = DOMAIN r /\ responder'.inner.nonce = r.nonce
          /\ responder'.inner.peerNonce = r.peerNonce
      BY <3>2, <3>3
    <3> QED
      BY <1>1, <3>2, <3>3, <3>4 DEF ResponderFits
  <2> QED
    BY <2>1, <2>2, <2>3
<1> QED
  BY <1>2, <1>3, <1>4, <1>5, <1>6 DEF SessionInv

\* build_hello draws a nonce that nothing has answered.
LEMMA BuildHelloKeeps ==
  ASSUME SessionInv, NEW p, NEW q, NEW minter, NEW n \in FreshNonces, BuildHello(p, q, minter, n)
  PROVE  SessionInv'
<1>1. PICK m : m = [type |-> "hello", manifest |-> initiator.manifest, to |-> p.aid, nonce |-> n, requested |-> q]
  OBVIOUS
<1>2. m.type = "hello" /\ m.nonce = n /\ wire' = wire \cup {m}
  BY <1>1 DEF BuildHello
<1>3. completed' = completed /\ responder' = responder /\ latest' = n
  BY DEF BuildHello
<1>4. \A x \in {"hello_ack", "commit", "commit_ack"} : Of(x)' = Of(x)
  BY <1>2 DEF Of
<1>5. NoncesDrawn' /\ \A a \in Of("hello_ack") : a.echo # n
  BY <1>2, NonceDrawn DEF SessionInv
<1>6. \A c, h : Commits(c, h)' <=> Commits(c, h)
  BY <1>4 DEF Commits
<1>7. InitiatorFits'
  <2>1. PICK i : i = [state |-> "AwaitingHelloAck", nonce |-> n, peer |-> p.aid]
    OBVIOUS
  <2>2. DOMAIN initiator' = {"manifest", "inner"} /\ initiator'.inner = i
    BY <2>1 DEF BuildHello, SessionInv, InitiatorFits
  <2>3. {"state", "nonce"} \subseteq DOMAIN i /\ i.state = "AwaitingHelloAck" /\ i.nonce = n
    BY <2>1
  <2>4. \A c \in Of("commit") : ~Commits(c, n)
    BY <1>5 DEF Commits
  <2> QED
    BY <1>3, <1>4, <1>6, <2>2, <2>3, <2>4 DEF InitiatorFits
<1>8. ResponderFits' /\ CommitsAnswer'
  BY <1>3, <1>4 DEF SessionInv, ResponderFits, CommitsAnswer
<1>9. CommitAcksEarned' /\ LatestHelloCompletes'
  BY <1>3, <1>4, <1>6 DEF SessionInv, CommitAcksEarned, LatestHelloCompletes
<1> QED
  BY <1>5, <1>7, <1>8, <1>9 DEF SessionInv

\* process_hello draws a nonce that nothing was committed to.
LEMMA ProcessHelloKeeps ==
  ASSUME SessionInv, NEW h \in Of("hello"), NEW minter, NEW n \in FreshNonces, ProcessHello(h, minter, n)
  PROVE  SessionInv'
<1>1. PICK m : m = [type |-> "hello_ack", manifest |-> responder.manifest, to |-> h.manifest.aid,
                    nonce |-> n, echo |-> h.nonce, requested |-> Offers(h.manifest)]
  OBVIOUS
<1>2. m.type = "hello_ack" /\ m.nonce = n /\ m.echo = h.nonce /\ wire' = wire \cup {m}
  BY <1>1 DEF ProcessHello
<1>3. completed' = completed /\ initiator' = initiator /\ latest' = latest
  BY DEF ProcessHello
<1>4. \A x \in {"commit", "commit_ack"} : Of(x)' = Of(x)
  BY <1>2 DEF Of
<1>5. Of("hello_ack")' = Of("hello_ack") \cup {m}
  BY <1>2 DEF Of
<1>6. NoncesDrawn' /\ \A a \in Of("hello_ack") : a.nonce # n
  BY <1>2, NonceDrawn DEF SessionInv
<1>7. \A c \in Of("commit") : \A x : Commits(c, x)' <=> Commits(c, x)
  BY <1>2, <1>5, <1>6, CommitsKept DEF SessionInv
<1>8. InitiatorFits'
  BY <1>3, <1>4, <1>7 DEF SessionInv, InitiatorFits
<1>9. ResponderFits'
  <2>1. PICK r : r = Inner("AwaitingCommit", n, h)
    OBVIOUS
  <2>2. DOMAIN responder' = {"manifest", "inner"} /\ responder'.inner = r
    BY <2>1 DEF ProcessHello, SessionInv, ResponderFits
  <2>3. {"state", "nonce", "peerNonce"} \subseteq DOMAIN r /\ r.nonce = n /\ r.peerNonce = h.nonce
    BY <2>1 DEF Inner
  <2> QED
    BY <1>2, <1>5, <2>2, <2>3 DEF ResponderFits
<1>10. CommitsAnswer'
  BY <1>4, <1>5 DEF SessionInv, CommitsAnswer
<1>11. CommitAcksEarned' /\ LatestHelloCompletes'
  BY <1>3, <1>4, <1>7 DEF SessionInv, CommitAcksEarned, LatestHelloCompletes
<1> QED
  BY <1>6, <1>8, <1>9, <1>10, <1>11 DEF SessionInv

\* process_hello_ack commits to one answer only.
LEMMA ProcessHelloAckKeeps ==
  ASSUME SessionInv, NEW m \in Of("hello_ack"), NEW j, ProcessHelloAck(m, j)
  PROVE  SessionInv'
<1>1. PICK i : i = initiator.inner
  OBVIOUS
<1>2. /\ i # None /\ i.state = "AwaitingHelloAck"
      /\ UNCHANGED <<responder, latest, completed>>
  BY <1>1 DEF ProcessHelloAck
<1>3. CASE initiator' = [initiator EXCEPT !.inner.state = "Failed"] /\ UNCHANGED wire
  BY <1>1, <1>2, <1>3, SessionCalm
<1>4. ASSUME NEW t, m.echo = i.nonce,
             initiator' = [initiator EXCEPT !.inner = Inner("AwaitingCommitAck", i.nonce, m)],
             wire' = wire \cup {[type |-> "commit", from |-> PyAgent, echo |-> m.nonce,
                                 pop |-> m.nonce, tct |-> t]}
      PROVE  SessionInv'
  <2>1. PICK c : c = [type |-> "commit", from |-> PyAgent, echo |-> m.nonce, pop |-> m.nonce, tct |-> t]
    OBVIOUS
  <2>2. c.type = "commit" /\ c.echo = m.nonce /\ wire' = wire \cup {c}
    BY <1>4, <2>1
  <2>3. NoncesDrawn' /\ Of("hello_ack")' = Of("hello_ack")
    BY <2>2, NoNonceDrawn DEF SessionInv
  <2>4. Of("commit")' = Of("commit") \cup {c} /\ Of("commit_ack")' = Of("commit_ack")
    BY <2>2 DEF Of
  <2>5. \A x, h : Commits(x, h)' <=> Commits(x, h)
    BY <2>3 DEF Commits
  <2>6. InitiatorFits'
    <3>1. PICK k : k = Inner("AwaitingCommitAck", i.nonce, m)
      OBVIOUS
    <3>2. DOMAIN initiator' = {"manifest", "inner"} /\ initiator'.inner = k
      BY <1>4, <3>1 DEF SessionInv, InitiatorFits
    <3>3. /\ {"state", "nonce"} \subseteq DOMAIN k /\ k.state = "AwaitingCommitAck"
          /\ k.nonce = i.nonce /\ k.peerNonce = m.nonce
      BY <3>1 DEF Inner
    <3>4. i.nonce = latest /\ \A x \in Of("commit") : ~Commits(x, i.nonce)
      BY <1>1, <1>2 DEF SessionInv, InitiatorFits
    <3>5. \A x \in Of("commit")' : Commits(x, k.nonce)' => x.echo = k.peerNonce
      BY <2>2, <2>4, <2>5, <3>3, <3>4
    <3> QED
      BY <1>2, <3>2, <3>3, <3>4, <3>5 DEF InitiatorFits
  <2>7. ResponderFits' /\ CommitsAnswer'
    <3>1. ResponderFits'
      BY <1>2, <2>3 DEF SessionInv, ResponderFits
    <3>2. \A x \in Of("commit") : \E a \in Of("hello_ack") : a.nonce = x.echo
      BY DEF SessionInv, CommitsAnswer
    <3>3. \E a \in Of("hello_ack") : a.nonce = c.echo
      BY <2>2
    <3>4. \A x \in Of("commit")' : \E a \in Of("hello_ack")' : a.nonce = x.echo
      BY <2>3, <2>4, <3>2, <3>3
    <3> QED
      BY <3>1, <3>4 DEF CommitsAnswer
  <2>8. CommitAcksEarned'
    <3>1. \A k \in Of("commit_ack") : \E x \in Of("commit"), d \in completed :
             Commits(x, k.echo) /\ d.by = JsAgent /\ d.nonces = <<k.echo, x.echo>>
      BY DEF SessionInv, CommitAcksEarned
    <3>2. \A k \in Of("commit_ack")' : \E x \in Of("commit")', d \in completed' :
             Commits(x, k.echo)' /\ d.by = JsAgent /\ d.nonces = <<k.echo, x.echo>>
      BY <1>2, <2>4, <2>5, <3>1
    <3> QED
      BY <3>2 DEF CommitAcksEarned
  <2>9. LatestHelloCompletes'
    BY <1>2 DEF SessionInv, LatestHelloCompletes
  <2> QED
    BY <2>3, <2>6, <2>7, <2>8, <2>9 DEF SessionInv
<1> QED
  BY <1>1, <1>3, <1>4 DEF ProcessHelloAck

\* complete takes an answer to the only COMMIT, so the responder completed the
\* handshake with that very HELLO_ACK.
LEMMA CompleteKeeps ==
  ASSUME SessionInv, NEW m \in Of("commit_ack"), NEW withdrawn, NEW mode, Complete(m, withdrawn, mode)
  PROVE  SessionInv'
<1>1. PICK i : i = initiator.inner
  OBVIOUS
<1>2. /\ i # None /\ i.state = "AwaitingCommitAck"
      /\ UNCHANGED <<responder, latest, wire>>
  BY <1>1 DEF Complete
<1>3. CASE initiator' = [initiator EXCEPT !.inner.state = "Failed"] /\ UNCHANGED completed
  BY <1>1, <1>2, <1>3, SessionCalm
<1>4. CASE /\ m.echo = i.nonce /\ initiator' = [initiator EXCEPT !.inner.state = "Done"]
           /\ completed' = completed \cup
                {[by |-> PyAgent, nonces |-> <<i.nonce, i.peerNonce>>, latest |-> latest]}
  <2>1. PICK d : d = [by |-> PyAgent, nonces |-> <<i.nonce, i.peerNonce>>, latest |-> latest]
    OBVIOUS
  <2>2. /\ d.by = PyAgent /\ d.nonces = <<i.nonce, i.peerNonce>> /\ d.latest = latest
        /\ completed' = completed \cup {d}
    BY <1>4, <2>1
  <2>3. \A x : Of(x)' = Of(x)
    BY <1>2 DEF Of
  <2>4. \A c, h : Commits(c, h)' <=> Commits(c, h)
    BY <2>3 DEF Commits
  <2>5. /\ DOMAIN initiator = {"manifest", "inner"} /\ {"state", "nonce"} \subseteq DOMAIN i
        /\ i.nonce = latest /\ \A c \in Of("commit") : Commits(c, i.nonce) => c.echo = i.peerNonce
    BY <1>1, <1>2 DEF SessionInv, InitiatorFits
  <2>6. InitiatorFits'
    <3>1. DOMAIN initiator' = {"manifest", "inner"} /\ initiator'.inner = [i EXCEPT !.state = "Done"]
      BY <1>1, <1>4, <2>5
    <3>2. DOMAIN initiator'.inner = DOMAIN i /\ initiator'.inner.nonce = i.nonce /\ initiator'.inner.state = "Done"
      BY <2>5, <3>1
    <3> QED
      BY <1>2, <2>5, <3>1, <3>2 DEF InitiatorFits
  <2>7. NoncesDrawn' /\ CommitsAnswer' /\ ResponderFits'
    BY <1>2, <2>3 DEF SessionInv, NoncesDrawn, CommitsAnswer, ResponderFits
  <2>8. CommitAcksEarned'
    BY <2>2, <2>3, <2>4 DEF SessionInv, CommitAcksEarned
  <2>9. \E e \in completed : e.by = JsAgent /\ e.nonces = <<i.nonce, i.peerNonce>>
    <3>1. PICK c \in Of("commit"), e \in completed :
             Commits(c, m.echo) /\ e.by = JsAgent /\ e.nonces = <<m.echo, c.echo>>
      BY DEF SessionInv, CommitAcksEarned
    <3> QED
      BY <1>4, <2>5, <3>1
  <2>10. (<<i.nonce, i.peerNonce>>)[1] = i.nonce
    OBVIOUS
  <2>11. LatestHelloCompletes'
    BY <2>2, <2>5, <2>9, <2>10 DEF SessionInv, LatestHelloCompletes
  <2> QED
    BY <2>6, <2>7, <2>8, <2>11 DEF SessionInv
<1> QED
  BY <1>1, <1>3, <1>4 DEF Complete

\* process_commit takes the COMMIT to the HELLO_ACK its Responder sent.
LEMMA ProcessCommitKeeps ==
  ASSUME SessionInv, NEW m \in Of("commit"), NEW withdrawn, NEW mode, NEW j,
         ProcessCommit(m, withdrawn, mode, j)
  PROVE  SessionInv'
<1>1. PICK r : r = responder.inner
  OBVIOUS
<1>2. r # None /\ UNCHANGED <<initiator, latest>>
  BY <1>1 DEF ProcessCommit
<1>3. CASE responder' = [responder EXCEPT !.inner.state = "Failed"] /\ UNCHANGED <<wire, completed>>
  BY <1>1, <1>2, <1>3, SessionCalm
<1>4. ASSUME NEW t, m.echo = r.nonce, responder' = [responder EXCEPT !.inner.state = "Done"],
             wire' = wire \cup {[type |-> "commit_ack", from |-> JsAgent, echo |-> r.peerNonce,
                                 pop |-> r.peerNonce, tct |-> t]},
             completed' = completed \cup
               {[by |-> JsAgent, nonces |-> <<r.peerNonce, r.nonce>>, latest |-> latest]}
      PROVE  SessionInv'
  <2>1. PICK d, k : /\ d = [by |-> JsAgent, nonces |-> <<r.peerNonce, r.nonce>>, latest |-> latest]
                    /\ k = [type |-> "commit_ack", from |-> JsAgent, echo |-> r.peerNonce,
                            pop |-> r.peerNonce, tct |-> t]
    OBVIOUS
  <2>2. /\ d.by = JsAgent /\ d.nonces = <<r.peerNonce, r.nonce>> /\ completed' = completed \cup {d}
        /\ k.type = "commit_ack" /\ k.echo = r.peerNonce /\ wire' = wire \cup {k}
    BY <1>4, <2>1
  <2>3. NoncesDrawn' /\ Of("hello_ack")' = Of("hello_ack")
    BY <2>2, NoNonceDrawn DEF SessionInv
  <2>4. Of("commit")' = Of("commit") /\ Of("commit_ack")' = Of("commit_ack") \cup {k}
    BY <2>2 DEF Of
  <2>5. \A x, h : Commits(x, h)' <=> Commits(x, h)
    BY <2>3 DEF Commits
  <2>6. /\ DOMAIN responder = {"manifest", "inner"} /\ {"state", "nonce", "peerNonce"} \subseteq DOMAIN r
        /\ \E a \in Of("hello_ack") : a.nonce = r.nonce /\ a.echo = r.peerNonce
    BY <1>1, <1>2 DEF SessionInv, ResponderFits
  <2>7. ResponderFits'
    <3>1. DOMAIN responder' = {"manifest", "inner"} /\ responder'.inner = [r EXCEPT !.state = "Done"]
      BY <1>1, <1>4, <2>6
    <3>2. /\ DOMAIN responder'.inner = DOMAIN r /\ responder'.inner.nonce = r.nonce
          /\ responder'.inner.peerNonce = r.peerNonce
      BY <2>6, <3>1
    <3> QED
      BY <2>3, <2>6, <3>1, <3>2 DEF ResponderFits
  <2>8. InitiatorFits' /\ CommitsAnswer'
    BY <1>2, <2>3, <2>4, <2>5 DEF SessionInv, InitiatorFits, CommitsAnswer
  <2>9. CommitAcksEarned'
    <3>1. Commits(m, k.echo)
      BY <1>4, <2>2, <2>6 DEF Commits
    <3>2. d.nonces = <<k.echo, m.echo>>
      BY <1>4, <2>2
    <3> QED
      BY <2>2, <2>4, <2>5, <3>1, <3>2 DEF SessionInv, CommitAcksEarned
  <2>10. LatestHelloCompletes'
    BY <2>2, BindingsAssumption DEF SessionInv, LatestHelloCompletes
  <2> QED
    BY <2>3, <2>7, <2>8, <2>9, <2>10 DEF SessionInv
<1> QED
  BY <1>1, <1>3, <1>4 DEF ProcessCommit

\* Every call of an application, whatever it hands in.
LEMMA SessionStep == SessionInv /\ [SessionNext \/ StoreNext]_bdVars => SessionInv'
<1> SUFFICES ASSUME SessionInv, [SessionNext \/ StoreNext]_bdVars PROVE SessionInv'
  OBVIOUS
<1>1. ASSUME wire' = wire, completed' = completed, latest' = latest,
             initiator' = initiator, responder' = responder
      PROVE  SessionInv'
  BY <1>1, SessionCalm
<1>2. ASSUME NEW a, NEW ttl, BuildManifest(a, ttl) PROVE SessionInv'
  BY <1>1, <1>2 DEF BuildManifest
<1>3. CASE NewSession
  <2>1. initiator'.inner = None /\ DOMAIN initiator' = {"manifest", "inner"}
    BY <1>3 DEF NewSession
  <2> QED
    BY <1>3, <2>1, SessionCalm DEF NewSession
<1>4. CASE NewResponder
  <2>1. responder'.inner = None /\ DOMAIN responder' = {"manifest", "inner"}
    BY <1>4 DEF NewResponder
  <2> QED
    BY <1>4, <2>1, SessionCalm DEF NewResponder
<1>5. CASE BdTick
  BY <1>1, <1>5 DEF BdTick, ssVars
<1>6. ASSUME NEW c, VerifyTctCached(c) PROVE SessionInv'
  BY <1>1, <1>6 DEF VerifyTctCached, ssVars
<1>7. CASE ClearTcts
  BY <1>1, <1>7 DEF ClearTcts, ssVars
<1>8. CASE UNCHANGED bdVars
  BY <1>1, <1>8 DEF bdVars, ssVars
<1>9. CASE SessionNext
  <2>1. ASSUME NEW n \in FreshNonces, NEW minter,
               BuildHello(manifests[JsAgent], Offers(manifests[JsAgent]), minter, n)
        PROVE  SessionInv'
    BY <2>1, BuildHelloKeeps
  <2>2. ASSUME NEW n \in FreshNonces, NEW minter, NEW m \in Of("hello"), ProcessHello(m, minter, n)
        PROVE  SessionInv'
    BY <2>2, ProcessHelloKeeps
  <2>3. ASSUME NEW j, NEW m \in Of("hello_ack"), ProcessHelloAck(m, j) PROVE SessionInv'
    BY <2>3, ProcessHelloAckKeeps
  <2>4. ASSUME NEW j, NEW m \in Of("commit"), NEW rv, NEW mode, ProcessCommit(m, rv, mode, j)
        PROVE  SessionInv'
    BY <2>4, ProcessCommitKeeps
  <2>5. ASSUME NEW m \in Of("commit_ack"), NEW rv, NEW mode, Complete(m, rv, mode) PROVE SessionInv'
    BY <2>5, CompleteKeeps
  <2> QED
    BY <1>2, <1>3, <1>4, <1>5, <1>9, <2>1, <2>2, <2>3, <2>4, <2>5 DEF SessionNext
<1>10. CASE StoreNext
  BY <1>5, <1>6, <1>7, <1>10 DEF StoreNext
<1> QED
  BY <1>8, <1>9, <1>10

\* The sessions and the messages of both bindings fit together, in whatever
\* order an application makes its calls and hands in the messages.
THEOREM SessionsCorrect == BdSpec => []SessionInv
BY SessionInitially, SessionStep, PTL DEF BdSpec

\* LatestHelloCompletes: what complete() returns belongs to the HELLO made
\* last, and to a handshake that the responder completed with those nonces.
THEOREM LatestCompletes == BdSpec => []LatestHelloCompletes
<1>1. SessionInv => LatestHelloCompletes
  BY DEF SessionInv
<1> QED
  BY <1>1, SessionsCorrect, PTL

(***************************************************************************)
(* The cache of verified tokens: the inductive invariant.                  *)
(***************************************************************************)

\* How a token is verified for its own audience at time n.
OwnContext(t, n) ==
  [issuer |-> t.iss, for |-> t.aud, now |-> n, clock_skew |-> 0, cap |-> None, revocation |-> "check"]

\* An entry says what its token says, which passed at some time.
EntryFits(t) ==
  /\ t \in Tct
  /\ tctStore.map[t] = [grants |-> t.grants, expires_at |-> t.exp, jti |-> t.jti, audience |-> t.aud]
  /\ \E n \in Nat : n <= bnow /\ BeforeRevocation(t, OwnContext(t, n)) = "ok"

CacheInv ==
  /\ bnow \in Nat
  /\ \A t \in DOMAIN tctStore.map : EntryFits(t)
  /\ CacheSound

(***************************************************************************)
(* The cache of verified tokens: steps.                                    *)
(***************************************************************************)

\* A token that passed its own audience at one time passes at a later one, as
\* long as it lives.
LEMMA PassesLater ==
  ASSUME NEW t \in Tct, NEW n \in Nat, NEW now \in Nat, n <= now, now <= t.exp, NEW c,
         BeforeRevocation(t, OwnContext(t, n)) = "ok",
         c.issuer = t.iss, c.for = t.aud, c.now = now, c.clock_skew = 0, c.cap = None
  PROVE  BeforeRevocation(t, c) = "ok"
<1>1. PICK o : o = OwnContext(t, n)
  OBVIOUS
<1>2. o.issuer = t.iss /\ o.for = t.aud /\ o.now = n /\ o.clock_skew = 0 /\ o.cap = None
  BY <1>1 DEF OwnContext
<1>3. /\ AllHold(PeekChecks(t, "tct")) /\ AllHold(SignedChecks(t, t.iss))
      /\ AllHold(ContextChecks(t, t.aud)) /\ AllHold(LifetimeChecks(t, o)) /\ AllHold(LastChecks(t))
  BY <1>1, <1>2, BeforeMeans
<1>4. t.iat <= n + 0
  BY <1>2, <1>3, LifetimeMeans
<1>5. t.iat \in Nat /\ t.exp \in Nat
  BY DEF Tct
<1>6. t.exp >= now - 0 /\ t.iat <= now + 0
  BY <1>4, <1>5
<1>7. AllHold(LifetimeChecks(t, c))
  BY <1>6, LifetimeMeans
<1> QED
  BY <1>3, <1>7, BeforeMeans

\* What passed for some audience passed for its own.
LEMMA PassesOwn ==
  ASSUME NEW t, NEW n, NEW c, BeforeRevocation(t, c) = "ok",
         c.issuer = t.iss, c.now = n, c.clock_skew = 0, c.cap = None
  PROVE  t.aud = c.for /\ BeforeRevocation(t, OwnContext(t, n)) = "ok"
<1>1. PICK o : o = OwnContext(t, n)
  OBVIOUS
<1>2. o.issuer = t.iss /\ o.for = t.aud /\ o.now = n /\ o.clock_skew = 0 /\ o.cap = None
  BY <1>1 DEF OwnContext
<1>3. /\ AllHold(PeekChecks(t, "tct")) /\ AllHold(SignedChecks(t, c.issuer))
      /\ AllHold(ContextChecks(t, c.for)) /\ AllHold(LifetimeChecks(t, c)) /\ AllHold(LastChecks(t))
  BY BeforeMeans
<1>4. t.aud = c.for
  BY <1>3, AudienceMeans
<1>5. AllHold(LifetimeChecks(t, o))
  BY <1>2, <1>3, LifetimeMeans
<1> QED
  BY <1>1, <1>2, <1>3, <1>4, <1>5, BeforeMeans

\* apply_revocation: an answer "clear" refuses nothing.
LEMMA ClearPasses ==
  ASSUME NEW source, source # "self_attestation", NEW grants
  PROVE  ApplyRevocation(source, Answer("clear"), grants).verdict = "ok"
<1>1. PICK status : status = Answer("clear")
  OBVIOUS
<1>2. status.kind = "clear"
  BY <1>1 DEF Answer
<1>3. PICK left : ApplyRevocation(source, status, grants).verdict = Verdict(<<
        <<source # "self_attestation", "RevocationUnavailable">>,
        <<source = "fail_open" \/ status.kind # "unavailable", "RevocationUnavailable">>,
        <<source = "fail_open" \/ status.kind # "revoked", "Revoked">>,
        <<left # {} \/ status.kind # "soft", "SafeSubsetEmpty">> >>)
  BY DEF ApplyRevocation
<1> DEFINE a == <<source # "self_attestation", "RevocationUnavailable">>
           b == <<source = "fail_open" \/ status.kind # "unavailable", "RevocationUnavailable">>
           c == <<source = "fail_open" \/ status.kind # "revoked", "Revoked">>
           d == <<left # {} \/ status.kind # "soft", "SafeSubsetEmpty">>
<1>4. a[1] /\ b[1] /\ c[1] /\ d[1]
  BY <1>2, ConditionIs
<1> HIDE DEF a, b, c, d
<1>5. PICK S : S = <<a, b, c, d>>
  OBVIOUS
<1>6. DOMAIN S = 1..4 /\ S[1] = a /\ S[2] = b /\ S[3] = c /\ S[4] = d
  BY <1>5
<1>7. {k \in DOMAIN S : ~S[k][1]} = {}
  BY <1>4, <1>6
<1>8. Verdict(S) = "ok"
  BY <1>7 DEF Verdict
<1> QED
  BY <1>1, <1>3, <1>5, <1>8 DEF a, b, c, d

\* verify_tct_with, when it succeeds.
LEMMA WithPassed ==
  ASSUME NEW c, NEW n, VerifyTctWith(c, n)
  PROVE  c.token.aud = Audience(c) /\ BeforeRevocation(c.token, OwnContext(c.token, n)) = "ok"
<1>1. PICK t, x, s :
        /\ t = c.token /\ s = JtiStatus(c.revoked, c.mode, t.jti)
        /\ x = [issuer |-> t.iss, for |-> Audience(c), now |-> n, clock_skew |-> 0, cap |-> None,
                revocation |-> BindingSource(c.revoked, c.mode)]
  OBVIOUS
<1>2. VerifyTctWith(c, n) <=> VerifyTct(t, x, s).verdict = "ok" /\ c.grant \in t.grants
  BY <1>1 DEF VerifyTctWith
<1>3. /\ x.issuer = t.iss /\ x.for = Audience(c) /\ x.now = n /\ x.clock_skew = 0 /\ x.cap = None
      /\ x.revocation \in {"fail_open", "check"}
  BY <1>1 DEF BindingSource
<1>4. BeforeRevocation(t, x) = "ok"
  BY <1>2 DEF VerifyTct
<1> QED
  BY <1>1, <1>3, <1>4, PassesOwn

\* verify_tct_with succeeds on a token that passed before, while it lives and
\* is not on the list.
LEMMA WithPasses ==
  ASSUME NEW c, NEW n \in Nat, c.token \in Tct, n <= c.token.exp, NEW m \in Nat, m <= n,
         BeforeRevocation(c.token, OwnContext(c.token, m)) = "ok",
         c.token.aud = Audience(c), c.grant \in c.token.grants,
         JtiStatus(c.revoked, c.mode, c.token.jti) = Answer("clear")
  PROVE  VerifyTctWith(c, n)
<1>1. PICK t, x, s :
        /\ t = c.token /\ s = JtiStatus(c.revoked, c.mode, t.jti)
        /\ x = [issuer |-> t.iss, for |-> Audience(c), now |-> n, clock_skew |-> 0, cap |-> None,
                revocation |-> BindingSource(c.revoked, c.mode)]
  OBVIOUS
<1>2. VerifyTctWith(c, n) <=> VerifyTct(t, x, s).verdict = "ok" /\ c.grant \in t.grants
  BY <1>1 DEF VerifyTctWith
<1>3. /\ x.issuer = t.iss /\ x.for = Audience(c) /\ x.now = n /\ x.clock_skew = 0 /\ x.cap = None
      /\ x.revocation \in {"fail_open", "check"}
  BY <1>1 DEF BindingSource
<1>4. BeforeRevocation(t, x) = "ok"
  BY <1>1, <1>3, PassesLater
<1>5. VerifyTct(t, x, s) = ApplyRevocation(x.revocation, s, t.grants)
  BY <1>3, <1>4 DEF VerifyTct, CheckRevocation
<1>6. ApplyRevocation(x.revocation, s, t.grants).verdict = "ok"
  BY <1>1, <1>3, ClearPasses
<1> QED
  BY <1>1, <1>2, <1>5, <1>6

\* The store is empty at first.
LEMMA CacheInitially == BdInit => CacheInv
<1> SUFFICES ASSUME BdInit PROVE CacheInv
  OBVIOUS
<1>1. DOMAIN tctStore.map = {} /\ tctCall = None /\ bnow = 1
  BY DEF BdInit
<1> QED
  BY <1>1 DEF CacheInv, CacheSound

\* A step that adds no entry and answers no call.
LEMMA CacheCalm ==
  ASSUME CacheInv, bnow' \in Nat, bnow <= bnow', tctCall' = tctCall,
         tctStore' = tctStore \/ DOMAIN tctStore'.map = {}
  PROVE  CacheInv'
<1>1. CacheSound'
  BY DEF CacheInv, CacheSound
<1>2. ASSUME NEW t \in DOMAIN tctStore'.map PROVE EntryFits(t)'
  <2>1. tctStore' = tctStore /\ EntryFits(t)
    BY <1>2 DEF CacheInv
  <2>2. PICK n \in Nat : n <= bnow /\ BeforeRevocation(t, OwnContext(t, n)) = "ok"
    BY <2>1 DEF EntryFits
  <2>3. n <= bnow'
    BY <2>2 DEF CacheInv
  <2> QED
    BY <2>1, <2>2, <2>3 DEF EntryFits
<1> QED
  BY <1>1, <1>2 DEF CacheInv

\* What TctStore::insert leaves: entries it had, and the new one.
LEMMA InsertedEntry ==
  ASSUME NEW t, NEW x \in DOMAIN InsertTct(t).map
  PROVE  \/ /\ x = t
            /\ InsertTct(t).map[x] =
                 [grants |-> t.grants, expires_at |-> t.exp, jti |-> t.jti, audience |-> t.aud]
         \/ x \in DOMAIN tctStore.map /\ InsertTct(t).map[x] = tctStore.map[x]
<1>1. PICK e : e = [grants |-> t.grants, expires_at |-> t.exp, jti |-> t.jti, audience |-> t.aud]
  OBVIOUS
<1>2. PICK map : map = [y \in DOMAIN tctStore.map \cup {t} |-> IF y = t THEN e ELSE tctStore.map[y]]
  OBVIOUS
<1>3. \/ InsertTct(t).map = map
      \/ \E gone : InsertTct(t).map = [y \in DOMAIN map \ gone |-> map[y]]
  BY <1>1, <1>2 DEF InsertTct
<1>4. x \in DOMAIN map /\ InsertTct(t).map[x] = map[x]
  BY <1>3
<1> QED
  BY <1>1, <1>2, <1>4

\* verify_tct_cached_inner answers from the store what a fresh look would.
LEMMA VerifyCachedKeeps ==
  ASSUME CacheInv, NEW c, c.token \in Tct, VerifyTctCached(c)
  PROVE  CacheInv'
<1>1. bnow' = bnow /\ bnow \in Nat
  BY DEF VerifyTctCached, CacheInv
<1>2. VerifyTctWith(c, bnow)
  <2>1. CASE CacheHit(c)
    <3>1. PICK t, e : t = c.token /\ e = tctStore.map[t]
      OBVIOUS
    <3>2. /\ t \in DOMAIN tctStore.map /\ JtiStatus(c.revoked, c.mode, e.jti) = Answer("clear")
          /\ e.audience = Audience(c) /\ e.expires_at > bnow /\ c.grant \in e.grants
      BY <2>1, <3>1 DEF CacheHit
    <3>3. EntryFits(t)
      BY <3>2 DEF CacheInv
    <3>4. e = [grants |-> t.grants, expires_at |-> t.exp, jti |-> t.jti, audience |-> t.aud]
      BY <3>1, <3>3 DEF EntryFits
    <3>5. /\ JtiStatus(c.revoked, c.mode, t.jti) = Answer("clear")
          /\ t.aud = Audience(c) /\ t.exp > bnow /\ c.grant \in t.grants
      BY <3>2, <3>4
    <3>6. t \in Tct /\ t.exp \in Nat /\ bnow <= t.exp
      BY <1>1, <3>3, <3>5 DEF EntryFits, Tct
    <3>7. PICK m \in Nat : m <= bnow /\ BeforeRevocation(t, OwnContext(t, m)) = "ok"
      BY <3>3 DEF EntryFits
    <3> QED
      BY <1>1, <3>1, <3>5, <3>6, <3>7, WithPasses
  <2>2. CASE ~CacheHit(c)
    BY <2>2 DEF VerifyTctCached
  <2> QED
    BY <2>1, <2>2
<1>3. CacheSound'
  <2>1. CASE tctCall' = None
    BY <2>1 DEF CacheSound
  <2>2. CASE tctCall' # None
    <3>1. FinishPop(c, bnow) /\ tctCall' = [call |-> c, now |-> bnow]
      BY <2>2 DEF VerifyTctCached
    <3>2. tctCall'.call = c /\ tctCall'.now = bnow
      BY <3>1
    <3> QED
      BY <1>2, <3>1, <3>2 DEF CacheSound
  <2> QED
    BY <2>1, <2>2
<1>4. \A t \in DOMAIN tctStore.map : EntryFits(t)
  BY DEF CacheInv
<1>5. ASSUME NEW x \in DOMAIN tctStore'.map PROVE EntryFits(x)'
  <2>1. CASE tctStore' = tctStore
    BY <1>1, <1>4, <1>5, <2>1 DEF EntryFits
  <2>2. CASE tctStore' = InsertTct(c.token)
    <3>1. PICK t : t = c.token
      OBVIOUS
    <3>2. x \in DOMAIN InsertTct(t).map
      BY <1>5, <2>2, <3>1
    <3>3. CASE x = t /\ InsertTct(t).map[x] =
                 [grants |-> t.grants, expires_at |-> t.exp, jti |-> t.jti, audience |-> t.aud]
      <4>1. BeforeRevocation(t, OwnContext(t, bnow)) = "ok"
        BY <1>2, <3>1, WithPassed
      <4> QED
        BY <1>1, <2>2, <3>1, <3>3, <4>1 DEF EntryFits
    <3>4. CASE x \in DOMAIN tctStore.map /\ InsertTct(t).map[x] = tctStore.map[x]
      BY <1>1, <1>4, <2>2, <3>1, <3>4 DEF EntryFits
    <3> QED
      BY <3>2, <3>3, <3>4, InsertedEntry
  <2> QED
    BY <2>1, <2>2 DEF VerifyTctCached
<1> QED
  BY <1>1, <1>3, <1>5 DEF CacheInv

\* Every call of an application; those of the sessions leave the store alone.
LEMMA CacheStep == CacheInv /\ [SessionNext \/ StoreNext]_bdVars => CacheInv'
<1> SUFFICES ASSUME CacheInv, [SessionNext \/ StoreNext]_bdVars PROVE CacheInv'
  OBVIOUS
<1>1. bnow \in Nat
  BY DEF CacheInv
<1>2. CASE BdTick
  <2>1. bnow' = bnow + 1 /\ tctCall' = tctCall /\ tctStore' = tctStore
    BY <1>2 DEF BdTick, tsVars
  <2> QED
    BY <1>1, <2>1, CacheCalm
<1>3. CASE UNCHANGED <<bnow, tctStore, tctCall>>
  BY <1>1, <1>3, CacheCalm
<1>4. CASE ClearTcts
  <2>1. bnow' = bnow /\ tctCall' = tctCall /\ DOMAIN tctStore'.map = {}
    BY <1>4 DEF ClearTcts
  <2> QED
    BY <1>1, <2>1, CacheCalm
<1>5. ASSUME NEW c \in TctCalls, VerifyTctCached(c) PROVE CacheInv'
  <2>1. c.token \in PresentedTokens
    BY DEF TctCalls
  <2>2. c.token \in Tct
    BY <2>1, BindingsAssumption
  <2> QED
    BY <1>5, <2>2, VerifyCachedKeeps
<1>6. SessionNext => BdTick \/ UNCHANGED <<bnow, tctStore, tctCall>>
  BY DEF SessionNext, BuildManifest, NewSession, NewResponder, BuildHello, ProcessHello,
     ProcessHelloAck, ProcessCommit, Complete, tsVars
<1>7. CASE UNCHANGED bdVars
  BY <1>3, <1>7 DEF bdVars, tsVars
<1> QED
  BY <1>2, <1>3, <1>4, <1>5, <1>6, <1>7 DEF StoreNext

\* Every entry of the store passed once, and no longer than its token lives.
THEOREM CacheCorrect == BdSpec => []CacheInv
BY CacheInitially, CacheStep, PTL DEF BdSpec

\* CacheSound, for any capacity and whatever was stored before: a cached answer
\* is the one verifyTct would give at that moment.
THEOREM CacheAnswersFresh == BdSpec => []CacheSound
<1>1. CacheInv => CacheSound
  BY DEF CacheInv
<1> QED
  BY <1>1, CacheCorrect, PTL

(***************************************************************************)
(* Connect: the inductive invariant.                                       *)
(***************************************************************************)

\* Where a job stands fits what it has: a manifest that was published and in
\* date when the job got it; from HELLO on the agent of that manifest as its
\* peer, then the key of that peer; and at the end a session of that peer.
Fits(r) ==
  /\ DOMAIN r = DOMAIN NoJob
  /\ r.pc \in {"idle", "attempt", "failed", "fetched", "hello", "commit", "done"}
  /\ r.pc \in {"idle", "attempt", "failed"} => r.manifest = None
  /\ r.pc \in {"fetched", "hello", "commit", "done"} =>
       r.manifest \in Published /\ r.at <= r.manifest.expires_at
  /\ r.pc \in {"hello", "commit"} => r.peer = r.manifest.aid
  /\ r.pc = "commit" => r.peer_pk = r.peer
  /\ r.pc = "done" =>
       /\ r.session.peer_pubkey = r.session.peer_aid /\ r.session.pop = r.session.peer_aid
       /\ r.session.held_tct.iss = r.session.peer_aid /\ r.session.held_tct.signer = r.session.peer_aid
       /\ r.session.held_tct.sub = Me

\* Whichever origin served it, what is cached for an agent it published.
CacheHolds ==
  /\ DOMAIN entries = Agents
  /\ \A a \in Agents : entries[a] # None => entries[a].aid = a /\ entries[a] \in Published

ConnectInv ==
  /\ wall \in Nat
  /\ CacheHolds
  /\ DOMAIN job = Jobs /\ \A j \in Jobs : Fits(job[j])

(***************************************************************************)
(* Connect: manifests and answers.                                         *)
(***************************************************************************)

\* What the builder signed is what the manifest says.
LEMMA ManifestFields ==
  ASSUME NEW a, NEW t, NEW m, m = OfAgent(a, t)
  PROVE  /\ m.aid = a /\ m = [x \in DOMAIN m |-> m[x]]
         /\ {"aid", "signature", "expires_at"} \subseteq DOMAIN m
         /\ m.signature = [by |-> a, over |-> Unsigned(m)]
<1>1. PICK d : d =
        [version |-> PROTOCOL_VERSION, aid |-> a,
         hint |-> [kind |-> "pinned_key", subject |-> "s", issuer |-> None, public_key |-> a],
         handshake_endpoint |-> "https", anchors |-> << >>,
         identity_types |-> <<"pinned_key">>, offered |-> <<"g">>, required |-> None,
         pop |-> [challenge |-> "c", by |-> a, over |-> "c"],
         published_at |-> t, expires_at |-> t + MANIFEST_TTL, signature |-> None]
  OBVIOUS
<1>2. m = [d EXCEPT !.signature = [by |-> a, over |-> Unsigned(d)]]
  BY <1>1 DEF OfAgent, Built, Signed
<1>3. DOMAIN d = {"version", "aid", "hint", "handshake_endpoint", "anchors", "identity_types", "offered",
                  "required", "pop", "published_at", "expires_at", "signature"} /\ d.aid = a
  BY <1>1
<1>4. PICK u : u = Unsigned(d)
  OBVIOUS
<1>5. /\ DOMAIN m = DOMAIN d /\ m = [x \in DOMAIN m |-> m[x]]
      /\ m.signature = [by |-> a, over |-> u] /\ \A x \in DOMAIN d \ {"signature"} : m[x] = d[x]
  BY <1>2, <1>3, <1>4
<1>6. Unsigned(m) = u
  BY <1>4, <1>5 DEF Unsigned
<1>7. m.aid = a
  BY <1>3, <1>5
<1> QED
  BY <1>3, <1>5, <1>6, <1>7

\* verify_manifest: what is signed by the agent it names was published by it.
LEMMA OnlyPublished ==
  ASSUME NEW m \in Published \cup Forged, NEW insecure, VerifyManifest(m, wall, insecure, None) = "ok",
         wall \in Nat
  PROVE  m \in Published /\ m.expires_at >= wall
<1>1. m.expires_at >= wall /\ m.signature.by = m.aid /\ m.signature.over = Unsigned(m)
  <2> DEFINE a == <<m.version = PROTOCOL_VERSION, "VersionUnknown">>
             b == Sub(CheckGrammar(m, insecure, None))
             c == <<m.expires_at >= wall, "Expired">>
             d == <<m.pop.by = m.aid /\ m.pop.over = m.pop.challenge, "PopFailed">>
             e == <<m.signature.by = m.aid /\ m.signature.over = Unsigned(m), "SignatureInvalid">>
  <2>1. Verdict(<<a, b, c, d, e>>) = "ok"
    BY DEF VerifyManifest
  <2>2. Fine(a) /\ Fine(c) /\ Fine(d) /\ Fine(e)
    BY DEF Fine
  <2>3. Fine(b)
    BY SubFine
  <2> HIDE DEF a, b, c, d, e
  <2>4. c[1] /\ e[1]
    BY <2>1, <2>2, <2>3, FiveHold
  <2>5. m.expires_at >= wall
    BY <2>4, ConditionOf DEF c
  <2>6. m.signature.by = m.aid /\ m.signature.over = Unsigned(m)
    BY <2>4, ConditionOf DEF e
  <2> QED
    BY <2>5, <2>6
<1>2. CASE m \in Published
  BY <1>1, <1>2
<1>3. ASSUME NEW p \in Published, m = [p EXCEPT !.expires_at = MaxWall + MANIFEST_TTL]
      PROVE  m \in Published
  <2>1. PICK a \in OtherAgents, t \in 0..wall : p = OfAgent(a, t)
    BY DEF Published
  <2>2. /\ p = [x \in DOMAIN p |-> p[x]] /\ {"aid", "signature", "expires_at"} \subseteq DOMAIN p
        /\ p.signature.over = Unsigned(p)
    <3>1. /\ p = [x \in DOMAIN p |-> p[x]] /\ {"aid", "signature", "expires_at"} \subseteq DOMAIN p
          /\ p.signature = [by |-> a, over |-> Unsigned(p)] /\ p.aid = a
      BY <2>1, ManifestFields
    <3> QED
      BY <3>1
  <2>3. PICK y : y = MaxWall + MANIFEST_TTL
    OBVIOUS
  <2>4. DOMAIN m = DOMAIN p /\ m.signature = p.signature /\ m.expires_at = y
    BY <1>3, <2>2, <2>3
  <2>5. Unsigned(m) = Unsigned(p)
    BY <1>1, <2>2, <2>4
  <2>6. Unsigned(m)["expires_at"] = y /\ Unsigned(p)["expires_at"] = p.expires_at
    BY <2>2, <2>4 DEF Unsigned
  <2>7. m = p
    BY <1>3, <2>2, <2>3, <2>5, <2>6
  <2> QED
    BY <2>7
<1>4. ASSUME NEW p \in Published, NEW a \in OtherAgents, m = Signed(p, a) PROVE m \in Published
  <2>1. PICK q \in OtherAgents, t \in 0..wall : p = OfAgent(q, t)
    BY DEF Published
  <2>2. /\ p = [x \in DOMAIN p |-> p[x]] /\ {"aid", "signature", "expires_at"} \subseteq DOMAIN p
        /\ p.signature = [by |-> q, over |-> Unsigned(p)] /\ p.aid = q
    BY <2>1, ManifestFields
  <2>3. PICK s : s = [by |-> a, over |-> Unsigned(p)]
    OBVIOUS
  <2>4. m = [p EXCEPT !.signature = s]
    BY <1>4, <2>3 DEF Signed
  <2>5. m.aid = p.aid /\ m.signature = s
    BY <2>2, <2>4
  <2>6. a = q
    BY <1>1, <2>2, <2>3, <2>5
  <2>7. m = p
    BY <2>2, <2>3, <2>4, <2>6
  <2> QED
    BY <2>7
<1> QED
  BY <1>1, <1>2, <1>3, <1>4 DEF Forged

\* fetch_attempt: what every check of an answer that passes has found.
LEMMA AttemptHolds ==
  ASSUME NEW p, AttemptVerdict(p) = "ok"
  PROVE  /\ p.arrives = "ok" /\ p.status \in 200..299 /\ p.json_type /\ p.fits
         /\ ~p.doc.duplicate_key /\ p.doc.manifest_key /\ p.doc.members \subseteq MANIFEST_MEMBERS
         /\ VerifyManifest(p.doc.body, wall, INSECURE_LOCALHOST, None) = "ok"
<1>1. PICK arrives, json, parsed, checked :
        /\ arrives = p.arrives /\ json = CheckedJson(p.doc) /\ parsed = ParseManifestWire(p.doc)
        /\ checked = VerifyManifest(p.doc.body, wall, INSECURE_LOCALHOST, None)
  OBVIOUS
<1> DEFINE a == <<arrives = "ok", arrives>>
           b == <<p.status \in 200..299, IF p.status >= 500 THEN "ServerError" ELSE "UpstreamStatus">>
           c == <<p.json_type, "WrongContentType">>
           d == <<p.fits, "OversizedResponse">>
           e == Sub(json)
           f == <<p.doc.manifest_key, "MalformedWrapper">>
           g == Sub(parsed)
           h == Sub(checked)
<1>2. Verdict(<<a, b, c, d, e, f, g, h>>) = "ok"
  BY <1>1 DEF AttemptVerdict
<1>3. a = Sub(arrives)
  BY DEF Sub
<1>4. Fine(a) /\ Fine(e) /\ Fine(g) /\ Fine(h)
  BY <1>3, SubFine
<1>5. Fine(b) /\ Fine(c) /\ Fine(d) /\ Fine(f)
  BY DEF Fine
<1>6. (a[1] => arrives = "ok") /\ (e[1] => json = "ok") /\ (g[1] => parsed = "ok") /\ (h[1] => checked = "ok")
  BY <1>3, SubFine
<1> HIDE DEF a, b, c, d, e, f, g, h
<1>7. a[1] /\ b[1] /\ c[1] /\ d[1] /\ e[1] /\ f[1] /\ g[1] /\ h[1]
  BY <1>2, <1>4, <1>5, EightHold
<1>8. p.status \in 200..299
  BY <1>7, ConditionOf DEF b
<1>9. p.json_type
  BY <1>7, ConditionOf DEF c
<1>10. p.fits
  BY <1>7, ConditionOf DEF d
<1>11. p.doc.manifest_key
  BY <1>7, ConditionOf DEF f
<1>12. ~p.doc.duplicate_key
  BY <1>1, <1>6, <1>7 DEF CheckedJson
<1>13. CheckMembers(p.doc, MANIFEST_MEMBERS)
  <2> DEFINE x == <<~p.doc.wrapped \/ p.doc.wrapper_members = {"manifest"}, "UnknownField">>
             y == <<p.doc.body.version = PROTOCOL_VERSION, "VersionUnknown">>
             z == <<CheckMembers(p.doc, MANIFEST_MEMBERS), "UnknownField">>
             w == <<p.doc.well_typed, "Malformed">>
  <2>1. Verdict(<<x, y, z, w>>) = "ok"
    BY <1>1, <1>6, <1>7 DEF ParseManifestWire
  <2>2. Fine(x) /\ Fine(y) /\ Fine(z) /\ Fine(w)
    BY DEF Fine
  <2> HIDE DEF x, y, z, w
  <2>3. z[1]
    BY <2>1, <2>2, FourHold
  <2> QED
    BY <2>3, ConditionOf DEF z
<1> QED
  BY <1>1, <1>6, <1>7, <1>8, <1>9, <1>10, <1>11, <1>12, <1>13 DEF CheckMembers

\* The builder counts the lifetime from the second it signs in.
LEMMA PublishedExpires ==
  ASSUME NEW m \in Published, wall \in Nat
  PROVE  m.expires_at \in Nat
<1>1. PICK a \in OtherAgents, t \in 0..wall : m = OfAgent(a, t)
  BY DEF Published
<1>2. m.expires_at = t + MANIFEST_TTL
  BY <1>1 DEF OfAgent, Built, Signed
<1> QED
  BY <1>1, <1>2, ConnectAssumption

\* An answer that passes holds a manifest as somebody published it.
LEMMA FetchedPublished ==
  ASSUME NEW p \in Pages, AttemptVerdict(p) = "ok", wall \in Nat
  PROVE  p.doc.body \in Published /\ wall <= p.doc.body.expires_at
<1>1. /\ p.arrives = "ok" /\ p.status \in 200..299 /\ p.json_type /\ p.fits
      /\ ~p.doc.duplicate_key /\ p.doc.manifest_key /\ p.doc.members \subseteq MANIFEST_MEMBERS
      /\ VerifyManifest(p.doc.body, wall, INSECURE_LOCALHOST, None) = "ok"
  BY AttemptHolds
<1>2. \E d \in Docs : p = Page(d)
  <2>1. PICK q : q = Page(CHOOSE d \in Docs : TRUE)
    OBVIOUS
  <2>2. DOMAIN q = {"arrives", "status", "json_type", "fits", "doc"}
    BY <2>1 DEF Page
  <2>3. /\ p # [q EXCEPT !.arrives = "Timeout"] /\ p # [q EXCEPT !.arrives = "Network"]
        /\ p # [q EXCEPT !.status = 404] /\ p # [q EXCEPT !.status = 503]
        /\ p # [q EXCEPT !.json_type = FALSE] /\ p # [q EXCEPT !.fits = FALSE]
    BY <1>1, <2>2
  <2> QED
    BY <2>1, <2>3 DEF Pages
<1>3. PICK d \in Docs : p = Page(d)
  BY <1>2
<1>4. p.doc = d
  BY <1>3 DEF Page
<1>5. \E m \in Published \cup Forged : d = Doc(m)
  <2>1. PICK q : q = Doc(OfAgent(CHOOSE a \in OtherAgents : TRUE, 0))
    OBVIOUS
  <2>2. DOMAIN q = {"json", "duplicate_key", "wrapped", "wrapper_members", "manifest_key", "members",
                    "well_typed", "body"}
    BY <2>1 DEF Doc
  <2>3. "unknown" \notin MANIFEST_MEMBERS
    BY DEF MANIFEST_MEMBERS
  <2>4. d # [q EXCEPT !.duplicate_key = TRUE] /\ d # [q EXCEPT !.manifest_key = FALSE]
    BY <1>1, <1>4, <2>2
  <2>5. d # [q EXCEPT !.members = @ \cup {"unknown"}]
    BY <1>1, <1>4, <2>2, <2>3
  <2> QED
    BY <2>1, <2>4, <2>5 DEF Docs
<1>6. PICK m \in Published \cup Forged : d = Doc(m)
  BY <1>5
<1>7. p.doc.body = m
  BY <1>4, <1>6 DEF Doc
<1>8. m \in Published /\ m.expires_at >= wall
  BY <1>1, <1>7, OnlyPublished
<1>9. m.expires_at \in Nat
  BY <1>8, PublishedExpires
<1> QED
  BY <1>7, <1>8, <1>9

\* on_commit_ack: the answer is the peer's and the token its own, for us.
LEMMA CommitHolds ==
  ASSUME NEW j, NEW r, NEW answer, CommitVerdict(j, r, answer) = "ok"
  PROVE  /\ r.env.payload.pop = job[j].peer_pk
         /\ r.env.payload.tct.iss = job[j].peer /\ r.env.payload.tct.signer = job[j].peer
         /\ r.env.payload.tct.sub = Me
<1>1. PICK ack, ctx, v :
        /\ ack = r.env.payload
        /\ ctx = [issuer |-> job[j].peer, for |-> Me, now |-> wall, clock_skew |-> 0,
                  cap |-> job[j].cap, revocation |-> "check"]
        /\ v = VerifyTct(ack.tct, ctx, answer).verdict
  OBVIOUS
<1> DEFINE a == <<VerifyEnvelopeSignature(r.env, job[j].peer_pk), "Http">>
           b == <<r.env.sender = job[j].peer, "InvalidEnvelope">>
           c == <<ack.pop_nonce_echo = j, "NonceMismatch">>
           d == <<ack.pop = job[j].peer_pk, "PopFailed">>
           e == Sub(v)
<1>2. Verdict(<<a, b, c, d, e>>) = "ok"
  BY <1>1 DEF CommitVerdict
<1>3. Fine(a) /\ Fine(b) /\ Fine(c) /\ Fine(d)
  BY DEF Fine
<1>4. Fine(e) /\ (e[1] => v = "ok")
  BY SubFine
<1> HIDE DEF a, b, c, d, e
<1>5. d[1] /\ v = "ok"
  BY <1>2, <1>3, <1>4, FiveHold
<1>6. ack.pop = job[j].peer_pk
  BY <1>5, ConditionOf DEF d
<1>7. BeforeRevocation(ack.tct, ctx) = "ok" /\ ctx.issuer = job[j].peer /\ ctx.for = Me
  BY <1>1, <1>5 DEF VerifyTct
<1>8. ack.tct.iss = job[j].peer /\ ack.tct.signer = job[j].peer
  BY <1>7, BeforeMeans, SignedMeans
<1>9. ack.tct.aud = Me /\ ack.tct.aud = ack.tct.sub
  BY <1>7, BeforeMeans, AudienceMeans
<1> QED
  BY <1>1, <1>6, <1>8, <1>9

(***************************************************************************)
(* Connect: the steps.                                                     *)
(***************************************************************************)

\* Before the first call there is nothing to fit.
LEMMA ConnectStarts ==
  ASSUME CnInit
  PROVE  ConnectInv
<1>1. Fits(NoJob)
  BY DEF Fits, NoJob
<1>2. DOMAIN job = Jobs /\ \A j \in Jobs : job[j] = NoJob
  BY DEF CnInit
<1>3. CacheHolds
  BY DEF CnInit, CacheHolds
<1> QED
  BY <1>1, <1>2, <1>3 DEF CnInit, ConnectInv

\* A manifest put in the cache of the fetcher is filed under its agent.
LEMMA CacheGrows ==
  ASSUME ConnectInv, NEW m \in Published, InsertCache(m), wall' = wall
  PROVE  CacheHolds'
<1>1. Published' = Published
  BY DEF Published
<1>2. PICK a \in OtherAgents, t \in 0..wall : m = OfAgent(a, t)
  BY DEF Published
<1>3. m.aid \in Agents
  BY <1>2, ManifestFields DEF OtherAgents
<1> QED
  BY <1>1, <1>3 DEF ConnectInv, CacheHolds, InsertCache

\* What a step of one job has to show: that the job it leaves fits.
LEMMA JobMoves ==
  ASSUME ConnectInv, NEW j \in Jobs, NEW r, Become(j, r), Fits(r), wall' = wall, CacheHolds'
  PROVE  ConnectInv'
<1>1. Published' = Published
  BY DEF Published
<1>2. \A q : Fits(q) => Fits(q)'
  BY <1>1 DEF Fits
<1>3. DOMAIN job' = Jobs /\ \A k \in Jobs : job'[k] = IF k = j THEN r ELSE job[k]
  BY DEF Become, ConnectInv
<1>4. ASSUME NEW k \in Jobs PROVE Fits(job[k])'
  <2>1. PICK q : q = job'[k]
    OBVIOUS
  <2>2. Fits(q)
    BY <1>3, <2>1 DEF ConnectInv
  <2>3. Fits(q)'
    BY <1>2, <2>2
  <2> QED
    BY <2>1, <2>3 DEF Fits
<1> QED
  BY <1>3, <1>4 DEF ConnectInv

\* A step that leaves the cache and the clock alone keeps the cached entries.
LEMMA CacheKept ==
  ASSUME ConnectInv, UNCHANGED <<wall, entries>>
  PROVE  CacheHolds'
BY DEF ConnectInv, CacheHolds, Published

\* An error ends a job with nothing in its hands.
LEMMA FailsHolds ==
  ASSUME ConnectInv, NEW j \in Jobs, Fails(j), UNCHANGED <<wall, entries>>
  PROVE  ConnectInv'
<1>1. PICK r : r = [NoJob EXCEPT !.pc = "failed"]
  OBVIOUS
<1>2. Fits(r)
  BY <1>1 DEF Fits, NoJob
<1>3. Become(j, r)
  BY <1>1 DEF Fails
<1> QED
  BY <1>2, <1>3, CacheKept, JobMoves

\* fetch: the address is looked up, and the call fails or comes to its attempts.
LEMMA FetchStep ==
  ASSUME ConnectInv, NEW j \in Jobs, NEW url, NEW dns, Fetch(j, url, dns)
  PROVE  ConnectInv'
<1>1. CASE Fails(j)
  BY <1>1, FailsHolds DEF Fetch
<1>2. CASE Become(j, [NoJob EXCEPT !.pc = "attempt", !.attempt = 1])
  <2>1. PICK r : r = [NoJob EXCEPT !.pc = "attempt", !.attempt = 1]
    OBVIOUS
  <2>2. Fits(r)
    BY <2>1 DEF Fits, NoJob
  <2>3. Become(j, r)
    BY <1>2, <2>1
  <2> QED
    BY <2>2, <2>3, CacheKept, JobMoves DEF Fetch
<1> QED
  BY <1>1, <1>2 DEF Fetch

\* An attempt: what it takes was verified at this reading of the clock.
LEMMA AttemptStep ==
  ASSUME ConnectInv, NEW j \in Jobs, NEW p \in Pages, FetchAttempt(j, p)
  PROVE  ConnectInv'
<1>1. job[j].pc = "attempt" /\ wall' = wall /\ Fits(job[j]) /\ wall \in Nat
  BY DEF FetchAttempt, ConnectInv
<1>2. CASE AttemptVerdict(p) = "ok"
  <2>1. PICK m : m = p.doc.body
    OBVIOUS
  <2>2. m \in Published /\ wall <= m.expires_at
    BY <1>1, <1>2, <2>1, FetchedPublished
  <2>3. PICK r : r = [job[j] EXCEPT !.pc = "fetched", !.manifest = m, !.at = wall]
    OBVIOUS
  <2>4. Fits(r)
    BY <1>1, <2>2, <2>3 DEF Fits, NoJob
  <2>5. Become(j, r)
    BY <1>2, <2>1, <2>3 DEF FetchAttempt
  <2>6. InsertCache(m) \/ UNCHANGED entries
    BY <1>2, <2>1 DEF FetchAttempt
  <2>7. CacheHolds'
    BY <1>1, <2>2, <2>6, CacheGrows, CacheKept
  <2> QED
    BY <1>1, <2>4, <2>5, <2>7, JobMoves
<1>3. CASE AttemptVerdict(p) # "ok"
  <2>1. UNCHANGED entries
    BY <1>3 DEF FetchAttempt
  <2>2. CASE Fails(j)
    BY <1>1, <2>1, <2>2, FailsHolds
  <2>3. ASSUME NEW delay \in JitteredDelayBefore(Policy(j), job[j].attempt + 1),
               Become(j, [job[j] EXCEPT !.attempt = @ + 1, !.wakes = wall + delay])
        PROVE  ConnectInv'
    <3>1. PICK n, w : n = job[j].attempt + 1 /\ w = wall + delay
      OBVIOUS
    <3>2. PICK r : r = [job[j] EXCEPT !.attempt = n, !.wakes = w]
      OBVIOUS
    <3>3. Fits(r)
      BY <1>1, <3>2 DEF Fits, NoJob
    <3>4. Become(j, r)
      BY <2>3, <3>1, <3>2
    <3> QED
      BY <1>1, <2>1, <3>3, <3>4, CacheKept, JobMoves
  <2> QED
    BY <1>3, <2>2, <2>3 DEF FetchAttempt
<1> QED
  BY <1>2, <1>3

\* A cached manifest is used only while it lasts.
LEMMA UseCachedStep ==
  ASSUME ConnectInv, NEW j \in Jobs, NEW a \in OtherAgents, UseCached(j, a)
  PROVE  ConnectInv'
<1>1. PICK m : m = entries[a]
  OBVIOUS
<1>2. a \in Agents /\ wall \in Nat
  BY DEF OtherAgents, ConnectInv
<1>3. CachedManifest(a) = m /\ m # None /\ m.expires_at > wall
  BY <1>1 DEF UseCached, CachedManifest
<1>4. m \in Published
  BY <1>1, <1>2, <1>3 DEF ConnectInv, CacheHolds
<1>5. m.expires_at \in Nat
  BY <1>2, <1>4, PublishedExpires
<1>6. PICK r : r = [NoJob EXCEPT !.pc = "fetched", !.manifest = m, !.at = wall]
  OBVIOUS
<1>7. wall <= m.expires_at
  BY <1>2, <1>3, <1>5
<1>8. Fits(r)
  BY <1>4, <1>6, <1>7 DEF Fits, NoJob
<1>9. Become(j, r) /\ UNCHANGED <<wall, entries>>
  BY <1>3, <1>6 DEF UseCached
<1> QED
  BY <1>8, <1>9, CacheKept, JobMoves

\* A job that is left alone fits while what was published stays so.
LEMMA JobsStay ==
  ASSUME ConnectInv, Published \subseteq Published', UNCHANGED job
  PROVE  (DOMAIN job = Jobs /\ \A k \in Jobs : Fits(job[k]))'
<1>1. \A q : Fits(q) => Fits(q)'
  BY DEF Fits
<1>2. ASSUME NEW k \in Jobs PROVE Fits(job[k])'
  <2>1. PICK q : q = job[k]
    OBVIOUS
  <2>2. Fits(q)'
    BY <1>1, <2>1 DEF ConnectInv
  <2>3. job'[k] = q
    BY <2>1
  <2> QED
    BY <2>2, <2>3 DEF Fits
<1> QED
  BY <1>2 DEF ConnectInv

\* A manifest that a handshake verified replaces an older one in the cache.
LEMMA ReplaceStep ==
  ASSUME ConnectInv, NEW j \in Jobs, job[j].pc = "fetched", ReplaceInline(job[j].manifest)
  PROVE  ConnectInv'
<1>1. PICK m : m = job[j].manifest
  OBVIOUS
<1>2. m \in Published
  BY <1>1 DEF ConnectInv, Fits
<1>3. InsertCache(m) /\ UNCHANGED <<wall, job>>
  BY <1>1 DEF ReplaceInline
<1>4. CacheHolds'
  BY <1>2, <1>3, CacheGrows
<1>5. (DOMAIN job = Jobs /\ \A k \in Jobs : Fits(job[k]))'
  BY <1>3, JobsStay DEF Published
<1> QED
  BY <1>3, <1>4, <1>5 DEF ConnectInv

\* A HELLO goes to the agent of the manifest that was fetched.
LEMMA HelloStep ==
  ASSUME ConnectInv, NEW j \in Jobs, NEW dns, Hello(j, dns)
  PROVE  ConnectInv'
<1>1. job[j].pc = "fetched" /\ UNCHANGED <<wall, entries>> /\ Fits(job[j])
  BY DEF Hello, ConnectInv
<1>2. CASE Fails(j)
  BY <1>1, <1>2, FailsHolds
<1>3. CASE Become(j, [job[j] EXCEPT !.pc = "hello", !.peer = job[j].manifest.aid])
  <2>1. PICK r : r = [job[j] EXCEPT !.pc = "hello", !.peer = job[j].manifest.aid]
    OBVIOUS
  <2>2. Fits(r)
    BY <1>1, <2>1 DEF Fits, NoJob
  <2>3. Become(j, r)
    BY <1>3, <2>1
  <2> QED
    BY <1>1, <2>2, <2>3, CacheKept, JobMoves
<1> QED
  BY <1>2, <1>3 DEF Hello

\* The responder of HELLO_ACK is the agent whose manifest was fetched.
LEMMA HelloAckStep ==
  ASSUME ConnectInv, NEW j \in Jobs, NEW a, OnHelloAck(j, a)
  PROVE  ConnectInv'
<1>1. job[j].pc = "hello" /\ UNCHANGED <<wall, entries>> /\ Fits(job[j])
  BY DEF OnHelloAck, ConnectInv
<1>2. CASE Fails(j)
  BY <1>1, <1>2, FailsHolds
<1>3. CASE ~Fails(j)
  <2>1. PICK pk, c : pk = a.env.sender /\ c = a.env.payload.manifest.expires_at
    OBVIOUS
  <2>2. PICK r : r = [job[j] EXCEPT !.pc = "commit", !.peer_pk = pk, !.cap = c]
    OBVIOUS
  <2>3. Become(j, r) /\ pk = job[j].peer
    BY <1>3, <2>1, <2>2 DEF OnHelloAck, IntendedPeerAnswers
  <2>4. Fits(r)
    BY <1>1, <2>2, <2>3 DEF Fits, NoJob
  <2> QED
    BY <1>1, <2>3, <2>4, CacheKept, JobMoves
<1> QED
  BY <1>2, <1>3

\* The session is of the agent whose manifest was fetched.
LEMMA CommitAckStep ==
  ASSUME ConnectInv, NEW j \in Jobs, NEW a, NEW answer, OnCommitAck(j, a, answer)
  PROVE  ConnectInv'
<1>1. job[j].pc = "commit" /\ UNCHANGED <<wall, entries>> /\ Fits(job[j])
  BY DEF OnCommitAck, ConnectInv
<1>2. CASE CommitVerdict(j, a, answer) # "ok"
  BY <1>1, <1>2, FailsHolds DEF OnCommitAck
<1>3. CASE CommitVerdict(j, a, answer) = "ok"
  <2>1. PICK t, pop : t = a.env.payload.tct /\ pop = a.env.payload.pop
    OBVIOUS
  <2>2. pop = job[j].peer_pk /\ t.iss = job[j].peer /\ t.signer = job[j].peer /\ t.sub = Me
    BY <1>3, <2>1, CommitHolds
  <2>3. PICK s : s = [peer_aid |-> job[j].manifest.aid, peer_pubkey |-> job[j].peer_pk,
                      held_tct |-> t, pop |-> pop]
    OBVIOUS
  <2>4. /\ s.peer_aid = job[j].manifest.aid /\ s.peer_pubkey = job[j].peer_pk
        /\ s.held_tct = t /\ s.pop = pop
    BY <2>3
  <2>5. job[j].peer = job[j].manifest.aid /\ job[j].peer_pk = job[j].peer
    BY <1>1 DEF Fits
  <2>6. PICK r : r = [job[j] EXCEPT !.pc = "done", !.session = s]
    OBVIOUS
  <2>7. Become(j, r)
    BY <1>3, <2>1, <2>3, <2>6 DEF OnCommitAck
  <2>8. DOMAIN r = DOMAIN NoJob /\ r.pc = "done" /\ r.session = s
        /\ r.manifest = job[j].manifest /\ r.at = job[j].at
    BY <1>1, <2>6 DEF Fits, NoJob
  <2>9. r.manifest \in Published /\ r.at <= r.manifest.expires_at
    BY <1>1, <2>8 DEF Fits
  <2>10. Fits(r)
    BY <2>2, <2>4, <2>5, <2>8, <2>9 DEF Fits
  <2> QED
    BY <1>1, <2>7, <2>10, CacheKept, JobMoves
<1> QED
  BY <1>2, <1>3

\* What was published stays so.
LEMMA ConnectTicks ==
  ASSUME ConnectInv, wall' \in {wall, wall + 1}, UNCHANGED <<entries, job>>
  PROVE  ConnectInv'
<1>1. wall' \in Nat /\ 0..wall \subseteq 0..wall'
  BY DEF ConnectInv
<1>2. Published \subseteq Published'
  BY <1>1 DEF Published
<1>3. CacheHolds'
  BY <1>2 DEF ConnectInv, CacheHolds
<1>4. (DOMAIN job = Jobs /\ \A k \in Jobs : Fits(job[k]))'
  BY <1>2, JobsStay
<1> QED
  BY <1>1, <1>3, <1>4 DEF ConnectInv

\* Of ManifestFetcher and run_initiator_handshake: what a job works with was
\* published by the agent it names and in date when the job got it, and from
\* HELLO on the job talks to that agent and keeps that agent's key.
THEOREM ConnectCorrect == CnSpec => []ConnectInv
<1>1. CnInit => ConnectInv
  BY ConnectStarts
<1>2. ConnectInv /\ [CnNext]_cnVars => ConnectInv'
  <2> SUFFICES ASSUME ConnectInv, [CnNext]_cnVars PROVE ConnectInv'
    OBVIOUS
  <2>1. ASSUME NEW j \in Jobs, NEW dns \in Lookups, NEW url \in {"https", "http-localhost", "http"},
               Fetch(j, url, dns)
        PROVE  ConnectInv'
    BY <2>1, FetchStep
  <2>2. ASSUME NEW j \in Jobs, NEW p \in Pages, FetchAttempt(j, p) PROVE ConnectInv'
    BY <2>2, AttemptStep
  <2>3. ASSUME NEW j \in Jobs, NEW a \in OtherAgents, UseCached(j, a) PROVE ConnectInv'
    BY <2>3, UseCachedStep
  <2>4. ASSUME NEW j \in Jobs, job[j].pc = "fetched", ReplaceInline(job[j].manifest) PROVE ConnectInv'
    BY <2>4, ReplaceStep
  <2>5. ASSUME NEW j \in Jobs, NEW dns \in Lookups, Hello(j, dns) PROVE ConnectInv'
    BY <2>5, HelloStep
  <2>6. ASSUME NEW j \in Jobs, NEW r \in HelloAcks(j), OnHelloAck(j, r) PROVE ConnectInv'
    BY <2>6, HelloAckStep
  <2>7. ASSUME NEW j \in Jobs, NEW r \in CommitAcks(j), NEW x \in {"clear", "revoked", "unavailable"},
               OnCommitAck(j, r, Answer(x))
        PROVE  ConnectInv'
    <3>1. PICK answer : answer = Answer(x)
      OBVIOUS
    <3>2. OnCommitAck(j, r, answer)
      BY <2>7, <3>1
    <3> QED
      BY <3>2, CommitAckStep
  <2>8. CASE CnTick
    BY <2>8, ConnectTicks DEF CnTick
  <2>9. CASE UNCHANGED cnVars
    BY <2>9, ConnectTicks DEF cnVars
  <2> QED
    BY <2>1, <2>2, <2>3, <2>4, <2>5, <2>6, <2>7, <2>8, <2>9 DEF CnNext
<1> QED
  BY <1>1, <1>2, PTL DEF CnSpec

\* Of run_initiator_handshake: over retries, cached manifests and whoever
\* answers, the session the facade returns is one peer's, from a manifest that
\* peer published and that was in date.
THEOREM ConnectIsSound == CnSpec => []ConnectSound
<1>1. ConnectInv => ConnectSound
  <2> SUFFICES ASSUME ConnectInv PROVE ConnectSound
    OBVIOUS
  <2>1. SessionBound
    BY DEF ConnectInv, Fits, SessionBound
  <2>2. ManifestInDate
    BY DEF ConnectInv, CacheHolds, Fits, ManifestInDate
  <2> QED
    BY <2>1, <2>2 DEF ConnectSound
<1> QED
  BY <1>1, ConnectCorrect, PTL

(***************************************************************************)
(* Signing: the inductive invariant.                                       *)
(***************************************************************************)

\* What was given out verified as its target when it was.
EmittedFits(e) ==
  /\ e.target \in Targets /\ "s" \in DOMAIN e.raw
  /\ VerifiesAs(e.target, e.raw)

SigningInv ==
  /\ agent \in KeyHolders /\ kms \in KmsKeys /\ asked \subseteq Targets
  /\ \A e \in emitted : EmittedFits(e)

\* The two kinds of target.
LEMMA TargetIs ==
  ASSUME NEW t \in Targets
  PROVE  \/ t.kind = "jcs"
         \/ /\ t.kind = "jws"
            /\ \E typ \in TokenTypes, c \in Claims : t.data = <<JoseAlg(AidAlgorithm(Self)), typ, c>>
<1>1. CASE \E d \in Documents : t = [kind |-> "jcs", data |-> Sha(<<"document", d>>), len |-> 32]
  BY <1>1
<1>2. ASSUME NEW typ \in TokenTypes, NEW c \in Claims,
             t = [kind |-> "jws", data |-> CompactInput(Self, typ, c), len |-> 200]
      PROVE  t.kind = "jws" /\ t.data = <<JoseAlg(AidAlgorithm(Self)), typ, c>>
  BY <1>2 DEF CompactInput
<1>3. \/ \E d \in Documents : t = [kind |-> "jcs", data |-> Sha(<<"document", d>>), len |-> 32]
      \/ \E typ \in TokenTypes, c \in Claims :
           t = [kind |-> "jws", data |-> CompactInput(Self, typ, c), len |-> 200]
  BY DEF Targets
<1> QED
  BY <1>1, <1>2, <1>3

\* A key is what its AID says.
LEMMA KeyOfAid ==
  ASSUME NEW k, k \in [alg : {"ed25519", "p256"}, id : {k.id}]
  PROVE  VerifyingKey(ToAid(k)) = k /\ AidAlgorithm(ToAid(k)) = k.alg
<1>1. k.alg \in {"ed25519", "p256"} /\ k = [alg |-> k.alg, id |-> k.id]
  OBVIOUS
<1>2. PICK a : a = ToAid(k)
  OBVIOUS
<1>3. a.id = k.id /\ a.tag = IF k.alg = "p256" THEN "p256" ELSE "none"
  BY <1>2 DEF ToAid
<1>4. AidAlgorithm(a) = k.alg
  BY <1>1, <1>3 DEF AidAlgorithm
<1> QED
  BY <1>1, <1>2, <1>3, <1>4 DEF VerifyingKey

\* What the key of an AID signs verifies under it.
LEMMA MadeVerifies ==
  ASSUME NEW t, t.kind \in {"jcs", "jws"}, NEW k, k = VerifyingKey(Self), NEW raw,
         raw.by = k, raw.s = "low", raw.len = SIGNATURE_LEN,
         raw.over = IF AidAlgorithm(Self) = "p256" THEN P256Digest(t) ELSE t.data
  PROVE  VerifiesAs(t, raw)
<1>1. k.alg = AidAlgorithm(Self) /\ AidAlgorithm(Self) \in {"p256", "ed25519"}
  BY DEF VerifyingKey, AidAlgorithm
<1>2. CASE t.kind = "jcs"
  <2>1. PICK sig : sig = WireSignature(AidAlgorithm(Self), raw)
    OBVIOUS
  <2>2. sig.raw = raw /\ SignatureAlgorithm(sig) = k.alg
    BY <1>1, <2>1 DEF WireSignature, SignatureAlgorithm
  <2>3. VerifyJcs(k, t.data, sig)
    BY <1>1, <1>2, <2>2 DEF VerifyJcs, VerifyEd25519, VerifyP256Prehash, P256Digest
  <2> QED
    BY <1>2, <2>1, <2>3 DEF VerifiesAs
<1>3. CASE t.kind = "jws"
  <2>1. VerifyRaw(k, t.data, raw)
    BY <1>1, <1>3 DEF VerifyRaw, VerifyEd25519, VerifyP256Prehash, P256Digest
  <2> QED
    BY <1>3, <2>1 DEF VerifiesAs
<1> QED
  BY <1>2, <1>3

(***************************************************************************)
(* Signing: the steps.                                                     *)
(***************************************************************************)

\* Nothing is signed yet.
LEMMA SigningStarts == SgInit => SigningInv
  BY DEF SgInit, SigningInv

\* What is given out stays as it is while the agent does.
LEMMA EmittedStays ==
  ASSUME UNCHANGED agent
  PROVE  /\ Targets' = Targets
         /\ \A e : EmittedFits(e) => EmittedFits(e)'
BY DEF EmittedFits, Targets, VerifiesAs, Self, CompactInput

\* A signature by the key in memory, or a request to the backend.
LEMMA SignTargetStep ==
  ASSUME SigningInv, NEW t \in Targets, SignTarget(t)
  PROVE  SigningInv'
<1>1. UNCHANGED <<agent, kms>>
  BY DEF SignTarget
<1>2. CASE ~LocalKeyServes
  <2>1. asked' = asked \cup {t} /\ UNCHANGED emitted
    BY <1>2 DEF SignTarget
  <2> QED
    BY <1>1, <2>1, EmittedStays DEF SigningInv
<1>3. CASE LocalKeyServes
  <2>1. PICK raw : raw = SignLocal(agent.local, t)
    OBVIOUS
  <2>2. PICK e : e = [target |-> t, raw |-> raw]
    OBVIOUS
  <2>3. emitted' = emitted \cup {e} /\ UNCHANGED asked
    BY <1>3, <2>1, <2>2 DEF SignTarget
  <2>4. PICK k : k = agent.local
    OBVIOUS
  <2>5. k # Unset /\ ToAid(k) = Self
    BY <1>3, <2>4 DEF LocalKeyServes
  <2>6. k \in [alg : {"ed25519", "p256"}, id : {k.id}]
    <3>1. k \in {h.local : h \in KeyHolders} \ {Unset}
      BY <2>4, <2>5 DEF SigningInv
    <3> QED
      BY <3>1, SigningAssumption
  <2>7. k = VerifyingKey(Self) /\ k.alg = AidAlgorithm(Self)
    BY <2>5, <2>6, KeyOfAid
  <2>8. /\ DOMAIN raw = {"by", "over", "s", "len"}
        /\ raw.by = k /\ raw.s = "low" /\ raw.len = SIGNATURE_LEN
        /\ raw.over = IF AidAlgorithm(Self) = "p256" THEN P256Digest(t) ELSE t.data
    BY <2>1, <2>4, <2>7 DEF SignLocal, Made
  <2>9. VerifiesAs(t, raw)
    <3>1. t.kind \in {"jcs", "jws"}
      BY TargetIs
    <3> QED
      BY <2>7, <2>8, <3>1, MadeVerifies
  <2>10. EmittedFits(e)
    BY <2>2, <2>8, <2>9 DEF EmittedFits
  <2> QED
    BY <1>1, <2>3, <2>10, EmittedStays DEF SigningInv
<1> QED
  BY <1>2, <1>3

\* A verdict of two checks that is "ok".
LEMMA FinalizeMeans ==
  ASSUME NEW t, NEW answer, Finalize(t, answer).verdict = "ok"
  PROVE  VerifiesAs(t, Finalize(t, answer).raw)
<1>1. PICK raw : raw = IF AidAlgorithm(Self) = "p256" THEN Normalized(answer) ELSE answer.raw
  OBVIOUS
<1> DEFINE a == <<answer.raw.len = SIGNATURE_LEN /\ (answer.form = "der" => AidAlgorithm(Self) = "p256"),
                  "MalformedSignature">>
           b == <<VerifiesAs(t, raw), "VerificationFailed">>
<1>2. Finalize(t, answer) = [raw |-> raw, verdict |-> Verdict(<<a, b>>)]
  BY <1>1 DEF Finalize
<1>3. Finalize(t, answer).raw = raw /\ Verdict(<<a, b>>) = "ok"
  BY <1>2
<1>4. Fine(a) /\ Fine(b)
  BY DEF Fine
<1> HIDE DEF a, b
<1>5. b[1]
  BY <1>3, <1>4, TwoHold
<1>6. VerifiesAs(t, raw)
  BY <1>5, ConditionOf DEF b
<1> QED
  BY <1>3, <1>6

\* What the backend may return has an S.
LEMMA AnswerHasS ==
  ASSUME NEW t, NEW answer \in Answers(t) \cup BadAnswers(t)
  PROVE  "s" \in DOMAIN Finalize(t, answer).raw
<1>1. ASSUME NEW x, x.raw = answer.raw, "s" \in DOMAIN x.raw PROVE "s" \in DOMAIN Finalize(t, answer).raw
  <2>1. "s" \in DOMAIN Normalized(answer)
    BY <1>1 DEF Normalized
  <2> QED
    BY <1>1, <2>1 DEF Finalize
<1>2. "s" \in DOMAIN answer.raw
  <2>1. CASE answer \in Answers(t)
    <3>1. \E f, s : answer = [form |-> f, raw |-> [Made(kms, RequestedBytes(AidAlgorithm(Self), t)) EXCEPT !.s = s]]
      BY <2>1 DEF Answers
    <3>2. PICK m : m = Made(kms, RequestedBytes(AidAlgorithm(Self), t))
      OBVIOUS
    <3>3. "s" \in DOMAIN m
      BY <3>2 DEF Made
    <3> QED
      BY <3>1, <3>2, <3>3
  <2>2. CASE answer \in BadAnswers(t)
    BY <2>2 DEF BadAnswers, Made
  <2> QED
    BY <2>1, <2>2
<1> QED
  BY <1>1, <1>2

\* finalize lets out only what verifies.
LEMMA AnsweredStep ==
  ASSUME SigningInv, NEW t \in Targets, Answered(t)
  PROVE  SigningInv'
<1>1. UNCHANGED <<agent, kms>> /\ asked' = asked \ {t}
  BY DEF Answered
<1>2. PICK answer \in Answers(t) \cup BadAnswers(t) :
        emitted' = IF Finalize(t, answer).verdict = "ok"
                   THEN emitted \cup {[target |-> t, raw |-> Finalize(t, answer).raw]} ELSE emitted
  BY DEF Answered
<1>3. PICK raw : raw = Finalize(t, answer).raw
  OBVIOUS
<1>4. PICK e : e = [target |-> t, raw |-> raw]
  OBVIOUS
<1>5. CASE Finalize(t, answer).verdict = "ok"
  <2>1. emitted' = emitted \cup {e}
    BY <1>2, <1>3, <1>4, <1>5
  <2>2. VerifiesAs(t, raw) /\ "s" \in DOMAIN raw
    BY <1>3, <1>5, FinalizeMeans, AnswerHasS
  <2>3. EmittedFits(e)
    BY <1>4, <2>2 DEF EmittedFits
  <2> QED
    BY <1>1, <2>1, <2>3, EmittedStays DEF SigningInv
<1>6. CASE Finalize(t, answer).verdict # "ok"
  BY <1>1, <1>2, <1>6, EmittedStays DEF SigningInv
<1> QED
  BY <1>5, <1>6

\* Whatever the agent gave out had verified.
THEOREM SigningCorrect == SgSpec => []SigningInv
<1>1. SgInit => SigningInv
  BY SigningStarts
<1>2. SigningInv /\ [SgNext]_sgVars => SigningInv'
  <2> SUFFICES ASSUME SigningInv, [SgNext]_sgVars PROVE SigningInv'
    OBVIOUS
  <2>1. ASSUME NEW t \in Targets, SignTarget(t) PROVE SigningInv'
    BY <2>1, SignTargetStep
  <2>2. ASSUME NEW t \in Targets, Answered(t) PROVE SigningInv'
    BY <2>2, AnsweredStep
  <2>3. ASSUME NEW t \in Targets, BackendFails(t) PROVE SigningInv'
    BY <2>3, EmittedStays DEF BackendFails, SigningInv
  <2>4. CASE Replace
    BY <2>4, EmittedStays DEF Replace, SigningInv
  <2>5. CASE UNCHANGED sgVars
    BY <2>5, EmittedStays DEF sgVars, SigningInv
  <2> QED
    BY <2>1, <2>2, <2>3, <2>4, <2>5 DEF SgNext
<1> QED
  BY <1>1, <1>2, PTL DEF SgSpec

(***************************************************************************)
(* Signing: what follows.                                                  *)
(***************************************************************************)

\* The AID an agent prints can be read.
LEMMA PrintedParses ==
  ASSUME NEW aid
  PROVE  ParseAid(Printed(aid)) = "ok"
<1>1. PICK s : s = Printed(aid)
  OBVIOUS
<1>2. /\ s.prefix = CASE aid.tag = "p256" -> "aid:pubkey:p256:"
                      [] aid.tag = "ed25519" -> "aid:pubkey:ed25519:"
                      [] OTHER -> "aid:pubkey:"
      /\ s.identifier.len = IF aid.tag = "p256" THEN 44 ELSE 43
      /\ s.identifier.base64url = TRUE /\ s.identifier.decodes = TRUE /\ s.identifier.point = 2
  BY <1>1 DEF Printed
<1>3. /\ s.prefix \in {"aid:pubkey:", "aid:pubkey:ed25519:", "aid:pubkey:p256:"}
      /\ s.prefix = "aid:pubkey:p256:" <=> aid.tag = "p256"
  BY <1>2
<1> DEFINE p256 == s.prefix = "aid:pubkey:p256:"
           a == <<s.prefix # "", "MissingScheme">>
           b == <<s.prefix \in {"aid:pubkey:", "aid:pubkey:ed25519:", "aid:pubkey:p256:"}, "UnsupportedMethod">>
           c == <<s.identifier.len = (IF p256 THEN 44 ELSE 43), "WrongLength">>
           d == <<s.identifier.base64url /\ s.identifier.decodes, "InvalidChars">>
           e == <<p256 => s.identifier.point \in {2, 3}, "InvalidChars">>
<1>4. ParseAid(s) = Verdict(<<a, b, c, d, e>>)
  BY DEF ParseAid
<1>5. s.prefix # "" /\ s.identifier.len = (IF p256 THEN 44 ELSE 43)
      /\ (s.identifier.base64url /\ s.identifier.decodes) /\ (p256 => s.identifier.point \in {2, 3})
  BY <1>2, <1>3
<1>6. a[1] /\ b[1] /\ c[1] /\ d[1] /\ e[1]
  BY <1>3, <1>5, ConditionIs
<1> HIDE DEF a, b, c, d, e
<1>7. ParseAid(s) = "ok"
  BY <1>4, <1>6, FiveOk
<1> QED
  BY <1>1, <1>7

\* verify_compact takes a token of the agent under its own type only.
LEMMA CompactUnderItsType ==
  ASSUME NEW t, NEW raw, NEW typ0, NEW said, NEW typ,
         t.kind = "jws", t.data = <<JoseAlg(AidAlgorithm(Self)), typ0, said>>, VerifiesAs(t, raw)
  PROVE  VerifyCompact(Self, typ, SignedCompact(Self, typ0, said, raw)) = "ok" <=> typ = typ0
<1>1. PICK token : token = SignedCompact(Self, typ0, said, raw)
  OBVIOUS
<1>2. /\ token.segments = 3 /\ token.members = {"alg", "typ"} /\ token.typ = typ0
      /\ token.alg = JoseAlg(AidAlgorithm(Self)) /\ token.claims = said /\ token.object = TRUE
      /\ token.raw = raw
  BY <1>1 DEF SignedCompact
<1> DEFINE a == <<token.segments = 3 /\ token.members = {"alg", "typ"}, "JwsMalformed">>
           b == <<token.typ = typ, "TypMismatch">>
           c == <<token.alg = JoseAlg(AidAlgorithm(Self)), "AlgMismatch">>
           d == <<VerifyRaw(VerifyingKey(Self), <<token.alg, token.typ, token.claims>>, token.raw), "SignatureInvalid">>
           e == <<token.object, "JwsMalformed">>
<1>3. VerifyCompact(Self, typ, token) = Verdict(<<a, b, c, d, e>>)
  BY DEF VerifyCompact
<1>4. VerifyRaw(VerifyingKey(Self), <<token.alg, token.typ, token.claims>>, token.raw)
  <2>1. <<token.alg, token.typ, token.claims>> = t.data
    BY <1>2
  <2>2. VerifyRaw(VerifyingKey(Self), t.data, raw)
    BY DEF VerifiesAs
  <2> QED
    BY <1>2, <2>1, <2>2
<1>5. a[1] /\ c[1] /\ d[1] /\ e[1]
  <2>1. a[1]
    BY <1>2, ConditionIs
  <2>2. c[1]
    BY <1>2, ConditionIs
  <2>3. d[1]
    BY <1>4, ConditionIs
  <2>4. e[1]
    BY <1>2, ConditionIs
  <2> QED
    BY <2>1, <2>2, <2>3, <2>4
<1>6. (typ = typ0 => b[1]) /\ (b[1] => typ = typ0)
  <2>1. ASSUME typ = typ0 PROVE b[1]
    <3>1. token.typ = typ
      BY <1>2, <2>1
    <3> QED
      BY <3>1, ConditionIs
  <2>2. ASSUME b[1] PROVE typ = typ0
    <3>1. token.typ = typ
      BY <2>2, ConditionOf
    <3> QED
      BY <1>2, <3>1
  <2> QED
    BY <2>1, <2>2
<1>7. Fine(a) /\ Fine(b) /\ Fine(c) /\ Fine(d) /\ Fine(e)
  BY DEF Fine
<1> HIDE DEF a, b, c, d, e
<1>8. ASSUME typ = typ0 PROVE VerifyCompact(Self, typ, token) = "ok"
  BY <1>3, <1>5, <1>6, <1>8, FiveOk
<1>9. ASSUME VerifyCompact(Self, typ, token) = "ok" PROVE typ = typ0
  <2>1. b[1]
    BY <1>3, <1>7, <1>9, FiveHold
  <2> QED
    BY <1>6, <2>1
<1> QED
  BY <1>1, <1>8, <1>9

\* What was given out can be read, has one form, and is good for its type.
LEMMA EmittedFollows == SigningInv => EmittedVerifies
<1> SUFFICES ASSUME SigningInv, NEW e \in emitted
             PROVE  /\ ParseAid(Printed(Self)) = "ok"
                    /\ VerifiesAs(e.target, e.raw)
                    /\ AidAlgorithm(Self) = "p256" => ~VerifiesAs(e.target, [e.raw EXCEPT !.s = "high"])
                    /\ e.target.kind = "jws" => VerifyRawJose(VerifyingKey(Self), e.target.data, e.raw)
                    /\ e.target.kind = "jws" =>
                         \A typ \in TokenTypes :
                           VerifyCompact(Self, typ, SignedCompact(Self, e.target.data[2], e.target.data[3], e.raw)) = "ok"
                             <=> typ = e.target.data[2]
  BY DEF EmittedVerifies
<1>1. PICK t, raw : t = e.target /\ raw = e.raw
  OBVIOUS
<1>2. t \in Targets /\ "s" \in DOMAIN raw /\ VerifiesAs(t, raw)
  BY <1>1 DEF SigningInv, EmittedFits
<1>3. ParseAid(Printed(Self)) = "ok"
  <2>1. PICK a : a = Self
    OBVIOUS
  <2> QED
    BY <2>1, PrintedParses
<1>4. ASSUME AidAlgorithm(Self) = "p256" PROVE ~VerifiesAs(t, [raw EXCEPT !.s = "high"])
  <2>1. PICK high : high = [raw EXCEPT !.s = "high"]
    OBVIOUS
  <2>2. high.s = "high"
    BY <1>2, <2>1
  <2>3. PICK k : k = VerifyingKey(Self)
    OBVIOUS
  <2>4. k.alg = "p256"
    BY <1>4, <2>3 DEF VerifyingKey
  <2>5. \A m : ~VerifyP256Prehash(k, m, high)
    BY <2>2 DEF VerifyP256Prehash
  <2>6. ~VerifyRaw(k, t.data, high)
    BY <2>4, <2>5 DEF VerifyRaw
  <2>7. ~VerifyJcs(k, t.data, WireSignature(AidAlgorithm(Self), high))
    <3>1. PICK sig : sig = WireSignature(AidAlgorithm(Self), high)
      OBVIOUS
    <3>2. sig.raw = high
      BY <3>1 DEF WireSignature
    <3> QED
      BY <2>4, <2>5, <3>1, <3>2 DEF VerifyJcs
  <2> QED
    BY <2>1, <2>3, <2>6, <2>7 DEF VerifiesAs
<1>5. ASSUME t.kind = "jws" PROVE VerifyRawJose(VerifyingKey(Self), t.data, raw)
  <2>1. VerifyRaw(VerifyingKey(Self), t.data, raw)
    BY <1>2, <1>5 DEF VerifiesAs
  <2> QED
    BY <2>1 DEF VerifyRaw, VerifyRawJose, VerifyP256Prehash
<1>6. ASSUME t.kind = "jws", NEW typ \in TokenTypes
      PROVE  VerifyCompact(Self, typ, SignedCompact(Self, t.data[2], t.data[3], raw)) = "ok" <=> typ = t.data[2]
  <2>1. PICK typ0, c : t.data = <<JoseAlg(AidAlgorithm(Self)), typ0, c>>
    BY <1>2, <1>6, TargetIs
  <2>2. VerifyCompact(Self, typ, SignedCompact(Self, typ0, c, raw)) = "ok" <=> typ = typ0
    BY <1>2, <1>6, <2>1, CompactUnderItsType
  <2>3. t.data[2] = typ0 /\ t.data[3] = c
    BY <2>1
  <2> QED
    BY <2>2, <2>3
<1> QED
  BY <1>1, <1>2, <1>3, <1>4, <1>5, <1>6

\* A backend that has the key and answers as it may is not refused.
LEMMA BackendFollows == SigningInv => BackendServes
<1> SUFFICES ASSUME SigningInv, CheckPublicKey = "ok", NEW t \in asked, NEW answer \in Answers(t)
             PROVE  Finalize(t, answer).verdict = "ok"
  BY DEF BackendServes
<1>1. kms = VerifyingKey(Self) /\ kms.alg = AidAlgorithm(Self) /\ AidAlgorithm(Self) \in {"p256", "ed25519"}
  BY DEF CheckPublicKey, VerifyingKey, AidAlgorithm
<1>2. PICK m : m = Made(kms, RequestedBytes(AidAlgorithm(Self), t))
  OBVIOUS
<1>3. /\ DOMAIN m = {"by", "over", "s", "len"} /\ m.by = kms /\ m.len = SIGNATURE_LEN /\ m.s = "low"
      /\ m.over = IF AidAlgorithm(Self) = "p256" THEN P256Digest(t) ELSE t.data
  BY <1>2 DEF Made, RequestedBytes
<1>4. PICK f \in (IF kms.alg = "p256" THEN {"raw", "der"} ELSE {"raw"}),
           s \in (IF kms.alg = "p256" THEN {"low", "high"} ELSE {"low"}) :
        answer = [form |-> f, raw |-> [m EXCEPT !.s = s]]
  BY <1>2 DEF Answers
<1>5. PICK q : q = [m EXCEPT !.s = s]
  OBVIOUS
<1>6. /\ answer.form = f /\ answer.raw = q
      /\ DOMAIN q = DOMAIN m /\ q.s = s /\ q.by = m.by /\ q.over = m.over /\ q.len = m.len
  BY <1>3, <1>4, <1>5
<1>7. PICK raw : raw = IF AidAlgorithm(Self) = "p256" THEN Normalized(answer) ELSE answer.raw
  OBVIOUS
<1>8. raw.s = "low" /\ raw.by = kms /\ raw.over = m.over /\ raw.len = SIGNATURE_LEN
  <2>1. CASE AidAlgorithm(Self) = "p256"
    <3>1. raw = [q EXCEPT !.s = "low"]
      BY <1>6, <1>7, <2>1 DEF Normalized
    <3> QED
      BY <1>3, <1>6, <3>1
  <2>2. CASE AidAlgorithm(Self) # "p256"
    <3>1. raw = q /\ s = "low"
      BY <1>1, <1>4, <1>6, <1>7, <2>2
    <3> QED
      BY <1>3, <1>6, <3>1
  <2> QED
    BY <2>1, <2>2
<1>9. VerifiesAs(t, raw)
  <2>1. t \in Targets
    BY DEF SigningInv
  <2>2. t.kind \in {"jcs", "jws"}
    BY <2>1, TargetIs
  <2>3. PICK k : k = kms
    OBVIOUS
  <2>4. k = VerifyingKey(Self) /\ raw.by = k
    BY <1>1, <1>8, <2>3
  <2>5. raw.over = IF AidAlgorithm(Self) = "p256" THEN P256Digest(t) ELSE t.data
    BY <1>3, <1>8
  <2> QED
    BY <1>8, <2>2, <2>4, <2>5, MadeVerifies
<1> DEFINE a == <<answer.raw.len = SIGNATURE_LEN /\ (answer.form = "der" => AidAlgorithm(Self) = "p256"),
                  "MalformedSignature">>
           b == <<VerifiesAs(t, raw), "VerificationFailed">>
<1>10. Finalize(t, answer).verdict = Verdict(<<a, b>>)
  BY <1>7 DEF Finalize
<1>11. answer.raw.len = SIGNATURE_LEN /\ (answer.form = "der" => AidAlgorithm(Self) = "p256")
  BY <1>1, <1>3, <1>4, <1>6
<1>12. a[1] /\ b[1]
  BY <1>9, <1>11, ConditionIs
<1> HIDE DEF a, b
<1> QED
  BY <1>10, <1>12, TwoOk

\* Nothing that fails to verify is given out, whatever the backend answers,
\* and one that has the agent's key is always served.
THEOREM SigningIsExact == SgSpec => []SigningExact
<1>1. SgSpec => []SigningInv
  BY SigningCorrect
<1>2. SigningInv => SigningExact
  BY EmittedFollows, BackendFollows DEF SigningExact
<1> QED
  BY <1>1, <1>2, PTL

(***************************************************************************)
(* SessionBundle: the inductive invariant.                                 *)
(***************************************************************************)
BundleMembers ==
  {"version", "session_id", "coordinator", "issued_at", "expires_at", "participants", "signature"}

\* What the builder returned.
MadeFits(b) ==
  /\ DOMAIN b = BundleMembers
  /\ b.version = PROTOCOL_VERSION /\ b.coordinator \in Coordinators
  /\ b.participants \in Seq(Entries) /\ b.participants # << >>
  /\ \A k \in DOMAIN b.participants :
        b.participants[k].tct.iss = b.coordinator /\ b.participants[k].tct.aud = b.participants[k].aid
  /\ b.expires_at = MinExp(b.participants)
  /\ b.signature = [by |-> b.coordinator, over |-> BundleSigningBytes(b)]

\* What the server holds, whoever sent it.
StoredFits(b) ==
  /\ b.participants \in Seq(Entries)
  /\ \E x, y : b.signature = [by |-> x, over |-> y]

\* What a participant accepted: BundleSound, of one.
VerifiedFits(v) ==
  LET b == v.bundle
  IN  /\ b.signature = [by |-> b.coordinator, over |-> BundleSigningBytes(b)]
      /\ v.at <= b.expires_at
      /\ \E k \in DOMAIN b.participants : b.participants[k].aid = v.by
      /\ \A a \in v.outcome.active : \E k \in DOMAIN b.participants :
            LET t == b.participants[k].tct
            IN  /\ b.participants[k].aid = a /\ t.sub = a /\ t.iss = b.coordinator
                /\ t.signer = b.coordinator /\ t.jti \notin v.denied
                /\ b.expires_at <= t.exp

SbInv ==
  /\ btime \in 0..MaxBundleTime /\ DOMAIN stored = SessionIds
  /\ \A b \in made : MadeFits(b)
  /\ \A s \in SessionIds : stored[s] = None \/ StoredFits(stored[s])
  /\ \A v \in verified : VerifiedFits(v)

\* An entry carries one of the tokens there are.
LEMMA EntryIs ==
  ASSUME NEW e \in Entries
  PROVE  e.tct \in Tct
<1>1. PICK a \in {t.aud : t \in TokenPool}, t \in TokenPool : e = [aid |-> a, tct |-> t]
  BY DEF Entries
<1> QED
  BY <1>1, BundleAssumption

\* MinExp is the least of the expiries.
LEMMA MinExpMeans ==
  ASSUME NEW S \in Seq(Entries), S # << >>
  PROVE  /\ \A k \in DOMAIN S : S[k].tct.exp \in Nat /\ MinExp(S) <= S[k].tct.exp
         /\ \E k \in DOMAIN S : MinExp(S) = S[k].tct.exp
<1> DEFINE exps == {S[k].tct.exp : k \in DOMAIN S}
<1>1. \A k \in DOMAIN S : S[k].tct.exp \in Nat
  <2>1. \A k \in DOMAIN S : S[k] \in Entries
    OBVIOUS
  <2> QED
    BY <2>1, EntryIs DEF Tct
<1>2. exps \in SUBSET Nat /\ exps # {}
  <2>1. exps \in SUBSET Nat
    BY <1>1
  <2>2. 1 \in DOMAIN S
    OBVIOUS
  <2> QED
    BY <2>1, <2>2
<1>3. MinExp(S) = CHOOSE e \in exps : \A f \in exps : e <= f
  BY DEF MinExp
<1>4. \A k \in DOMAIN S : S[k].tct.exp \in exps
  OBVIOUS
<1>5. \A e \in exps : \E k \in DOMAIN S : e = S[k].tct.exp
  OBVIOUS
<1> HIDE DEF exps
<1>6. PICK m \in exps : \A l \in exps : <<l, m>> \notin OpToRel(<, Nat)
  BY <1>2, NatLessThanWellFounded, WFMin
<1>7. \A l \in exps : m <= l
  <2>1. \A l \in exps : ~(l < m)
    BY <1>2, <1>6 DEF OpToRel
  <2> QED
    BY <1>2, <2>1
<1>8. MinExp(S) \in exps /\ \A f \in exps : MinExp(S) <= f
  BY <1>3, <1>7
<1> QED
  BY <1>1, <1>4, <1>5, <1>8

\* What the builder makes of entries that its draft accepts.
LEMMA BuildFits ==
  ASSUME NEW c \in Coordinators, NEW s, NEW parts \in EntryLists,
         BundleDraftVerdict(c, parts) = "ok", NEW b, b = BuiltBundle(c, s, parts)
  PROVE  MadeFits(b)
<1>1. parts \in Seq(Entries)
  BY BundleAssumption DEF EntryLists
<1> DEFINE p == parts # << >>
           q == \A k \in DOMAIN parts : parts[k].tct.flaw \notin {"duplicate", "member", "type"}
           r == \A k \in DOMAIN parts : parts[k].tct.iss = c
           u == \A k \in DOMAIN parts : parts[k].tct.aud = parts[k].aid
           x1 == <<p, "EmptyParticipants">>
           x2 == <<q, "UnknownField">>
           x3 == <<r, "CoordinatorIssuerMismatch">>
           x4 == <<u, "AudienceMismatch">>
<1>2. Verdict(<<x1, x2, x3, x4>>) = "ok"
  BY DEF BundleDraftVerdict
<1> HIDE DEF p, q, r, u
<1>3. Fine(x1) /\ Fine(x2) /\ Fine(x3) /\ Fine(x4)
  BY DEF Fine
<1> HIDE DEF x1, x2, x3, x4
<1>4. x1[1] /\ x3[1] /\ x4[1]
  BY <1>2, <1>3, FourHold
<1>5. p /\ r /\ u
  BY <1>4, ConditionOf DEF x1, x3, x4
<1>6. PICK e, now : e = MinExp(parts) /\ now = btime
  OBVIOUS
<1>7. PICK d : d = [version |-> PROTOCOL_VERSION, session_id |-> s, coordinator |-> c, issued_at |-> now,
                    expires_at |-> e, participants |-> parts, signature |-> None]
  OBVIOUS
<1>8. PICK w : w = BundleSigningBytes(d)
  OBVIOUS
<1>9. b = [d EXCEPT !.signature = [by |-> c, over |-> w]]
  <2>1. b = SealedBundle(d, c)
    BY <1>6, <1>7 DEF BuiltBundle
  <2> QED
    BY <1>8, <2>1 DEF SealedBundle
<1>10. /\ DOMAIN b = BundleMembers /\ DOMAIN d = BundleMembers
       /\ b.version = PROTOCOL_VERSION /\ b.coordinator = c /\ b.participants = parts
       /\ b.expires_at = e /\ b.signature = [by |-> c, over |-> w]
  BY <1>7, <1>9 DEF BundleMembers
<1>11. \A x \in BundleMembers \ {"signature"} : b[x] = d[x]
  BY <1>7, <1>9, <1>10
<1>12. BundleSigningBytes(b) = w
  BY <1>8, <1>10, <1>11 DEF BundleSigningBytes, Unsigned
<1>13. /\ b.participants # << >>
       /\ \A k \in DOMAIN b.participants :
            b.participants[k].tct.iss = b.coordinator /\ b.participants[k].tct.aud = b.participants[k].aid
  BY <1>5, <1>10 DEF p, r, u
<1> QED
  BY <1>1, <1>6, <1>10, <1>12, <1>13 DEF MadeFits

\* A signature, whoever made it, leaves the other members.
LEMMA SealFits ==
  ASSUME NEW b, NEW by, b.participants \in Seq(Entries),
         {"participants", "signature"} \subseteq DOMAIN b
  PROVE  StoredFits(SealedBundle(b, by))
<1>1. PICK w, sig : w = BundleSigningBytes(b) /\ sig = [by |-> by, over |-> w]
  OBVIOUS
<1>2. PICK x : x = SealedBundle(b, by)
  OBVIOUS
<1>3. x = [b EXCEPT !.signature = sig]
  BY <1>1, <1>2 DEF SealedBundle
<1>4. x.participants = b.participants /\ x.signature = sig
  BY <1>3
<1> QED
  BY <1>1, <1>2, <1>4 DEF StoredFits

\* What is posted of a bundle has its shape.
LEMMA AlteredFits ==
  ASSUME NEW b, MadeFits(b), NEW x \in {b} \cup Altered(b)
  PROVE  StoredFits(x)
<1>1. PICK e, p, c0, w : e = b.expires_at + 1 /\ p = Tail(b.participants) /\ c0 = b.coordinator /\ w = BundleSigningBytes(b)
  OBVIOUS
<1>2. PICK y, z : y = [b EXCEPT !.expires_at = e] /\ z = [b EXCEPT !.participants = p]
  OBVIOUS
<1>3. /\ {"participants", "signature", "expires_at", "coordinator"} \subseteq DOMAIN b
      /\ b.participants \in Seq(Entries) /\ b.participants # << >>
      /\ b.signature = [by |-> c0, over |-> w]
  BY <1>1 DEF MadeFits, BundleMembers
<1>4. p \in Seq(Entries)
  BY <1>1, <1>3
<1>5. /\ DOMAIN y = DOMAIN b /\ y.participants = b.participants /\ y.signature = b.signature
      /\ DOMAIN z = DOMAIN b /\ z.participants = p /\ z.signature = b.signature
  BY <1>2, <1>3
<1>6. CASE x = b
  BY <1>3, <1>6 DEF StoredFits
<1>7. CASE x = y \/ x = z
  BY <1>3, <1>4, <1>5, <1>7 DEF StoredFits
<1>8. CASE x = SealedBundle(y, c0) \/ x = SealedBundle(z, c0)
  <2>1. StoredFits(SealedBundle(y, c0))
    BY <1>3, <1>5, SealFits
  <2>2. StoredFits(SealedBundle(z, c0))
    BY <1>3, <1>4, <1>5, SealFits
  <2> QED
    BY <1>8, <2>1, <2>2
<1> DEFINE Renamed(c) == [b EXCEPT !.coordinator = c]
<1>9. ASSUME NEW c \in Coordinators, NEW d \in Coordinators, x = SealedBundle(Renamed(c), d)
      PROVE  StoredFits(x)
  <2>1. PICK n : n = Renamed(c)
    OBVIOUS
  <2>2. DOMAIN n = DOMAIN b /\ n.participants = b.participants
    BY <1>3, <2>1
  <2> QED
    BY <1>3, <1>9, <2>1, <2>2, SealFits
<1>10. \/ x = b \/ x = y \/ x = z \/ x = SealedBundle(y, c0) \/ x = SealedBundle(z, c0)
       \/ x \in {SealedBundle(Renamed(c), d) : c, d \in Coordinators}
  BY <1>1, <1>2 DEF Altered
<1> HIDE DEF Renamed
<1>11. CASE x \in {SealedBundle(Renamed(c), d) : c, d \in Coordinators}
  <2>1. \E c, d \in Coordinators : x = SealedBundle(Renamed(c), d)
    BY <1>11
  <2> QED
    BY <1>9, <2>1
<1> QED
  BY <1>6, <1>7, <1>8, <1>10, <1>11

\* The document of a post carries such a bundle.
LEMMA PostFits ==
  ASSUME SbInv, NEW doc \in Posts
  PROVE  StoredFits(doc.body)
<1>1. PICK b \in made : doc \in {BundleDoc(x) : x \in {b} \cup Altered(b)} \cup {[BundleDoc(b) EXCEPT !.wrapped = FALSE]}
  BY DEF Posts
<1>2. MadeFits(b)
  BY DEF SbInv
<1>3. ASSUME NEW x PROVE BundleDoc(x).body = x /\ [BundleDoc(x) EXCEPT !.wrapped = FALSE].body = x
  BY DEF BundleDoc
<1>4. CASE \E x \in {b} \cup Altered(b) : doc = BundleDoc(x)
  BY <1>2, <1>3, <1>4, AlteredFits
<1>5. CASE doc = [BundleDoc(b) EXCEPT !.wrapped = FALSE]
  <2>1. doc.body = b
    BY <1>3, <1>5
  <2>2. b \in {b} \cup Altered(b)
    OBVIOUS
  <2> QED
    BY <1>2, <2>1, <2>2, AlteredFits
<1> QED
  BY <1>1, <1>4, <1>5

\* The checks of verify_session_bundle: on the bundle, on each entry, on who
\* asks.
HeadChecks(b, manifest) ==
  <<<<b.version = PROTOCOL_VERSION, "VersionMismatch">>,
    <<b.expires_at >= btime, "Expired">>,
    <<ExpiryWindowHolds(b), "ExpiryWindowInvariant">>,
    <<b.participants # << >>, "EmptyParticipants">>,
    <<manifest = None \/ VerifyManifest(manifest, btime, FALSE, None) = "ok", "CoordinatorManifest">>,
    <<manifest = None \/ manifest.aid = b.coordinator, "CoordinatorManifestMismatch">>,
    <<b.signature.by = b.coordinator /\ b.signature.over = BundleSigningBytes(b), "InvalidSignature">>>>
CapOf(manifest) == IF manifest = None THEN None ELSE manifest.expires_at
EntryChecks(b, manifest) ==
  [k \in DOMAIN b.participants |-> Sub(ParticipantVerdict(b, b.participants[k], CapOf(manifest)))]
MemberChecks(b, me) == <<<<\E k \in DOMAIN b.participants : b.participants[k].aid = me, "NotMember">>>>

\* Seven checks, each of which is fine.
LEMMA SevenSeq ==
  ASSUME NEW X, NEW a \in X, NEW b \in X, NEW c \in X, NEW d \in X, NEW e \in X, NEW f \in X, NEW g \in X
  PROVE  /\ <<a, b, c, d, e, f, g>> \in Seq(X)
         /\ AllHold(<<a, b, c, d, e, f, g>>) <=> a[1] /\ b[1] /\ c[1] /\ d[1] /\ e[1] /\ f[1] /\ g[1]
<1>1. PICK S : S = <<a, b, c, d, e, f, g>>
  OBVIOUS
<1>2. /\ DOMAIN S = 1..7 /\ S[1] = a /\ S[2] = b /\ S[3] = c /\ S[4] = d /\ S[5] = e /\ S[6] = f /\ S[7] = g
  BY <1>1
<1>3. S \in Seq(X)
  BY <1>1
<1>4. \A k \in DOMAIN S : k = 1 \/ k = 2 \/ k = 3 \/ k = 4 \/ k = 5 \/ k = 6 \/ k = 7
  BY <1>2
<1>5. {1, 2, 3, 4, 5, 6, 7} \subseteq DOMAIN S
  BY <1>2
<1> QED
  BY <1>1, <1>2, <1>3, <1>4, <1>5 DEF AllHold

\* verify_session_bundle passes if each of its lists does.
LEMMA BundleMeans ==
  ASSUME NEW b, b.participants \in Seq(Entries), NEW me, NEW manifest
  PROVE  BundleVerdict(b, me, manifest) = "ok" <=>
           /\ AllHold(HeadChecks(b, manifest)) /\ AllHold(EntryChecks(b, manifest))
           /\ AllHold(MemberChecks(b, me))
<1> DEFINE A == HeadChecks(b, manifest)
           E == EntryChecks(b, manifest)
           M == MemberChecks(b, me)
           X == {x \in {A[1], A[2], A[3], A[4], A[5], A[6], A[7], M[1]} \cup {E[k] : k \in DOMAIN b.participants} :
                  Fine(x)}
<1>1. BundleVerdict(b, me, manifest) = Verdict((A \o E) \o M)
  BY DEF BundleVerdict, HeadChecks, EntryChecks, MemberChecks, CapOf
<1>2. A = <<A[1], A[2], A[3], A[4], A[5], A[6], A[7]>> /\ M = <<M[1]>>
  BY DEF HeadChecks, MemberChecks
<1>3. /\ A[1][2] # "ok" /\ A[2][2] # "ok" /\ A[3][2] # "ok" /\ A[4][2] # "ok" /\ A[5][2] # "ok"
      /\ A[6][2] # "ok" /\ A[7][2] # "ok" /\ M[1][2] # "ok"
  BY DEF HeadChecks, MemberChecks
<1>4. PICK n \in Nat : DOMAIN b.participants = 1..n
  OBVIOUS
<1>5. /\ DOMAIN E = 1..n /\ E = [k \in 1..n |-> E[k]]
      /\ \A k \in 1..n : E[k] = Sub(ParticipantVerdict(b, b.participants[k], CapOf(manifest)))
  BY <1>4 DEF EntryChecks
<1> HIDE DEF A, E, M
<1>6. \A k \in 1..n : Fine(E[k])
  BY <1>5, SubFine
<1>7. \A k \in 1..n : E[k] \in X
  BY <1>4, <1>6
<1>8. A[1] \in X /\ A[2] \in X /\ A[3] \in X /\ A[4] \in X /\ A[5] \in X /\ A[6] \in X /\ A[7] \in X /\ M[1] \in X
  BY <1>3 DEF Fine
<1>9. \A x \in X : x[2] # "ok" \/ x[1]
  BY DEF Fine
<1> HIDE DEF X
<1>10. E \in Seq(X)
  BY <1>5, <1>7
<1>11. M \in Seq(X)
  <2>1. <<M[1]>> \in Seq(X)
    BY <1>8
  <2>2. M = <<M[1]>>
    BY <1>2
  <2> QED
    BY <2>1, <2>2, Zenon
<1>12. A \in Seq(X)
  <2>1. <<A[1], A[2], A[3], A[4], A[5], A[6], A[7]>> \in Seq(X)
    BY <1>8, SevenSeq
  <2>2. A = <<A[1], A[2], A[3], A[4], A[5], A[6], A[7]>>
    BY <1>2
  <2> QED
    BY <2>1, <2>2, Zenon
<1>13. PICK B \in Seq(X) : B = A \o E /\ (AllHold(B) <=> AllHold(A) /\ AllHold(E))
  BY <1>10, <1>12, JoinHolds
<1>14. PICK C \in Seq(X) : C = B \o M /\ (AllHold(C) <=> AllHold(B) /\ AllHold(M))
  BY <1>11, JoinHolds
<1>15. BundleVerdict(b, me, manifest) = "ok" <=> AllHold(C)
  BY <1>1, <1>9, <1>13, <1>14, VerdictMeans
<1>16. BundleVerdict(b, me, manifest) = "ok" <=> AllHold(A) /\ AllHold(E) /\ AllHold(M)
  BY <1>13, <1>14, <1>15
<1> QED
  BY <1>16 DEF A, E, M

\* What the checks on the bundle say.
LEMMA HeadMeans ==
  ASSUME NEW b, NEW manifest
  PROVE  AllHold(HeadChecks(b, manifest)) <=>
           /\ b.version = PROTOCOL_VERSION /\ b.expires_at >= btime /\ ExpiryWindowHolds(b)
           /\ b.participants # << >>
           /\ manifest = None \/ VerifyManifest(manifest, btime, FALSE, None) = "ok"
           /\ manifest = None \/ manifest.aid = b.coordinator
           /\ b.signature.by = b.coordinator /\ b.signature.over = BundleSigningBytes(b)
<1> DEFINE p4 == b.participants # << >>
           p5 == manifest = None \/ VerifyManifest(manifest, btime, FALSE, None) = "ok"
           p6 == manifest = None \/ manifest.aid = b.coordinator
           p7 == b.signature.by = b.coordinator /\ b.signature.over = BundleSigningBytes(b)
           c1 == <<b.version = PROTOCOL_VERSION, "VersionMismatch">>
           c2 == <<b.expires_at >= btime, "Expired">>
           c3 == <<ExpiryWindowHolds(b), "ExpiryWindowInvariant">>
           c4 == <<p4, "EmptyParticipants">>
           c5 == <<p5, "CoordinatorManifest">>
           c6 == <<p6, "CoordinatorManifestMismatch">>
           c7 == <<p7, "InvalidSignature">>
<1>1. HeadChecks(b, manifest) = <<c1, c2, c3, c4, c5, c6, c7>>
  BY DEF HeadChecks
<1> HIDE DEF p4, p5, p6, p7
<1>2. /\ c1[1] <=> b.version = PROTOCOL_VERSION
      /\ c2[1] <=> b.expires_at >= btime
      /\ c3[1] <=> ExpiryWindowHolds(b)
      /\ c4[1] <=> p4
  BY ConditionOf, ConditionIs
<1>3. (c5[1] <=> p5) /\ (c6[1] <=> p6) /\ (c7[1] <=> p7)
  BY ConditionOf, ConditionIs
<1> HIDE DEF c1, c2, c3, c4, c5, c6, c7
<1> DEFINE X == {c1, c2, c3, c4, c5, c6, c7}
<1>4. c1 \in X /\ c2 \in X /\ c3 \in X /\ c4 \in X /\ c5 \in X /\ c6 \in X /\ c7 \in X
  OBVIOUS
<1> HIDE DEF X
<1>5. AllHold(<<c1, c2, c3, c4, c5, c6, c7>>) <=> c1[1] /\ c2[1] /\ c3[1] /\ c4[1] /\ c5[1] /\ c6[1] /\ c7[1]
  BY <1>4, SevenSeq
<1>6. AllHold(HeadChecks(b, manifest)) <=>
        /\ b.version = PROTOCOL_VERSION /\ b.expires_at >= btime /\ ExpiryWindowHolds(b)
        /\ p4 /\ p5 /\ p6 /\ p7
  BY <1>1, <1>2, <1>3, <1>5
<1> QED
  BY <1>6 DEF p4, p5, p6, p7

\* What the check on who asks says.
LEMMA MemberMeans ==
  ASSUME NEW b, NEW me
  PROVE  AllHold(MemberChecks(b, me)) <=> \E k \in DOMAIN b.participants : b.participants[k].aid = me
<1> DEFINE p == \E k \in DOMAIN b.participants : b.participants[k].aid = me
           c == <<p, "NotMember">>
<1>1. PICK S : S = MemberChecks(b, me)
  OBVIOUS
<1>2. S = <<c>>
  BY <1>1 DEF MemberChecks
<1> HIDE DEF p
<1>3. c[1] <=> p
  BY ConditionOf, ConditionIs
<1> HIDE DEF c
<1>4. AllHold(S) <=> c[1]
  BY <1>2 DEF AllHold
<1> QED
  BY <1>1, <1>3, <1>4 DEF p

\* What the check on an entry says: its token passes verify_tct.
LEMMA EntryMeans ==
  ASSUME NEW b, NEW manifest, AllHold(EntryChecks(b, manifest)), NEW k \in DOMAIN b.participants,
         NEW t, t = b.participants[k].tct
  PROVE  t.signer = b.coordinator /\ t.iss = b.coordinator /\ t.sub = b.participants[k].aid
<1>1. PICK e, cap : e = b.participants[k] /\ cap = CapOf(manifest)
  OBVIOUS
<1>2. ParticipantVerdict(b, e, cap) = "ok"
  <2>1. DOMAIN EntryChecks(b, manifest) = DOMAIN b.participants
        /\ EntryChecks(b, manifest)[k] = Sub(ParticipantVerdict(b, e, cap))
    BY <1>1 DEF EntryChecks
  <2> QED
    BY <2>1, SubFine DEF AllHold
<1>3. PICK c : c = [issuer |-> b.coordinator, for |-> e.aid, now |-> btime, clock_skew |-> 0,
                    cap |-> cap, revocation |-> "fail_open"]
  OBVIOUS
<1>4. c.issuer = b.coordinator /\ c.for = e.aid
  BY <1>3
<1>5. VerifyTct(t, c, Answer("clear")).verdict = "ok"
  <2>1. PICK v : v = VerifyTct(t, c, Answer("clear")).verdict
    OBVIOUS
  <2>2. ParticipantVerdict(b, e, cap) = IF v = "IssuerMismatch" THEN "CoordinatorIssuerMismatch" ELSE v
    BY <1>1, <1>3, <2>1 DEF ParticipantVerdict
  <2> QED
    BY <1>2, <2>1, <2>2
<1>6. BeforeRevocation(t, c) = "ok"
  BY <1>5 DEF VerifyTct
<1>7. AllHold(SignedChecks(t, c.issuer)) /\ AllHold(ContextChecks(t, c.for))
  BY <1>6, BeforeMeans
<1>8. t.signer = c.issuer /\ t.iss = c.issuer
  BY <1>7, SignedMeans
<1>9. t.aud = c.for /\ t.aud = t.sub
  BY <1>7, AudienceMeans
<1> QED
  BY <1>1, <1>4, <1>8, <1>9

\* What a participant accepts of what the server holds.
LEMMA AcceptedFits ==
  ASSUME NEW b, StoredFits(b), NEW me, NEW manifest, BundleVerdict(b, me, manifest) = "ok",
         btime \in Nat,
         NEW v, v.by = me, v.at = btime, v.bundle = b, v.outcome = Outcome(b), v.denied = denied
  PROVE  VerifiedFits(v)
<1>1. b.participants \in Seq(Entries)
  BY DEF StoredFits
<1>2. AllHold(HeadChecks(b, manifest)) /\ AllHold(EntryChecks(b, manifest)) /\ AllHold(MemberChecks(b, me))
  BY <1>1, BundleMeans
<1>3. /\ b.expires_at >= btime /\ ExpiryWindowHolds(b) /\ b.participants # << >>
      /\ b.signature.by = b.coordinator /\ b.signature.over = BundleSigningBytes(b)
  BY <1>2, HeadMeans
<1>4. b.signature = [by |-> b.coordinator, over |-> BundleSigningBytes(b)]
  <2>1. PICK x, y : b.signature = [by |-> x, over |-> y]
    BY DEF StoredFits
  <2>2. PICK sig : sig = b.signature
    OBVIOUS
  <2>3. sig.by = x /\ sig.over = y
    BY <2>1, <2>2
  <2> QED
    BY <1>3, <2>1, <2>2, <2>3
<1>5. \E k \in DOMAIN b.participants : b.participants[k].aid = v.by
  BY <1>2, MemberMeans
<1>6. b.expires_at = MinExp(b.participants)
  BY <1>3 DEF ExpiryWindowHolds
<1>7. b.expires_at \in Nat /\ v.at <= b.expires_at
  BY <1>1, <1>3, <1>6, MinExpMeans
<1>8. ASSUME NEW a \in v.outcome.active
      PROVE  \E k \in DOMAIN b.participants :
               LET t == b.participants[k].tct
               IN  /\ b.participants[k].aid = a /\ t.sub = a /\ t.iss = b.coordinator
                   /\ t.signer = b.coordinator /\ t.jti \notin v.denied
                   /\ b.expires_at <= t.exp
  <2>1. PICK k \in Active(b) : a = b.participants[k].aid
    BY <1>8 DEF Outcome
  <2>2. k \in DOMAIN b.participants /\ b.participants[k].tct.jti \notin denied
    BY <2>1 DEF Active
  <2>3. PICK t : t = b.participants[k].tct
    OBVIOUS
  <2>4. t.signer = b.coordinator /\ t.iss = b.coordinator /\ t.sub = a
    BY <1>2, <2>1, <2>2, <2>3, EntryMeans
  <2>5. b.expires_at <= t.exp
    BY <1>1, <1>3, <1>6, <2>2, <2>3, MinExpMeans
  <2> QED
    BY <2>1, <2>2, <2>3, <2>4, <2>5
<1> QED
  BY <1>4, <1>5, <1>7, <1>8 DEF VerifiedFits

\* A token that is sound verifies, for its subject.
LEMMA SoundVerifies ==
  ASSUME NEW t \in Tct, SoundToken(t), btime \in Nat, NEW b, b.coordinator = t.iss,
         NEW e, e.tct = t, e.aid = t.aud,
         NEW cap, cap \in {None, CoordinatorManifest(t.iss).expires_at}
  PROVE  ParticipantVerdict(b, e, cap) = "ok"
<1>1. PICK c, now : /\ c = [issuer |-> b.coordinator, for |-> e.aid, now |-> btime, clock_skew |-> 0,
                           cap |-> cap, revocation |-> "fail_open"]
                    /\ now = btime
  OBVIOUS
<1>2. /\ c.issuer = t.iss /\ c.for = t.aud /\ c.now = now /\ c.clock_skew = 0 /\ c.cap = cap
      /\ c.revocation = "fail_open"
  BY <1>1
<1>3. /\ t.flaw = "none" /\ t.signer = t.iss /\ t.iss # t.sub /\ t.aud = t.sub /\ t.jkt = t.sub
      /\ t.grants # {} /\ ATTESTATION_GRANT \notin t.grants
      /\ t.iat <= now /\ now <= t.exp /\ (cap = None \/ t.exp <= cap)
  BY <1>1 DEF SoundToken
<1>4. t.typ = "tct" /\ t.iat \in Nat /\ t.exp \in Nat /\ now \in Nat
  BY <1>1 DEF Tct
<1>5. AllHold(PeekChecks(t, "tct"))
  BY <1>3, <1>4, PeekPasses
<1>6. AllHold(SignedChecks(t, c.issuer))
  BY <1>2, <1>3, SignedPasses
<1>7. AllHold(ContextChecks(t, c.for)) /\ AllHold(LastChecks(t))
  BY <1>2, <1>3, ClaimsPass
<1>8. AllHold(LifetimeChecks(t, c))
  <2>1. t.exp >= now - 0 /\ t.iat <= now + 0
    BY <1>3, <1>4
  <2> QED
    BY <1>2, <1>3, <2>1, LifetimeMeans
<1>9. BeforeRevocation(t, c) = "ok"
  BY <1>5, <1>6, <1>7, <1>8, BeforeMeans
<1>10. PICK v : v = VerifyTct(t, c, Answer("clear")).verdict
  OBVIOUS
<1>11. v = "ok"
  <2>1. VerifyTct(t, c, Answer("clear")) = CheckRevocation(t, c, Answer("clear"))
    BY <1>9 DEF VerifyTct
  <2>2. CheckRevocation(t, c, Answer("clear")) = ApplyRevocation("fail_open", Answer("clear"), t.grants)
    BY <1>2 DEF CheckRevocation
  <2> QED
    BY <1>10, <2>1, <2>2, FailOpenPasses
<1>12. ParticipantVerdict(b, e, cap) = IF v = "IssuerMismatch" THEN "CoordinatorIssuerMismatch" ELSE v
  BY <1>1, <1>10 DEF ParticipantVerdict
<1> QED
  BY <1>11, <1>12

\* The coordinator's manifest verifies as long as the clock runs.
LEMMA CoordinatorVerifies ==
  ASSUME NEW c \in Coordinators, NEW m, m = CoordinatorManifest(c)
  PROVE  m.aid = c /\ \A t \in 0..MaxBundleTime : VerifyManifest(m, t, FALSE, None) = "ok"
<1>1. PICK hint : hint = [kind |-> "pinned_key", subject |-> "s", issuer |-> None, public_key |-> c]
  OBVIOUS
<1>2. PICK d : d = [hint |-> hint, handshake_endpoint |-> "https", anchors |-> << >>,
                    identity_types |-> <<"pinned_key">>, offered |-> << >>, required |-> None,
                    ttl |-> MaxBundleTime]
  OBVIOUS
<1>9. PICK now, challenge : now = 0 /\ challenge = "c"
  OBVIOUS
<1>3. m = Built(d, c, now, challenge, None)
  BY <1>1, <1>2, <1>9 DEF CoordinatorManifest
<1>4. c # None /\ MaxBundleTime \in Nat /\ MaxBundleTime >= 1
  BY BundleAssumption, TokenAssumption
<1>5. PinnedDraft(d, c)
  <2>1. PICK l, n : l = <<"pinned_key">> /\ n = << >>
    OBVIOUS
  <2>2. DOMAIN l = {1} /\ l[1] = "pinned_key" /\ Len(l) = 1 /\ DOMAIN n = {} /\ Len(n) = 0
    BY <2>1
  <2>3. {l[k] : k \in DOMAIN l} = {"pinned_key"} /\ {n[k] : k \in DOMAIN n} = {}
    BY <2>2
  <2>4. AllUnique(l) /\ AllUnique(n)
    BY <2>2, <2>3, FS_Singleton, FS_EmptySet DEF AllUnique
  <2>5. IsCapabilityList(n)
    BY <2>2, <2>4 DEF IsCapabilityList
  <2>6. d.offered = n /\ d.identity_types = l
    BY <1>2, <2>1
  <2>7. /\ d.hint = hint /\ d.handshake_endpoint = "https" /\ d.anchors = << >> /\ d.required = None
        /\ hint.kind = "pinned_key" /\ hint.public_key = c /\ hint.issuer = None /\ hint.subject # ""
    BY <1>1, <1>2
  <2> QED
    BY <2>4, <2>5, <2>6, <2>7 DEF PinnedDraft
<1>6. d.ttl = MaxBundleTime
  BY <1>2
<1>7. now \in Nat /\ d.ttl \in Nat /\ now + d.ttl >= 1 /\ now + d.ttl = MaxBundleTime
  BY <1>4, <1>6, <1>9
<1>8. m.aid = c /\ VerifiesUntil(m, now + d.ttl)
  <2>1. c # None
    BY <1>4
  <2> QED
    BY <1>3, <1>5, <1>7, <2>1, BuiltVerifies
<1>10. \A t \in 0..MaxBundleTime : t \in Nat /\ t <= now + d.ttl
  BY <1>4, <1>7
<1> QED
  BY <1>8, <1>10 DEF VerifiesUntil

\* Builder and verifier agree.
LEMMA BuiltVerify ==
  ASSUME SbInv
  PROVE  BuiltBundleVerifies
<1> SUFFICES ASSUME NEW b \in made, NEW k \in DOMAIN b.participants,
                    \A j \in DOMAIN b.participants : SoundToken(b.participants[j].tct)
             PROVE  BundleVerdict(b, b.participants[k].aid, CoordinatorManifest(b.coordinator)) = "ok"
  BY DEF BuiltBundleVerifies
<1>1. MadeFits(b) /\ btime \in 0..MaxBundleTime
  BY DEF SbInv
<1>2. /\ b.participants \in Seq(Entries) /\ b.participants # << >> /\ b.coordinator \in Coordinators
      /\ b.version = PROTOCOL_VERSION /\ b.expires_at = MinExp(b.participants)
      /\ b.signature = [by |-> b.coordinator, over |-> BundleSigningBytes(b)]
  BY <1>1 DEF MadeFits
<1>3. btime \in Nat
  BY <1>1
<1>4. PICK m : m = CoordinatorManifest(b.coordinator)
  OBVIOUS
<1>5. m.aid = b.coordinator /\ VerifyManifest(m, btime, FALSE, None) = "ok"
  BY <1>1, <1>2, <1>4, CoordinatorVerifies
<1>6. \A j \in DOMAIN b.participants :
        ParticipantVerdict(b, b.participants[j], CapOf(m)) = "ok"
  <2> TAKE j \in DOMAIN b.participants
  <2>1. PICK e, t : e = b.participants[j] /\ t = e.tct
    OBVIOUS
  <2>2. e \in Entries
    BY <1>2, <2>1
  <2>3. t \in Tct
    BY <2>1, <2>2, EntryIs
  <2>4. t.iss = b.coordinator /\ t.aud = e.aid
    BY <1>1, <2>1 DEF MadeFits
  <2>5. SoundToken(t)
    BY <2>1
  <2>6. CapOf(m) \in {None, CoordinatorManifest(t.iss).expires_at}
    BY <1>4, <2>4 DEF CapOf
  <2> QED
    BY <1>3, <2>1, <2>3, <2>4, <2>5, <2>6, SoundVerifies
<1>7. AllHold(EntryChecks(b, m))
  <2>1. ASSUME NEW j \in DOMAIN b.participants PROVE EntryChecks(b, m)[j][1]
    <3>1. PICK v : v = ParticipantVerdict(b, b.participants[j], CapOf(m))
      OBVIOUS
    <3>2. v = "ok"
      BY <1>6, <3>1
    <3>3. EntryChecks(b, m)[j] = Sub(v)
      BY <3>1 DEF EntryChecks
    <3>4. Sub(v)[1]
      BY <3>2, ConditionIs DEF Sub
    <3> QED
      BY <3>3, <3>4
  <2>2. DOMAIN EntryChecks(b, m) = DOMAIN b.participants
    BY DEF EntryChecks
  <2> QED
    BY <2>1, <2>2 DEF AllHold
<1>8. AllHold(HeadChecks(b, m))
  <2>1. b.expires_at >= btime
    <3>1. PICK j \in DOMAIN b.participants : MinExp(b.participants) = b.participants[j].tct.exp
      BY <1>2, MinExpMeans
    <3>2. PICK t : t = b.participants[j].tct
      OBVIOUS
    <3>3. btime <= t.exp /\ t.exp \in Nat
      <4>1. SoundToken(t)
        BY <3>2
      <4>2. t.exp \in Nat
        BY <1>2, <3>2, MinExpMeans
      <4> QED
        BY <4>1, <4>2 DEF SoundToken
    <3> QED
      BY <1>2, <1>3, <3>1, <3>2, <3>3
  <2>2. ExpiryWindowHolds(b)
    BY <1>2 DEF ExpiryWindowHolds
  <2>3. b.signature.by = b.coordinator /\ b.signature.over = BundleSigningBytes(b)
    BY <1>2
  <2> QED
    BY <1>2, <1>5, <2>1, <2>2, <2>3, HeadMeans
<1>9. AllHold(MemberChecks(b, b.participants[k].aid))
  BY MemberMeans
<1> QED
  BY <1>2, <1>4, <1>7, <1>8, <1>9, BundleMeans

\* Every step keeps the invariant.
LEMMA SbStep ==
  ASSUME SbInv, [SbNext]_sbVars
  PROVE  SbInv'
<1>1. CASE UNCHANGED sbVars
  BY <1>1 DEF SbInv, sbVars
<1>2. ASSUME NEW c \in Coordinators, NEW s \in SessionIds, NEW parts \in EntryLists, Build(c, s, parts)
      PROVE  SbInv'
  <2>1. PICK b : b = BuiltBundle(c, s, parts)
    OBVIOUS
  <2>2. MadeFits(b)
    BY <1>2, <2>1, BuildFits DEF Build
  <2>3. made' = made \cup {b} /\ UNCHANGED <<btime, denied, stored, verified>>
    BY <1>2, <2>1 DEF Build
  <2> QED
    BY <2>2, <2>3 DEF SbInv
<1>3. ASSUME NEW doc \in Posts, StoreBundle(doc) PROVE SbInv'
  <2>1. PICK b : b = doc.body
    OBVIOUS
  <2>2. StoredFits(b)
    BY <2>1, PostFits
  <2>3. stored' = [stored EXCEPT ![b.session_id] = b] /\ UNCHANGED <<btime, denied, made, verified>>
    BY <1>3, <2>1 DEF StoreBundle
  <2>4. DOMAIN stored' = SessionIds /\ \A s \in SessionIds : stored'[s] = stored[s] \/ stored'[s] = b
    BY <2>3 DEF SbInv
  <2> QED
    BY <2>2, <2>3, <2>4 DEF SbInv
<1>4. ASSUME NEW me \in {t.aud : t \in TokenPool}, NEW s \in SessionIds, NEW m, FetchBundle(me, s, m)
      PROVE  SbInv'
  <2>1. PICK b, v : /\ b = stored[s]
                    /\ v = [by |-> me, at |-> btime, bundle |-> b, outcome |-> Outcome(b), denied |-> denied]
    OBVIOUS
  <2>2. /\ b # None /\ BundleVerdict(b, me, m) = "ok"
        /\ verified' = verified \cup {v} /\ UNCHANGED <<btime, denied, made, stored>>
    BY <1>4, <2>1 DEF FetchBundle
  <2>3. StoredFits(b) /\ btime \in Nat
    BY <2>1, <2>2 DEF SbInv
  <2>4. v.by = me /\ v.at = btime /\ v.bundle = b /\ v.outcome = Outcome(b) /\ v.denied = denied
    BY <2>1
  <2>5. VerifiedFits(v)
    BY <2>2, <2>3, <2>4, AcceptedFits
  <2> QED
    BY <2>2, <2>5 DEF SbInv
<1>5. ASSUME NEW t \in TokenPool, DenyParticipant(t) PROVE SbInv'
  BY <1>5 DEF DenyParticipant, SbInv
<1>6. CASE SbTick
  <2>1. btime' \in 0..MaxBundleTime
    BY <1>6, BundleAssumption DEF SbTick, SbInv
  <2> QED
    BY <1>6, <2>1 DEF SbTick, SbInv
<1>7. \/ \E c \in Coordinators, s \in SessionIds, parts \in EntryLists : Build(c, s, parts)
      \/ \E doc \in Posts : StoreBundle(doc)
      \/ \E me \in {t.aud : t \in TokenPool}, s \in SessionIds,
            m \in {None} \cup {CoordinatorManifest(c) : c \in Coordinators} : FetchBundle(me, s, m)
      \/ \E t \in TokenPool : DenyParticipant(t)
      \/ SbTick \/ UNCHANGED sbVars
  BY DEF SbNext
<1> QED
  BY <1>1, <1>2, <1>3, <1>4, <1>5, <1>6, <1>7

\* What is built, stored and accepted has its shape, whatever is posted.
THEOREM BundlesCorrect == SbSpec => []SbInv
<1>1. SbInit => SbInv
  BY BundleAssumption DEF SbInit, SbInv
<1>2. SbInv /\ [SbNext]_sbVars => SbInv'
  BY SbStep
<1> QED
  BY <1>1, <1>2, PTL DEF SbSpec

\* A bundle that a participant accepts is sound, whatever was left at the
\* server, and one built of sound tokens is accepted by all it names.
THEOREM BundlesExact == SbSpec => []BundleExact
<1>1. SbInv => BundleSound
  BY DEF SbInv, VerifiedFits, BundleSound
<1>2. SbInv => BundleExact
  BY <1>1, BuiltVerify DEF BundleExact
<1> QED
  BY <1>2, BundlesCorrect, PTL

(***************************************************************************)
(* The inductive invariant of delegation: what a signed token looks like,  *)
(* and how one of an agent that keeps to the builders hangs together with  *)
(* what it was built from. Tokens do not change, so only signing can       *)
(* disturb it.                                                             *)
(***************************************************************************)

\* A delegation rests on a voucher there is, if on any, and its chain is of
\* delegations there are.
HopShape(t, H, V) ==
  /\ {t.signer, t.iss, t.sub} \subseteq Agents /\ t.aud = Verifier /\ t.jkt = t.sub
  /\ t.flaw = "none" /\ t.scope \subseteq Grants /\ t.exp \in Nat
  /\ t.voucher \in {None} \cup V /\ t.jti \in {None} \cup Jtis
  /\ t.chain = {} \/ \E s \in Seq(H) : t.chain = {s}

\* What DelegationBuilder makes, and ChainedDelegationBuilder::new.
FromVoucher(t, V) ==
  /\ t.chain = {} /\ t.voucher \in V /\ t.iss = t.voucher.sub
  /\ t.exp <= t.voucher.exp /\ t.scope \subseteq t.voucher.grants

\* What ChainedDelegationBuilder::extending makes of the delegation p.
FromHop(t, p) ==
  /\ t.chain = {Append(ChainOf(p), p)} /\ t.voucher = None
  /\ t.iss = p.sub /\ t.exp <= p.exp /\ t.scope \subseteq p.scope
  /\ p.jti # None /\ t.jti # None
  /\ \A k \in DOMAIN Append(ChainOf(p), p) : Append(ChainOf(p), p)[k].jti # t.jti

BuiltHop(t, H, V) ==
  /\ t.signer = t.iss /\ t.iss # t.sub /\ t.scope # {} /\ t.chain_hash = t.chain
  /\ FromVoucher(t, V) \/ \E p \in H : FromHop(t, p)

DelegationTypes ==
  /\ clock \in Nat
  /\ \A v \in Vouchers : v \in Vouched /\ v.grants # {}
  /\ \A t \in Hops : HopShape(t, Hops, Vouchers)
  /\ TakenJtis \subseteq {None} \cup Jtis

DelegationInv ==
  /\ DelegationTypes
  /\ \A t \in Hops : t.signer \notin Lax => BuiltHop(t, Hops, Vouchers)

\* The chain that a delegation carries.
LEMMA ChainIs ==
  ASSUME NEW t
  PROVE  /\ t.chain = {} => ChainOf(t) = << >>
         /\ \A s : t.chain = {s} => ChainOf(t) = s
<1>1. \A s : t.chain = {s} => (CHOOSE x \in t.chain : TRUE) = s
  OBVIOUS
<1> QED
  BY <1>1 DEF ChainOf

\* The chain, with the delegation at its end, is of delegations there are.
LEMMA ChainShape ==
  ASSUME NEW H, NEW V, NEW t \in H, HopShape(t, H, V)
  PROVE  /\ ChainOf(t) \in Seq(H) /\ Append(ChainOf(t), t) \in Seq(H)
         /\ Len(Append(ChainOf(t), t)) = Len(ChainOf(t)) + 1 /\ Len(ChainOf(t)) \in Nat
         /\ Append(ChainOf(t), t)[Len(ChainOf(t)) + 1] = t
         /\ \A k \in 1..Len(ChainOf(t)) : Append(ChainOf(t), t)[k] = ChainOf(t)[k]
<1>1. << >> \in Seq(H)
  OBVIOUS
<1>2. ChainOf(t) \in Seq(H)
  BY <1>1, ChainIs DEF HopShape
<1> QED
  BY <1>2

\* With more tokens about, a token keeps its shape.
LEMMA ShapeStays ==
  ASSUME NEW H, NEW V, NEW I, NEW W, H \subseteq I, V \subseteq W, NEW t, HopShape(t, H, V)
  PROVE  HopShape(t, I, W) /\ (BuiltHop(t, H, V) => BuiltHop(t, I, W))
<1>1. t.chain = {} \/ \E s \in Seq(I) : t.chain = {s}
  <2>1. \A s \in Seq(H) : s \in Seq(I)
    OBVIOUS
  <2> QED
    BY <2>1 DEF HopShape
<1>2. t.voucher \in {None} \cup W
  BY DEF HopShape
<1>3. HopShape(t, I, W)
  BY <1>1, <1>2 DEF HopShape
<1>4. BuiltHop(t, H, V) => BuiltHop(t, I, W)
  BY DEF BuiltHop, FromVoucher
<1> QED
  BY <1>3, <1>4

\* A delegation added to what was signed.
LEMMA HopSigned ==
  ASSUME DelegationInv, NEW t, t.typ = "delegation", HopShape(t, Hops, Vouchers),
         t.signer \notin Lax => BuiltHop(t, Hops, Vouchers),
         signed' = signed \cup {t}, clock' = clock
  PROVE  DelegationInv'
<1>1. Hops' = Hops \cup {t} /\ Vouchers' = Vouchers
  BY DEF Hops, Vouchers
<1>2. \A u \in Hops' : HopShape(u, Hops, Vouchers) /\ (u.signer \notin Lax => BuiltHop(u, Hops, Vouchers))
  BY <1>1 DEF DelegationInv, DelegationTypes
<1>3. \A u \in Hops' : HopShape(u, Hops', Vouchers') /\ (u.signer \notin Lax => BuiltHop(u, Hops', Vouchers'))
  BY <1>1, <1>2, ShapeStays
<1>4. clock' \in Nat /\ \A v \in Vouchers' : v \in Vouched /\ v.grants # {}
  BY <1>1 DEF DelegationInv, DelegationTypes
<1>5. TakenJtis' \subseteq {None} \cup Jtis
  <2>1. TakenJtis' \subseteq TakenJtis \cup {t.jti}
    BY DEF TakenJtis
  <2>2. TakenJtis \subseteq {None} \cup Jtis /\ t.jti \in {None} \cup Jtis
    BY DEF DelegationInv, DelegationTypes, HopShape
  <2> QED
    BY <2>1, <2>2
<1> QED
  BY <1>3, <1>4, <1>5 DEF DelegationInv, DelegationTypes

\* A hop of a builder's draft.
LEMMA DraftShape ==
  ASSUME DelegationInv, NEW me \in Agents, NEW sub \in Agents, NEW allowed, allowed \subseteq Grants,
         NEW max_exp \in Nat, NEW voucher, NEW jti, NEW chain,
         NEW t \in Drafts(me, sub, Verifier, allowed, max_exp, voucher, jti, chain)
  PROVE  /\ t.typ = "delegation" /\ t.signer = me /\ t.iss = me /\ t.sub = sub /\ t.aud = Verifier
         /\ t.jkt = sub /\ t.flaw = "none" /\ t.scope # {} /\ t.scope \subseteq allowed
         /\ t.exp \in Nat /\ t.exp <= max_exp
         /\ t.voucher = voucher /\ t.jti = jti /\ t.chain = chain /\ t.chain_hash = chain
<1>1. PICK scope \in Scopes, ttl \in Ttls :
        /\ scope # {} /\ scope \subseteq allowed
        /\ t = Hop(me, sub, Verifier, scope, Least(clock + ttl, max_exp), voucher, jti, chain, chain)
  BY DEF Drafts
<1>2. clock \in Nat /\ ttl \in Nat
  BY DelegationAssumption DEF DelegationInv, DelegationTypes
<1>3. PICK e : e = Least(clock + ttl, max_exp)
  OBVIOUS
<1>4. e \in Nat /\ e <= max_exp
  BY <1>2, <1>3 DEF Least
<1>5. t = Hop(me, sub, Verifier, scope, e, voucher, jti, chain, chain)
  BY <1>1, <1>3
<1> QED
  BY <1>1, <1>4, <1>5 DEF Hop

\* A random id is one of the ids, and no token has it.
LEMMA NewJtiIs ==
  ASSUME NEW j \in NewJtis
  PROVE  j \in Jtis /\ j # None /\ \A t \in Hops : t.jti # j
<1>1. PICK unused : unused = Jtis \ TakenJtis
  OBVIOUS
<1>2. unused # {} /\ j = CHOOSE x \in unused : TRUE
  BY <1>1 DEF NewJtis
<1>3. j \in unused
  BY <1>2
<1>4. \A t \in Hops : t.jti \in TakenJtis
  BY DEF Hops, TakenJtis
<1> QED
  BY <1>1, <1>3, <1>4, TokenAssumption

\* What a voucher there is says.
LEMMA VoucherIs ==
  ASSUME DelegationInv, NEW v \in Vouchers
  PROVE  /\ v \in Vouched /\ v # None /\ v.typ = "voucher" /\ v.signer = Verifier /\ v.iss = Verifier
         /\ v.flaw = "none" /\ v.sub \in Agents /\ v.sub # Verifier /\ v.grants \subseteq Grants
         /\ v.grants # {} /\ v.exp \in Nat
<1>1. v \in Vouched /\ v.grants # {}
  BY DEF DelegationInv, DelegationTypes
<1> QED
  BY <1>1, DelegationAssumption DEF Vouched

\* DelegationBuilder, and ChainedDelegationBuilder::new.
LEMMA DelegateKeeps ==
  ASSUME DelegationInv, NEW me \in Agents \ Lax, NEW sub \in Agents, NEW v \in Vouchers,
         v.sub = me, sub # me, NEW jti \in {None} \cup Jtis,
         NEW t \in Drafts(me, sub, v.iss, v.grants, v.exp, v, jti, {}),
         signed' = signed \cup {t}, clock' = clock
  PROVE  DelegationInv'
<1>1. v.iss = Verifier /\ v.grants \subseteq Grants /\ v.exp \in Nat
  BY VoucherIs
<1>2. PICK e, g : e = v.exp /\ g = v.grants
  OBVIOUS
<1>3. t \in Drafts(me, sub, Verifier, g, e, v, jti, {})
  BY <1>1, <1>2
<1>4. /\ t.typ = "delegation" /\ t.signer = me /\ t.iss = me /\ t.sub = sub /\ t.aud = Verifier
      /\ t.jkt = sub /\ t.flaw = "none" /\ t.scope # {} /\ t.scope \subseteq g
      /\ t.exp \in Nat /\ t.exp <= e
      /\ t.voucher = v /\ t.jti = jti /\ t.chain = {} /\ t.chain_hash = {}
  BY <1>1, <1>2, <1>3, DraftShape
<1>5. HopShape(t, Hops, Vouchers)
  BY <1>1, <1>2, <1>4 DEF HopShape
<1>6. BuiltHop(t, Hops, Vouchers)
  BY <1>2, <1>4 DEF BuiltHop, FromVoucher
<1> QED
  BY <1>4, <1>5, <1>6, HopSigned

\* ChainedDelegationBuilder::extending.
LEMMA ExtendKeeps ==
  ASSUME DelegationInv, NEW me \in Agents \ Lax, NEW sub \in Agents, NEW p \in Hops,
         NEW jti \in NewJtis, Extend(me, sub, p, jti)
  PROVE  DelegationInv'
<1>1. HopShape(p, Hops, Vouchers)
  BY DEF DelegationInv, DelegationTypes
<1>2. p.aud = Verifier /\ p.scope \subseteq Grants /\ p.exp \in Nat
  BY <1>1 DEF HopShape
<1>3. PICK e, g, s : e = p.exp /\ g = p.scope /\ s = Append(ChainOf(p), p)
  OBVIOUS
<1>4. /\ p.sub = me /\ p.jti # None /\ sub # me /\ clock' = clock
      /\ \E t \in Drafts(me, sub, Verifier, g, e, None, jti, {s}) : signed' = signed \cup {t}
  BY <1>2, <1>3 DEF Extend
<1>5. PICK t \in Drafts(me, sub, Verifier, g, e, None, jti, {s}) : signed' = signed \cup {t}
  BY <1>4
<1>0. me \in Agents /\ g \subseteq Grants /\ e \in Nat
  BY <1>2, <1>3
<1>6. /\ t.typ = "delegation" /\ t.signer = me /\ t.iss = me /\ t.sub = sub /\ t.aud = Verifier
      /\ t.jkt = sub /\ t.flaw = "none" /\ t.scope # {} /\ t.scope \subseteq g
      /\ t.exp \in Nat /\ t.exp <= e
      /\ t.voucher = None /\ t.jti = jti /\ t.chain = {s} /\ t.chain_hash = {s}
  <2>1. PICK ch : ch = {s}
    OBVIOUS
  <2>2. t \in Drafts(me, sub, Verifier, g, e, None, jti, ch)
    BY <2>1
  <2> QED
    BY <1>0, <2>1, <2>2, DraftShape
<1>7. s \in Seq(Hops)
  BY <1>1, <1>3, ChainShape
<1>8. jti \in Jtis /\ jti # None /\ \A u \in Hops : u.jti # jti
  BY NewJtiIs
<1>9. HopShape(t, Hops, Vouchers)
  BY <1>2, <1>3, <1>6, <1>7, <1>8 DEF HopShape
<1>10. \A k \in DOMAIN s : s[k].jti # jti
  BY <1>7, <1>8
<1>11. FromHop(t, p)
  BY <1>3, <1>4, <1>6, <1>8, <1>10 DEF FromHop
<1>12. BuiltHop(t, Hops, Vouchers)
  BY <1>4, <1>6, <1>11 DEF BuiltHop
<1> QED
  BY <1>4, <1>5, <1>6, <1>9, <1>12, HopSigned

\* What a lax agent signs.
LEMMA ForgeKeeps ==
  ASSUME DelegationInv, NEW l \in Lax, NEW sub \in Agents, Forge(l, sub)
  PROVE  DelegationInv'
<1>1. PICK iss \in {l} \cup Grantees, scope \in ClaimedScopes, v \in {None} \cup Vouchers,
           jti \in {None} \cup TakenJtis \cup NewJtis, chain \in Chains :
        signed' = signed \cup
          {[Hop(l, sub, Verifier, scope, clock, v, jti, chain, chain) EXCEPT !.iss = iss]}
  BY DEF Forge
<1>2. PICK t : t = [Hop(l, sub, Verifier, scope, clock, v, jti, chain, chain) EXCEPT !.iss = iss]
  OBVIOUS
<1>3. /\ t.typ = "delegation" /\ t.signer = l /\ t.iss = iss /\ t.sub = sub /\ t.aud = Verifier
      /\ t.jkt = sub /\ t.flaw = "none" /\ t.scope = scope /\ t.exp = clock
      /\ t.voucher = v /\ t.jti = jti /\ t.chain = chain
  BY <1>2 DEF Hop
<1>4. l \in Agents /\ iss \in Agents /\ scope \subseteq Grants
  BY DelegationAssumption
<1>5. clock \in Nat /\ clock' = clock
  BY DEF DelegationInv, DelegationTypes, Forge
<1>6. jti \in {None} \cup Jtis
  <2>1. \A j \in NewJtis : j \in Jtis
    BY NewJtiIs
  <2>2. \A j \in TakenJtis : j \in {None} \cup Jtis
    BY DEF DelegationInv, DelegationTypes
  <2> QED
    BY <2>1, <2>2
<1>7. chain = {} \/ \E s \in Seq(Hops) : chain = {s}
  <2>1. << >> \in Seq(Hops) /\ \A s \in Hops : <<s>> \in Seq(Hops) /\ \A u \in Hops : <<s, u>> \in Seq(Hops)
    OBVIOUS
  <2>2. chain = {} \/ chain = {<< >>} \/ (\E s \in Hops : chain = {<<s>>})
        \/ \E s, u \in Hops : chain = {<<s, u>>}
    BY DEF Chains
  <2> QED
    BY <2>1, <2>2
<1>8. HopShape(t, Hops, Vouchers)
  BY <1>3, <1>4, <1>5, <1>6, <1>7 DEF HopShape
<1> QED
  BY <1>1, <1>2, <1>3, <1>5, <1>8, HopSigned

\* The verifier's grant: a TCT, and a voucher that names the grants.
LEMMA GrantKeeps ==
  ASSUME DelegationInv, NEW sub \in Grantees, NEW grants \in OfferSets, NEW ttl \in GrantTtls,
         NEW jti \in NewJtis, Grant(sub, grants, ttl, jti)
  PROVE  DelegationInv'
<1> DEFINE b == [subject |-> sub, audience |-> sub, subject_pubkey |-> sub, grants |-> grants,
                 ttl |-> ttl, mint_voucher |-> TRUE, jti |-> jti, ext |-> FALSE, attestation |-> FALSE]
           v == [typ |-> "voucher", signer |-> Verifier, flaw |-> "none", iss |-> Verifier,
                 sub |-> sub, grants |-> grants, iat |-> clock, exp |-> clock + ttl, src_jti |-> jti]
<1>1. /\ DraftVerdict(Verifier, b) = "ok" /\ clock' = clock
      /\ signed' = signed \cup {BuiltTct(Verifier, b, clock)} \cup BuiltVouchers(Verifier, b, clock)
  BY DEF Grant
<1>2. Attesting(Verifier, b) = b /\ b.attestation = FALSE
  BY DEF Attesting
<1>3. BuiltVouchers(Verifier, b, clock) = {v}
  BY <1>2 DEF BuiltVouchers
<1>4. PICK t : t = BuiltTct(Verifier, b, clock)
  OBVIOUS
<1>5. t.typ = "tct" /\ t.jti = jti
  BY <1>2, <1>4 DEF BuiltTct
<1>6. grants # {}
  <2> DEFINE d == Attesting(Verifier, b)
         L == <<
          <<b.attestation => b.ext, "MissingField">>,
          <<b.attestation \/ ATTESTATION_GRANT \notin b.grants, "AttestationMarker">>,
          <<None \notin {d.subject, d.audience, d.subject_pubkey}, "MissingField">>,
          <<d.grants # {}, "EmptyGrants">>,
          <<d.grants \cap Spaced = {}, "GrantWhitespace">>,
          <<d.subject = d.audience, "AudienceMismatch">>,
          <<d.subject # Verifier \/ d.attestation, "SelfIssued">>,
          <<d.subject_pubkey = d.subject, "CnfMalformed">>,
          <<d.jti \in Jtis, "JtiNotV4">> >>
  <2>0. DraftVerdict(Verifier, b) = Verdict(L)
    BY DEF DraftVerdict
  <2> HIDE DEF L
  <2>1. PICK S : S = L
    OBVIOUS
  <2>2. d.grants = grants
    BY <1>2
  <2> HIDE DEF d
  <2>3. DOMAIN S = 1..9 /\ S[4] = <<d.grants # {}, "EmptyGrants">>
    BY <2>1 DEF L
  <2>4. S[1][2] # "ok" /\ S[2][2] # "ok" /\ S[3][2] # "ok" /\ S[4][2] # "ok" /\ S[5][2] # "ok"
        /\ S[6][2] # "ok" /\ S[7][2] # "ok" /\ S[8][2] # "ok" /\ S[9][2] # "ok"
    BY <2>1 DEF L
  <2>5. \A k \in 1..9 : k = 1 \/ k = 2 \/ k = 3 \/ k = 4 \/ k = 5 \/ k = 6 \/ k = 7 \/ k = 8 \/ k = 9
    OBVIOUS
  <2>6. \A k \in 1..9 : S[k][2] # "ok" \/ S[k][1]
    BY <2>4, <2>5
  <2>7. Verdict(S) = "ok"
    BY <1>1, <2>0, <2>1
  <2>8. S[4][1]
    <3>1. 9 \in Nat /\ 4 \in 1..9
      OBVIOUS
    <3>2. \A k \in 1..9 : S[k][1]
      BY <2>3, <2>6, <2>7, <3>1, VerdictHolds
    <3> QED
      BY <3>1, <3>2
  <2>9. d.grants # {}
    BY <2>3, <2>8, ConditionOf
  <2> QED
    BY <2>2, <2>9
<1>7. v \in Vouched
  <2>1. jti \in Jtis
    BY NewJtiIs
  <2>2. clock \in Nat /\ ttl \in Nat /\ grants \subseteq Grants
    BY DelegationAssumption DEF DelegationInv, DelegationTypes
  <2> QED
    BY <2>1, <2>2 DEF Vouched
<1>8. v.typ = "voucher" /\ v.grants = grants
  OBVIOUS
<1>9. PICK w : w = v
  OBVIOUS
<1> HIDE DEF b, v
<1>10. signed' = signed \cup {t, w}
  BY <1>1, <1>3, <1>4, <1>9
<1>11. w.typ = "voucher" /\ w \in Vouched /\ w.grants # {}
  BY <1>6, <1>7, <1>8, <1>9
<1>12. Hops' = Hops /\ Vouchers' = Vouchers \cup {w}
  BY <1>5, <1>10, <1>11 DEF Hops, Vouchers
<1>13. \A u \in Hops' : HopShape(u, Hops, Vouchers) /\ (u.signer \notin Lax => BuiltHop(u, Hops, Vouchers))
  BY <1>12 DEF DelegationInv, DelegationTypes
<1>14. \A u \in Hops' : HopShape(u, Hops', Vouchers') /\ (u.signer \notin Lax => BuiltHop(u, Hops', Vouchers'))
  BY <1>12, <1>13, ShapeStays
<1>15. clock' \in Nat /\ \A u \in Vouchers' : u \in Vouched /\ u.grants # {}
  BY <1>1, <1>11, <1>12 DEF DelegationInv, DelegationTypes
<1>16. TakenJtis' \subseteq {None} \cup Jtis
  <2>1. TakenJtis' \subseteq TakenJtis \cup {t.jti}
    BY <1>10, <1>11 DEF TakenJtis
  <2>2. TakenJtis \subseteq {None} \cup Jtis
    BY DEF DelegationInv, DelegationTypes
  <2>3. t.jti \in Jtis
    BY <1>5, NewJtiIs
  <2> QED
    BY <2>1, <2>2, <2>3
<1> QED
  BY <1>14, <1>15, <1>16 DEF DelegationInv, DelegationTypes

\* Whatever happens, the invariant is kept.
LEMMA DelegationStep ==
  ASSUME DelegationInv, [Next]_vars
  PROVE  DelegationInv'
<1>1. ASSUME signed' = signed, clock' \in Nat PROVE DelegationInv'
  <2>1. Hops' = Hops /\ Vouchers' = Vouchers /\ TakenJtis' = TakenJtis
    BY <1>1 DEF Hops, Vouchers, TakenJtis
  <2>2. \A v \in Vouchers : v \in Vouched /\ v.grants # {}
    BY DEF DelegationInv, DelegationTypes
  <2>3. \A t \in Hops : HopShape(t, Hops, Vouchers) /\ (t.signer \notin Lax => BuiltHop(t, Hops, Vouchers))
    BY DEF DelegationInv, DelegationTypes
  <2>4. \A t \in Hops' : HopShape(t, Hops', Vouchers')
    BY <2>1, <2>3, ShapeStays
  <2>5. \A t \in Hops' : t.signer \notin Lax => BuiltHop(t, Hops', Vouchers')
    BY <2>1, <2>3, ShapeStays
  <2>6. TakenJtis' \subseteq {None} \cup Jtis
    BY <2>1 DEF DelegationInv, DelegationTypes
  <2> QED
    BY <1>1, <2>1, <2>2, <2>4, <2>5, <2>6 DEF DelegationInv, DelegationTypes
<1>2. clock \in Nat
  BY DEF DelegationInv, DelegationTypes
<1>3. CASE UNCHANGED vars
  BY <1>1, <1>2, <1>3 DEF vars
<1>4. CASE Tick
  BY <1>1, <1>2, <1>4 DEF Tick
<1>5. CASE \E t \in signed : RevokeArtifact(t)
  BY <1>1, <1>2, <1>5 DEF RevokeArtifact
<1>6. CASE \E sub \in Grantees, grants \in OfferSets, ttl \in GrantTtls, jti \in NewJtis :
             Grant(sub, grants, ttl, jti)
  BY <1>6, GrantKeeps
<1>7. CASE Sign
  <2>1. None \in {None} \cup Jtis /\ \A jti \in NewJtis : jti \in {None} \cup Jtis
    BY NewJtiIs
  <2>2. ASSUME NEW me \in Agents \ Lax, NEW sub \in Agents, NEW v \in Vouchers, Delegate(me, sub, v)
        PROVE  DelegationInv'
    BY <2>1, <2>2, DelegateKeeps DEF Delegate
  <2>3. ASSUME NEW me \in Agents \ Lax, NEW sub \in Agents, NEW v \in Vouchers, NEW jti \in NewJtis,
               DelegateChained(me, sub, v, jti)
        PROVE  DelegationInv'
    BY <2>1, <2>3, DelegateKeeps DEF DelegateChained
  <2> QED
    BY <1>7, <2>2, <2>3, ExtendKeeps, ForgeKeeps DEF Sign
<1> QED
  BY <1>3, <1>4, <1>5, <1>6, <1>7 DEF Next

\* What agents sign hangs together, however many there are.
THEOREM DelegationCorrect == Spec => []DelegationInv
<1>1. Init => DelegationInv
  <2>1. Init => Hops = {} /\ Vouchers = {} /\ TakenJtis = {} /\ clock = 0
    BY DEF Init, Hops, Vouchers, TakenJtis
  <2> QED
    BY <2>1 DEF DelegationInv, DelegationTypes
<1>2. DelegationInv /\ [Next]_vars => DelegationInv'
  BY DelegationStep
<1> QED
  BY <1>1, <1>2, PTL DEF Spec

(***************************************************************************)
(* What a delegation is looked up for, and what is left of its scope.      *)
(***************************************************************************)

\* delegation_revocation: what passes is not listed, and nothing is added to
\* its scope; what is not listed passes, or has nothing safe left.
LEMMA LookupMeans ==
  ASSUME NEW issuer, NEW jti, NEW scope
  PROVE  /\ AfterRevocation(issuer, jti, scope).verdict = "ok" =>
              ~Listed(issuer, jti) /\ AfterRevocation(issuer, jti, scope).grants \subseteq scope
         /\ ~Listed(issuer, jti) =>
              AfterRevocation(issuer, jti, scope).verdict \in {"ok", "SafeSubsetEmpty"}
<1>1. PICK status : status = Status(issuer, jti)
  OBVIOUS
<1>2. PICK left : left = IF "check" = "check" /\ status.kind = "soft" THEN scope \cap status.safe ELSE scope
  OBVIOUS
<1> DEFINE source == "check"
           a == <<source # "self_attestation", "RevocationUnavailable">>
           b == <<source = "fail_open" \/ status.kind # "unavailable", "RevocationUnavailable">>
           c == <<source = "fail_open" \/ status.kind # "revoked", "Revoked">>
           d == <<left # {} \/ status.kind # "soft", "SafeSubsetEmpty">>
           v == Verdict(<<a, b, c, d>>)
           r == ApplyRevocation("check", status, scope)
<1>3. r = [verdict |-> v, grants |-> IF v = "ok" THEN left ELSE {}]
  BY <1>2 DEF ApplyRevocation
<1>4. /\ AfterRevocation(issuer, jti, scope).verdict = IF r.verdict = "Revoked" THEN "SourceTctRevoked" ELSE r.verdict
      /\ AfterRevocation(issuer, jti, scope).grants = r.grants
  <2>1. AfterRevocation(issuer, jti, scope) = [r EXCEPT !.verdict = IF @ = "Revoked" THEN "SourceTctRevoked" ELSE @]
    BY <1>1 DEF AfterRevocation
  <2> HIDE DEF r, v
  <2> QED
    BY <1>3, <2>1
<1>5. (status.kind = "revoked" <=> Listed(issuer, jti)) /\ status.kind # "unavailable"
  BY <1>1 DEF Status, Listed, SafeSubset, Answer
<1>6. left \subseteq scope
  BY <1>2
<1>7. r.verdict = "ok" => status.kind # "revoked"
  BY CheckedClear
<1>8. status.kind # "revoked" => v \in {"ok", "SafeSubsetEmpty"}
  <2>1. SUFFICES ASSUME status.kind # "revoked" PROVE v \in {"ok", "SafeSubsetEmpty"}
    OBVIOUS
  <2>2. a[1] /\ b[1] /\ c[1]
    BY <1>5, <2>1, ConditionIs
  <2>3. d[2] = "SafeSubsetEmpty"
    OBVIOUS
  <2> HIDE DEF a, b, c, d
  <2>4. PICK S : S = <<a, b, c, d>>
    OBVIOUS
  <2>5. DOMAIN S = 1..4 /\ S[1] = a /\ S[2] = b /\ S[3] = c /\ S[4] = d
    BY <2>4
  <2>6. PICK failed : failed = {k \in DOMAIN S : ~S[k][1]}
    OBVIOUS
  <2>7. failed = {} \/ failed = {4}
    BY <2>2, <2>5, <2>6
  <2>8. failed = {4} => (CHOOSE k \in failed : \A l \in failed : k <= l) = 4
    OBVIOUS
  <2>9. Verdict(S) = IF failed = {} THEN "ok" ELSE S[CHOOSE k \in failed : \A l \in failed : k <= l][2]
    BY <2>6 DEF Verdict
  <2>10. Verdict(S) = "ok" \/ Verdict(S) = "SafeSubsetEmpty"
    BY <2>3, <2>5, <2>7, <2>8, <2>9
  <2> QED
    BY <2>4, <2>10
<1> HIDE DEF r, v
<1>9. r.verdict = v /\ (v = "ok" => r.grants = left)
  BY <1>3
<1> QED
  BY <1>4, <1>5, <1>6, <1>7, <1>8, <1>9

\* The lookups for a chain, one after the other: what they have left after
\* k hops.
FirstLookup(hops) == AfterRevocation(Verifier, hops[1].voucher.src_jti, hops[Len(hops)].scope)
NextLookup(hops, k, r) ==
  IF r.verdict # "ok" THEN r ELSE AfterRevocation(hops[k].iss, hops[k].jti, r.grants)

\* There is such a sequence of answers, and ChainRevocation is its last.
LEMMA LookupsExist ==
  ASSUME NEW H, NEW hops \in Seq(H)
  PROVE  \E f : /\ f[0] = FirstLookup(hops)
                /\ \A k \in 1..Len(hops) : f[k] = NextLookup(hops, k, f[k - 1])
                /\ ChainRevocation(hops) = f[Len(hops)]
<1>1. PICK n \in Nat : n = Len(hops)
  OBVIOUS
<1> DEFINE F(x) == FirstLookup(hops)
           G(k, r) == NextLookup(hops, k, r)
           Is(f, m) == f = [k \in 0..m |-> IF k = 0 THEN F(0) ELSE G(k, f[k - 1])]
           S == {m \in 0..n : \E f : Is(f, m)}
<1> HIDE DEF F, G
<1>2. 0 \in S
  <2>1. PICK f : f = [k \in 0..0 |-> F(0)]
    OBVIOUS
  <2>2. Is(f, 0)
    BY <2>1
  <2> QED
    BY <2>2
<1>3. ASSUME NEW m \in 0..n, m \in S, m < n PROVE m + 1 \in S
  <2>1. PICK f : Is(f, m)
    BY <1>3
  <2>2. PICK g : g = [k \in 0..(m + 1) |-> IF k <= m THEN f[k] ELSE G(k, f[k - 1])]
    OBVIOUS
  <2>3. ASSUME NEW k \in 0..(m + 1)
        PROVE  g[k] = IF k = 0 THEN F(0) ELSE G(k, g[k - 1])
    <3>1. k > 0 => k - 1 \in 0..m /\ k - 1 \in 0..(m + 1) /\ k - 1 <= m
      OBVIOUS
    <3>2. k > 0 => g[k - 1] = f[k - 1]
      BY <2>2, <3>1
    <3>3. g[k] = IF k <= m THEN f[k] ELSE G(k, f[k - 1])
      BY <2>2
    <3>4. k <= m => f[k] = IF k = 0 THEN F(0) ELSE G(k, f[k - 1])
      BY <2>1
    <3> QED
      BY <3>2, <3>3, <3>4
  <2>4. Is(g, m + 1)
    BY <2>2, <2>3
  <2> QED
    BY <1>3, <2>4
<1>4. n \in S
  <2> HIDE DEF S
  <2>1. \A k \in 0..n : k \in S
    BY <1>2, <1>3, UpTo
  <2> QED
    BY <2>1
<1>5. \E f : Is(f, n)
  BY <1>4
<1>6. PICK f : Is(f, n) /\ f = CHOOSE x : Is(x, n)
  <2> HIDE DEF Is
  <2> QED
    BY <1>5
<1>7. ChainRevocation(hops) = f[n]
  <2>1. ChainRevocation(hops) =
          (CHOOSE left : left = [k \in 0..Len(hops) |->
             IF k = 0 THEN AfterRevocation(Verifier, hops[1].voucher.src_jti, hops[Len(hops)].scope)
             ELSE IF left[k - 1].verdict # "ok" THEN left[k - 1]
             ELSE AfterRevocation(hops[k].iss, hops[k].jti, left[k - 1].grants)])[Len(hops)]
    BY DEF ChainRevocation
  <2>2. ChainRevocation(hops) = (CHOOSE x : Is(x, Len(hops)))[Len(hops)]
    BY <2>1 DEF F, G, FirstLookup, NextLookup
  <2> QED
    BY <1>1, <1>6, <2>2
<1>8. f[0] = F(0) /\ \A k \in 1..n : f[k] = G(k, f[k - 1])
  BY <1>6
<1> QED
  BY <1>1, <1>7, <1>8 DEF F, G

\* Nothing that the lookups for a chain are about is on a deny list.
NoneListed(hops) ==
  /\ ~Listed(Verifier, hops[1].voucher.src_jti)
  /\ \A k \in 1..Len(hops) : ~Listed(hops[k].iss, hops[k].jti)

\* A chain that passes has nothing listed and gains no grant; one with
\* nothing listed passes, or has nothing safe left.
LEMMA ChainLookups ==
  ASSUME NEW H, NEW hops \in Seq(H), Len(hops) >= 1
  PROVE  /\ ChainRevocation(hops).verdict = "ok" =>
              NoneListed(hops) /\ ChainRevocation(hops).grants \subseteq hops[Len(hops)].scope
         /\ NoneListed(hops) => ChainRevocation(hops).verdict \in {"ok", "SafeSubsetEmpty"}
<1>0. PICK n \in Nat : n = Len(hops)
  OBVIOUS
<1>8. PICK scope : scope = hops[Len(hops)].scope
  OBVIOUS
<1>1. n = Len(hops) /\ scope = hops[Len(hops)].scope
  BY <1>0, <1>8
<1>2. PICK f : /\ f[0] = FirstLookup(hops)
               /\ \A k \in 1..n : f[k] = NextLookup(hops, k, f[k - 1])
               /\ ChainRevocation(hops) = f[n]
  BY <1>1, LookupsExist
<1>3. /\ f[0].verdict = "ok" => ~Listed(Verifier, hops[1].voucher.src_jti) /\ f[0].grants \subseteq scope
      /\ ~Listed(Verifier, hops[1].voucher.src_jti) => f[0].verdict \in {"ok", "SafeSubsetEmpty"}
  BY <1>1, <1>2, LookupMeans DEF FirstLookup
<1>9. \A k \in 0..n : k < n => k + 1 \in 1..n /\ k + 1 \in 0..n /\ (k + 1) - 1 = k
  OBVIOUS
<1> DEFINE Clear(k) == \A i \in 1..k : ~Listed(hops[i].iss, hops[i].jti)
           P == {k \in 0..n : f[k].verdict = "ok" =>
                   /\ ~Listed(Verifier, hops[1].voucher.src_jti) /\ Clear(k) /\ f[k].grants \subseteq scope}
           Q == {k \in 0..n : NoneListed(hops) => f[k].verdict \in {"ok", "SafeSubsetEmpty"}}
<1>4. 0 \in P /\ 0 \in Q
  <2>1. Clear(0)
    OBVIOUS
  <2> HIDE DEF Clear
  <2> QED
    BY <1>3, <2>1 DEF NoneListed
<1>5. ASSUME NEW k \in 0..n, k < n, k \in P PROVE k + 1 \in P
  <2>1. k + 1 \in 1..n /\ k + 1 \in 0..n /\ (k + 1) - 1 = k
    BY <1>5, <1>9
  <2>2. f[k + 1] = NextLookup(hops, k + 1, f[k])
    BY <1>2, <2>1
  <2>3. SUFFICES ASSUME f[k + 1].verdict = "ok"
                 PROVE  /\ ~Listed(Verifier, hops[1].voucher.src_jti) /\ Clear(k + 1)
                        /\ f[k + 1].grants \subseteq scope
    BY <2>1
  <2>4. f[k].verdict = "ok" /\ f[k + 1] = AfterRevocation(hops[k + 1].iss, hops[k + 1].jti, f[k].grants)
    BY <2>2, <2>3 DEF NextLookup
  <2>5. ~Listed(hops[k + 1].iss, hops[k + 1].jti) /\ f[k + 1].grants \subseteq f[k].grants
    BY <2>3, <2>4, LookupMeans
  <2>6. ~Listed(Verifier, hops[1].voucher.src_jti) /\ Clear(k) /\ f[k].grants \subseteq scope
    BY <1>5, <2>4
  <2>7. \A i \in 1..(k + 1) : i \in 1..k \/ i = k + 1
    OBVIOUS
  <2> QED
    BY <2>5, <2>6, <2>7
<1>6. ASSUME NEW k \in 0..n, k < n, k \in Q PROVE k + 1 \in Q
  <2>1. k + 1 \in 1..n /\ k + 1 \in 0..n /\ (k + 1) - 1 = k
    BY <1>6, <1>9
  <2>2. f[k + 1] = NextLookup(hops, k + 1, f[k])
    BY <1>2, <2>1
  <2>3. SUFFICES ASSUME NoneListed(hops) PROVE f[k + 1].verdict \in {"ok", "SafeSubsetEmpty"}
    BY <2>1
  <2>4. f[k].verdict \in {"ok", "SafeSubsetEmpty"}
    BY <1>6, <2>3
  <2>5. ~Listed(hops[k + 1].iss, hops[k + 1].jti)
    BY <1>1, <2>1, <2>3 DEF NoneListed
  <2>6. AfterRevocation(hops[k + 1].iss, hops[k + 1].jti, f[k].grants).verdict \in {"ok", "SafeSubsetEmpty"}
    BY <2>5, LookupMeans
  <2> QED
    BY <2>2, <2>4, <2>6 DEF NextLookup
<1> HIDE DEF P, Q, Clear
<1>7. n \in P /\ n \in Q
  <2>1. \A k \in 0..n : k \in P
    BY <1>4, <1>5, UpTo
  <2>2. \A k \in 0..n : k \in Q
    BY <1>4, <1>6, UpTo
  <2> QED
    BY <2>1, <2>2
<1> QED
  BY <1>1, <1>2, <1>7 DEF P, Q, Clear, NoneListed

(***************************************************************************)
(* What agents may do: passing it on as often as there are agents finds    *)
(* all of it, since for each grant a turn that finds no one new is the     *)
(* last that does.                                                         *)
(***************************************************************************)
Live == {h \in Hops : InDate(h) /\ ~Listed(h.signer, h.jti)}

\* Granted and passed on, turn by turn.
LEMMA TurnsExist ==
  ASSUME Cardinality(Agents) \in Nat
  PROVE  \E f : /\ f[0] = Granted
                /\ \A k \in 1..Cardinality(Agents) : f[k] = PassedOn(f[k - 1], Live)
                /\ Entitled = f[Cardinality(Agents)]
<1>1. PICK n \in Nat : n = Cardinality(Agents)
  OBVIOUS
<1> DEFINE G(r) == PassedOn(r, Live)
           Is(f, m) == f = [k \in 0..m |-> IF k = 0 THEN Granted ELSE G(f[k - 1])]
           S == {m \in 0..n : \E f : Is(f, m)}
<1> HIDE DEF G
<1>2. 0 \in S
  <2>1. PICK f : f = [k \in 0..0 |-> Granted]
    OBVIOUS
  <2>2. Is(f, 0)
    BY <2>1
  <2> QED
    BY <2>2
<1>3. ASSUME NEW m \in 0..n, m \in S, m < n PROVE m + 1 \in S
  <2>1. PICK f : Is(f, m)
    BY <1>3
  <2>2. PICK g : g = [k \in 0..(m + 1) |-> IF k <= m THEN f[k] ELSE G(f[k - 1])]
    OBVIOUS
  <2>3. ASSUME NEW k \in 0..(m + 1)
        PROVE  g[k] = IF k = 0 THEN Granted ELSE G(g[k - 1])
    <3>1. k > 0 => k - 1 \in 0..m /\ k - 1 \in 0..(m + 1) /\ k - 1 <= m
      OBVIOUS
    <3>2. k > 0 => g[k - 1] = f[k - 1]
      BY <2>2, <3>1
    <3>3. g[k] = IF k <= m THEN f[k] ELSE G(f[k - 1])
      BY <2>2
    <3>4. k <= m => f[k] = IF k = 0 THEN Granted ELSE G(f[k - 1])
      BY <2>1
    <3> QED
      BY <3>2, <3>3, <3>4
  <2>4. Is(g, m + 1)
    BY <2>2, <2>3
  <2> QED
    BY <1>3, <2>4
<1>4. n \in S
  <2> HIDE DEF S
  <2>1. \A k \in 0..n : k \in S
    BY <1>2, <1>3, UpTo
  <2> QED
    BY <2>1
<1>5. \E f : Is(f, n)
  BY <1>4
<1>6. PICK f : Is(f, n) /\ f = CHOOSE x : Is(x, n)
  <2> HIDE DEF Is
  <2> QED
    BY <1>5
<1>7. Entitled = f[n]
  <2>1. Entitled =
          (CHOOSE able : able = [k \in 0..Cardinality(Agents) |->
             IF k = 0 THEN Granted
             ELSE PassedOn(able[k - 1], {h \in Hops : InDate(h) /\ ~Listed(h.signer, h.jti)})])[Cardinality(Agents)]
    BY DEF Entitled
  <2>2. Entitled = (CHOOSE x : Is(x, Cardinality(Agents)))[Cardinality(Agents)]
    BY <2>1 DEF G, Live
  <2> QED
    BY <1>1, <1>6, <2>2
<1>8. f[0] = Granted /\ \A k \in 1..n : f[k] = G(f[k - 1])
  BY <1>6
<1> QED
  BY <1>1, <1>7, <1>8 DEF G

\* Of a grant g, who has it, and who gets it when it is passed on.
Able(R, g) == {a \in Agents : <<a, g>> \in R}

\* What is passed on stays, and the delegations between agents add agents.
LEMMA PassedOnMeans ==
  ASSUME NEW R, R \subseteq Agents \X Grants, DelegationInv, NEW M, M \subseteq Hops
  PROVE  /\ R \subseteq PassedOn(R, M) /\ PassedOn(R, M) \subseteq Agents \X Grants
         /\ \A h \in M : \A g \in h.scope : <<h.signer, g>> \in R => <<h.sub, g>> \in PassedOn(R, M)
         /\ \A p \in PassedOn(R, M) \ R : \E h \in M : \E g \in h.scope : p = <<h.sub, g>> /\ <<h.signer, g>> \in R
<1> DEFINE By(h) == {<<h.sub, g>> : g \in {x \in h.scope : <<h.signer, x>> \in R}}
<1>0. PassedOn(R, M) = R \cup UNION {By(h) : h \in M}
  BY DEF PassedOn
<1>6. \A h \in M : \A p : p \in By(h) <=> \E g \in h.scope : <<h.signer, g>> \in R /\ p = <<h.sub, g>>
  OBVIOUS
<1> HIDE DEF By
<1>1. \A p : p \in PassedOn(R, M) <=> p \in R \/ \E h \in M : p \in By(h)
  BY <1>0
<1>2. \A h \in M : h.sub \in Agents /\ h.scope \subseteq Grants
  BY DEF DelegationInv, DelegationTypes, HopShape
<1>3. \A p \in PassedOn(R, M) \ R : \E h \in M : \E g \in h.scope : p = <<h.sub, g>> /\ <<h.signer, g>> \in R
  BY <1>1, <1>6
<1>4. \A h \in M : \A g \in h.scope : <<h.signer, g>> \in R => <<h.sub, g>> \in PassedOn(R, M)
  BY <1>1, <1>6
<1>5. PassedOn(R, M) \subseteq Agents \X Grants
  <2>1. SUFFICES ASSUME NEW p \in PassedOn(R, M) PROVE p \in Agents \X Grants
    OBVIOUS
  <2>2. CASE p \in R
    BY <2>2
  <2>3. CASE p \notin R
    <3>0. PICK h \in M : \E g \in h.scope : p = <<h.sub, g>>
      BY <1>3, <2>3
    <3>1. PICK g \in h.scope : p = <<h.sub, g>>
      BY <3>0
    <3>2. h.sub \in Agents /\ g \in Grants
      BY <1>2
    <3> QED
      BY <3>1, <3>2
  <2> QED
    BY <2>2, <2>3
<1> QED
  BY <1>1, <1>3, <1>4, <1>5

\* If a turn adds no one for the grant g, no later one does.
LEMMA TurnStops ==
  ASSUME NEW R, R \subseteq Agents \X Grants, DelegationInv, NEW M, M \subseteq Hops, NEW g,
         Able(PassedOn(R, M), g) = Able(R, g)
  PROVE  Able(PassedOn(PassedOn(R, M), M), g) = Able(PassedOn(R, M), g)
<1>1. PICK Q : Q = PassedOn(R, M)
  OBVIOUS
<1>2. Q \subseteq Agents \X Grants /\ R \subseteq Q
      /\ \A h \in M : \A x \in h.scope : <<h.signer, x>> \in R => <<h.sub, x>> \in Q
  BY <1>1, PassedOnMeans
<1>3. /\ Q \subseteq PassedOn(Q, M)
      /\ \A p \in PassedOn(Q, M) \ Q : \E h \in M : \E x \in h.scope : p = <<h.sub, x>> /\ <<h.signer, x>> \in Q
  BY <1>2, PassedOnMeans
<1>4. ASSUME NEW a \in Agents, <<a, g>> \in PassedOn(Q, M) PROVE <<a, g>> \in Q
  <2>1. SUFFICES ASSUME <<a, g>> \notin Q PROVE FALSE
    OBVIOUS
  <2>2. PICK h \in M : \E x \in h.scope : <<a, g>> = <<h.sub, x>> /\ <<h.signer, x>> \in Q
    BY <1>3, <1>4, <2>1
  <2>3. a = h.sub /\ g \in h.scope /\ <<h.signer, g>> \in Q
    BY <2>2
  <2>4. h.signer \in Agents
    BY DEF DelegationInv, DelegationTypes, HopShape
  <2>5. <<h.signer, g>> \in R
    BY <1>1, <2>3, <2>4 DEF Able
  <2> QED
    BY <1>2, <2>1, <2>3, <2>5
<1> QED
  BY <1>1, <1>3, <1>4 DEF Able

\* Granted is about agents and grants.
LEMMA GrantedIs ==
  ASSUME DelegationInv
  PROVE  /\ Granted \subseteq Agents \X Grants
         /\ \A v \in Vouchers : InDate(v) /\ ~Listed(Verifier, v.src_jti) =>
              \A g \in v.grants : <<v.sub, g>> \in Granted
<1> DEFINE ByVoucher(v) == {<<v.sub, g>> : g \in v.grants}
           good == {u \in Vouchers : u.signer = Verifier /\ InDate(u) /\ ~Listed(Verifier, u.src_jti)}
<1>1. Granted = UNION {ByVoucher(v) : v \in good}
  BY DEF Granted
<1>2. \A v \in Vouchers : v.sub \in Agents /\ v.grants \subseteq Grants /\ v.signer = Verifier
  BY VoucherIs
<1>3. \A v \in Vouchers : ByVoucher(v) \subseteq Agents \X Grants
  BY <1>2
<1>4. \A v \in Vouchers : \A g \in v.grants : <<v.sub, g>> \in ByVoucher(v)
  OBVIOUS
<1>5. \A v \in Vouchers : InDate(v) /\ ~Listed(Verifier, v.src_jti) => v \in good
  BY <1>2
<1>6. good \subseteq Vouchers
  OBVIOUS
<1> HIDE DEF ByVoucher, good
<1>7. Granted \subseteq Agents \X Grants
  BY <1>1, <1>3, <1>6
<1>8. \A v \in good : ByVoucher(v) \subseteq Granted
  BY <1>1
<1> QED
  BY <1>4, <1>5, <1>7, <1>8

\* What agents may do: the verifier's grants, and all that is passed on.
LEMMA EntitledClosed ==
  ASSUME DelegationInv
  PROVE  /\ Granted \subseteq Entitled
         /\ \A h \in Live : \A g \in h.scope : <<h.signer, g>> \in Entitled => <<h.sub, g>> \in Entitled
<1>1. IsFiniteSet(Agents) /\ Cardinality(Agents) \in Nat
  BY DelegationAssumption, FS_CardinalityType
<1>2. PICK n \in Nat : n = Cardinality(Agents)
  BY <1>1
<1>3. PICK f : /\ f[0] = Granted
               /\ \A k \in 1..n : f[k] = PassedOn(f[k - 1], Live)
               /\ Entitled = f[n]
  BY <1>1, <1>2, TurnsExist
<1>4. Live \subseteq Hops
  BY DEF Live
<1>5. \A k \in 0..n : k < n => k + 1 \in 1..n /\ k + 1 \in 0..n /\ (k + 1) - 1 = k
  OBVIOUS
<1> DEFINE P == {k \in 0..n : Granted \subseteq f[k] /\ f[k] \subseteq Agents \X Grants}
<1>6. \A k \in 0..n : k \in P
  <2>1. 0 \in P
    BY <1>3, GrantedIs
  <2>2. ASSUME NEW k \in 0..n, k < n, k \in P PROVE k + 1 \in P
    <3>1. k + 1 \in 1..n /\ k + 1 \in 0..n /\ (k + 1) - 1 = k
      BY <1>5, <2>2
    <3>2. f[k + 1] = PassedOn(f[k], Live)
      BY <1>3, <3>1
    <3>3. Granted \subseteq f[k] /\ f[k] \subseteq Agents \X Grants
      BY <2>2
    <3>4. f[k] \subseteq PassedOn(f[k], Live) /\ PassedOn(f[k], Live) \subseteq Agents \X Grants
      BY <1>4, <3>3, PassedOnMeans
    <3> QED
      BY <3>1, <3>2, <3>3, <3>4
  <2> HIDE DEF P
  <2> QED
    BY <2>1, <2>2, UpTo
<1>7. Granted \subseteq f[n] /\ f[n] \subseteq Agents \X Grants
  BY <1>6
<1>8. ASSUME NEW g PROVE Able(PassedOn(f[n], Live), g) = Able(f[n], g)
  <2> DEFINE Q == {k \in 0..n : \/ k <= Cardinality(Able(f[k], g))
                                \/ Able(PassedOn(f[k], Live), g) = Able(f[k], g)}
  <2>1. \A R : IsFiniteSet(Able(R, g)) /\ Cardinality(Able(R, g)) \in Nat
    BY <1>1, FS_Subset, FS_CardinalityType DEF Able
  <2>2. 0 \in Q
    BY <2>1
  <2>3. ASSUME NEW k \in 0..n, k < n, k \in Q PROVE k + 1 \in Q
    <3>1. k + 1 \in 1..n /\ k + 1 \in 0..n /\ (k + 1) - 1 = k
      BY <1>5, <2>3
    <3>2. f[k + 1] = PassedOn(f[k], Live)
      BY <1>3, <3>1
    <3>3. f[k] \subseteq Agents \X Grants
      BY <1>6
    <3>4. f[k] \subseteq f[k + 1]
      BY <1>4, <3>2, <3>3, PassedOnMeans
    <3>5. CASE Able(PassedOn(f[k], Live), g) = Able(f[k], g)
      <4>1. Able(PassedOn(f[k + 1], Live), g) = Able(f[k + 1], g)
        BY <1>4, <3>2, <3>3, <3>5, TurnStops
      <4> QED
        BY <3>1, <4>1
    <3>6. CASE Able(PassedOn(f[k], Live), g) # Able(f[k], g)
      <4>1. k <= Cardinality(Able(f[k], g))
        BY <2>3, <3>6
      <4>2. Able(f[k], g) \subseteq Able(f[k + 1], g) /\ Able(f[k], g) # Able(f[k + 1], g)
        BY <3>2, <3>4, <3>6 DEF Able
      <4>3. PICK A, B : A = Able(f[k], g) /\ B = Able(f[k + 1], g)
        OBVIOUS
      <4>4. IsFiniteSet(B) /\ A \subseteq B /\ A # B /\ Cardinality(A) \in Nat /\ Cardinality(B) \in Nat
        BY <2>1, <4>2, <4>3
      <4>5. Cardinality(A) < Cardinality(B)
        BY <4>4, FS_Subset
      <4>6. k + 1 <= Cardinality(B)
        BY <4>1, <4>3, <4>4, <4>5
      <4> QED
        BY <3>1, <4>3, <4>6
    <3> QED
      BY <3>5, <3>6
  <2>4. n \in Q
    <3> HIDE DEF Q
    <3>1. \A k \in 0..n : k \in Q
      BY <2>2, <2>3, UpTo
    <3> QED
      BY <3>1
  <2>5. CASE n <= Cardinality(Able(f[n], g))
    <3>1. PICK A, B : A = Able(f[n], g) /\ B = Able(PassedOn(f[n], Live), g)
      OBVIOUS
    <3>2. A \subseteq B /\ B \subseteq Agents
      BY <1>4, <1>7, <3>1, PassedOnMeans DEF Able
    <3>3. A \subseteq Agents /\ Cardinality(A) \in Nat /\ n <= Cardinality(A)
      BY <2>1, <2>5, <3>1, <3>2
    <3>4. A = Agents
      <4>1. Cardinality(A) <= n /\ (Cardinality(A) = n => A = Agents)
        BY <1>1, <1>2, <3>3, FS_Subset
      <4> QED
        BY <3>3, <4>1
    <3> QED
      BY <3>1, <3>2, <3>4
  <2> QED
    BY <2>4, <2>5
<1>9. ASSUME NEW h \in Live, NEW g \in h.scope, <<h.signer, g>> \in Entitled
      PROVE  <<h.sub, g>> \in Entitled
  <2>1. <<h.sub, g>> \in PassedOn(f[n], Live)
    BY <1>3, <1>4, <1>7, <1>9, PassedOnMeans
  <2>2. h.sub \in Agents
    BY <1>4 DEF DelegationInv, DelegationTypes, HopShape
  <2> QED
    BY <1>3, <1>8, <2>1, <2>2 DEF Able
<1> QED
  BY <1>3, <1>7, <1>9

(***************************************************************************)
(* What the two verifiers' checks say, one list after the other.           *)
(***************************************************************************)

\* A delegation that its issuer signed, with nothing wrong about its payload.
GoodForm(t) ==
  /\ t.typ = "delegation" /\ t.signer = t.iss
  /\ t.flaw \notin {"duplicate", "member", "id", "type", "version"}
GoodClaims(t) == t.aud = Verifier /\ t.iss # t.sub /\ t.scope # {} /\ t.jkt = t.sub
Rooted(t) ==
  /\ t.voucher # None /\ VerifyVoucher(t.voucher, Verifier) = "ok" /\ t.voucher.sub = t.iss
  /\ t.voucher.exp >= clock /\ t.exp <= t.voucher.exp /\ t.scope \subseteq t.voucher.grants

\* verify_hop_jws.
LEMMA HopJwsMeans ==
  ASSUME NEW t
  PROVE  FineList(HopJws(t)) /\ (AllHold(HopJws(t)) <=> GoodForm(t) /\ Resolves(t.iss))
<1> DEFINE a == <<t.typ = "delegation", "Crypto">>
           b == <<t.flaw # "duplicate", "ClaimsMalformed">>
           c == <<t.flaw # "member", "UnknownField">>
           d == <<t.flaw # "id", "JtiNotV4">>
           e == <<t.flaw # "type", "ClaimsMalformed">>
           f == <<Resolves(t.iss), "KeyResolutionFailed">>
           g == <<t.signer = t.iss, "InvalidSignature">>
           h == <<t.flaw # "version", "VersionUnknown">>
<1>1. HopJws(t) = <<a, b, c, d, e, f, g, h>>
  BY DEF HopJws
<1>2. /\ Fine(a) /\ (a[1] <=> t.typ = "delegation")
      /\ Fine(b) /\ (b[1] <=> t.flaw # "duplicate")
      /\ Fine(c) /\ (c[1] <=> t.flaw # "member")
      /\ Fine(d) /\ (d[1] <=> t.flaw # "id")
      /\ Fine(e) /\ (e[1] <=> t.flaw # "type")
      /\ Fine(f) /\ (f[1] <=> Resolves(t.iss))
      /\ Fine(g) /\ (g[1] <=> t.signer = t.iss)
      /\ Fine(h) /\ (h[1] <=> t.flaw # "version")
  BY CheckIs
<1> HIDE DEF a, b, c, d, e, f, g, h
<1>3. FineList(<<a, b, c, d, e, f, g, h>>)
      /\ (AllHold(<<a, b, c, d, e, f, g, h>>) <=> a[1] /\ b[1] /\ c[1] /\ d[1] /\ e[1] /\ f[1] /\ g[1] /\ h[1])
  BY <1>2, FineEight
<1> QED
  BY <1>1, <1>2, <1>3 DEF GoodForm

\* The claims of a hop.
LEMMA HopClaimsMeans ==
  ASSUME NEW t
  PROVE  FineList(HopClaims(t)) /\ (AllHold(HopClaims(t)) <=> GoodClaims(t))
<1> DEFINE a == <<t.aud = Verifier, "AudienceMismatch">>
           b == <<t.iss # t.sub, "SelfDelegation">>
           c == <<t.scope # {}, "EmptyScope">>
           d == <<t.jkt = t.sub, "CnfMalformed">>
<1>1. HopClaims(t) = <<a, b, c, d>>
  BY DEF HopClaims
<1>2. /\ Fine(a) /\ (a[1] <=> t.aud = Verifier)
      /\ Fine(b) /\ (b[1] <=> t.iss # t.sub)
      /\ Fine(c) /\ (c[1] <=> t.scope # {})
      /\ Fine(d) /\ (d[1] <=> t.jkt = t.sub)
  BY CheckIs
<1> HIDE DEF a, b, c, d
<1> QED
  BY <1>1, <1>2, FineFour DEF GoodClaims

\* verify_root_voucher.
LEMMA RootVoucherMeans ==
  ASSUME NEW t
  PROVE  FineList(RootVoucher(t)) /\ (AllHold(RootVoucher(t)) <=> Rooted(t))
<1>1. CASE t.voucher = None
  <2> DEFINE a == <<FALSE, "InvalidVoucher">>
  <2>1. RootVoucher(t) = <<a>>
    BY <1>1 DEF RootVoucher
  <2>2. Fine(a) /\ ~a[1]
    BY CheckIs
  <2> HIDE DEF a
  <2> QED
    BY <1>1, <2>1, <2>2, FineOne DEF Rooted
<1>2. CASE t.voucher # None
  <2>1. PICK v : v = VerifyVoucher(t.voucher, Verifier)
    OBVIOUS
  <2>2. PICK w : w = IF v \in {"Crypto", "VersionUnknown", "UnknownField"} THEN v ELSE "InvalidVoucher"
    OBVIOUS
  <2>3. w # "ok"
    BY <2>2
  <2> DEFINE a == <<v = "ok", w>>
             b == <<t.voucher.sub = t.iss, "InvalidVoucher">>
             c == <<t.voucher.exp >= clock, "Expired">>
             d == <<t.exp <= t.voucher.exp, "Expired">>
             e == <<t.scope \subseteq t.voucher.grants, "ScopeExceeded">>
  <2>4. RootVoucher(t) = <<a, b, c, d, e>>
    BY <1>2, <2>1, <2>2 DEF RootVoucher
  <2>5. /\ Fine(a) /\ (a[1] <=> v = "ok")
        /\ Fine(b) /\ (b[1] <=> t.voucher.sub = t.iss)
        /\ Fine(c) /\ (c[1] <=> t.voucher.exp >= clock)
        /\ Fine(d) /\ (d[1] <=> t.exp <= t.voucher.exp)
        /\ Fine(e) /\ (e[1] <=> t.scope \subseteq t.voucher.grants)
    BY <2>3, CheckIs
  <2> HIDE DEF a, b, c, d, e
  <2>6. FineList(<<a, b, c, d, e>>)
        /\ (AllHold(<<a, b, c, d, e>>) <=> a[1] /\ b[1] /\ c[1] /\ d[1] /\ e[1])
    BY <2>5, FineFive
  <2> QED
    BY <1>2, <2>1, <2>4, <2>5, <2>6 DEF Rooted
<1> QED
  BY <1>1, <1>2

\* The checks that both verifiers make of a hop presented alone.
AloneGood(t) == GoodForm(t) /\ Resolves(t.iss) /\ t.exp >= clock /\ Rooted(t) /\ GoodClaims(t)

\* They pass if it is good.
LEMMA SingleHopMeans ==
  ASSUME NEW t
  PROVE  FineList(SingleHop(t)) /\ (AllHold(SingleHop(t)) <=> AloneGood(t))
<1> DEFINE a == <<t.aud = Verifier, "AudienceMismatch">>
           b == <<t.exp >= clock, "Expired">>
<1>1. Fine(a) /\ (a[1] <=> t.aud = Verifier) /\ Fine(b) /\ (b[1] <=> t.exp >= clock)
  BY CheckIs
<1>2. SingleHop(t) = ((HopJws(t) \o <<a, b>>) \o RootVoucher(t)) \o HopClaims(t)
  BY DEF SingleHop
<1> HIDE DEF a, b
<1>3. FineList(<<a, b>>) /\ (AllHold(<<a, b>>) <=> a[1] /\ b[1])
  BY <1>1, FineTwo
<1>4. PICK A : A = HopJws(t) \o <<a, b>>
  OBVIOUS
<1>5. FineList(A) /\ (AllHold(A) <=> AllHold(HopJws(t)) /\ AllHold(<<a, b>>))
  BY <1>3, <1>4, HopJwsMeans, FineJoin
<1>6. PICK B : B = A \o RootVoucher(t)
  OBVIOUS
<1>7. FineList(B) /\ (AllHold(B) <=> AllHold(A) /\ AllHold(RootVoucher(t)))
  BY <1>5, <1>6, RootVoucherMeans, FineJoin
<1>8. PICK C : C = B \o HopClaims(t)
  OBVIOUS
<1>9. FineList(C) /\ (AllHold(C) <=> AllHold(B) /\ AllHold(HopClaims(t)))
  BY <1>7, <1>8, HopClaimsMeans, FineJoin
<1>10. SingleHop(t) = C
  BY <1>2, <1>4, <1>6, <1>8
<1>11. AllHold(C) <=> /\ GoodForm(t) /\ Resolves(t.iss) /\ t.aud = Verifier /\ t.exp >= clock
                      /\ Rooted(t) /\ GoodClaims(t)
  BY <1>1, <1>3, <1>5, <1>7, <1>9, HopJwsMeans, RootVoucherMeans, HopClaimsMeans
<1>12. GoodClaims(t) => t.aud = Verifier
  BY DEF GoodClaims
<1> QED
  BY <1>9, <1>10, <1>11, <1>12 DEF AloneGood

\* verify_delegation of the stable crate.
LEMMA StableMeans ==
  ASSUME NEW t
  PROVE  LET r == AfterRevocation(Verifier, t.voucher.src_jti, t.scope)
             good == AloneGood(t) /\ t.chain = {} /\ t.jti = None /\ t.chain_hash = {}
         IN  /\ VerifyDelegation(t).verdict = "ok" <=> good /\ r.verdict = "ok"
             /\ VerifyDelegation(t).verdict = "ok" => VerifyDelegation(t) = r
<1> DEFINE a == <<t.typ = "delegation", "Crypto">>
           b == <<t.flaw # "duplicate", "ClaimsMalformed">>
           c == <<t.flaw # "member", "UnknownField">>
           d == <<t.chain = {}, "MultihopNotSupported">>
           e == <<t.jti = None /\ t.chain_hash = {}, "ClaimsMalformed">>
           r == AfterRevocation(Verifier, t.voucher.src_jti, t.scope)
           v == Verdict(<<a, b, c, d, e>> \o SingleHop(t))
<1>1. VerifyDelegation(t) = IF v # "ok" THEN Refused(v) ELSE r
  BY DEF VerifyDelegation
<1>2. /\ Fine(a) /\ (a[1] <=> t.typ = "delegation")
      /\ Fine(b) /\ (b[1] <=> t.flaw # "duplicate")
      /\ Fine(c) /\ (c[1] <=> t.flaw # "member")
      /\ Fine(d) /\ (d[1] <=> t.chain = {})
      /\ Fine(e) /\ (e[1] <=> t.jti = None /\ t.chain_hash = {})
  BY CheckIs
<1> HIDE DEF a, b, c, d, e
<1>3. FineList(<<a, b, c, d, e>>)
      /\ (AllHold(<<a, b, c, d, e>>) <=> a[1] /\ b[1] /\ c[1] /\ d[1] /\ e[1])
  BY <1>2, FineFive
<1>4. PICK L : L = <<a, b, c, d, e>>
  OBVIOUS
<1>5. PICK S : S = L \o SingleHop(t)
  OBVIOUS
<1>6. FineList(S) /\ (AllHold(S) <=> AllHold(L) /\ AllHold(SingleHop(t)))
  BY <1>3, <1>4, <1>5, SingleHopMeans, FineJoin
<1>7. v = Verdict(S)
  BY <1>4, <1>5
<1>8. v = "ok" <=> AllHold(S)
  BY <1>6, <1>7, FineVerdict
<1>9. AloneGood(t) => t.typ = "delegation" /\ t.flaw # "duplicate" /\ t.flaw # "member"
  BY DEF AloneGood, GoodForm
<1>10. v = "ok" <=> AloneGood(t) /\ t.chain = {} /\ t.jti = None /\ t.chain_hash = {}
  BY <1>2, <1>3, <1>4, <1>6, <1>8, <1>9, SingleHopMeans
<1>11. Refused(v).verdict = v
  BY DEF Refused
<1> HIDE DEF v, r
<1> QED
  BY <1>1, <1>10, <1>11 DEF r

\* verify_single_hop of the experimental crate.
LEMMA ChainedSingleMeans ==
  ASSUME NEW t
  PROVE  LET r == AfterRevocation(Verifier, t.voucher.src_jti, t.scope)
             good == AloneGood(t) /\ (MAX_HOPS > 0 \/ (t.chain = {} /\ t.jti = None))
         IN  IF good THEN VerifyChainedSingle(t) = r ELSE VerifyChainedSingle(t).verdict # "ok"
<1> DEFINE a == <<MAX_HOPS > 0 \/ t.chain = {}, "MultihopNotSupported">>
           b == <<MAX_HOPS > 0 \/ t.jti = None, "ClaimsMalformed">>
           r == AfterRevocation(Verifier, t.voucher.src_jti, t.scope)
           v == Verdict(<<a, b>> \o SingleHop(t))
<1>1. VerifyChainedSingle(t) = IF v # "ok" THEN Refused(v) ELSE r
  BY DEF VerifyChainedSingle
<1>2. /\ Fine(a) /\ (a[1] <=> MAX_HOPS > 0 \/ t.chain = {})
      /\ Fine(b) /\ (b[1] <=> MAX_HOPS > 0 \/ t.jti = None)
  BY CheckIs
<1> HIDE DEF a, b
<1>3. FineList(<<a, b>>) /\ (AllHold(<<a, b>>) <=> a[1] /\ b[1])
  BY <1>2, FineTwo
<1>4. PICK L : L = <<a, b>>
  OBVIOUS
<1>5. PICK S : S = L \o SingleHop(t)
  OBVIOUS
<1>6. FineList(S) /\ (AllHold(S) <=> AllHold(L) /\ AllHold(SingleHop(t)))
  BY <1>3, <1>4, <1>5, SingleHopMeans, FineJoin
<1>7. v = Verdict(S)
  BY <1>4, <1>5
<1>8. v = "ok" <=> AllHold(S)
  BY <1>6, <1>7, FineVerdict
<1>10. v = "ok" <=> AloneGood(t) /\ (MAX_HOPS > 0 \/ (t.chain = {} /\ t.jti = None))
  BY <1>2, <1>3, <1>4, <1>6, <1>8, SingleHopMeans
<1>11. Refused(v).verdict = v
  BY DEF Refused
<1> HIDE DEF v, r
<1> QED
  BY <1>1, <1>10, <1>11 DEF r

\* A later hop carries on from the one before; an inner chain is the prefix.
Carries(hops, i) ==
  /\ hops[i].voucher = None /\ hops[i].iss = hops[i - 1].sub
  /\ hops[i].exp <= hops[i - 1].exp /\ hops[i].scope \subseteq hops[i - 1].scope
PrefixFits(hops, i) ==
  \/ i = Len(hops) \/ hops[i].chain = {}
  \/ hops[i].chain = {SubSeq(hops, 1, i - 1)} /\ hops[i].chain_hash = hops[i].chain
HopGood(hops, i) ==
  /\ GoodForm(hops[i]) /\ Resolves(hops[i].iss) /\ GoodClaims(hops[i])
  /\ hops[i].jti # None /\ \A k \in 1..(i - 1) : hops[k].jti # hops[i].jti
  /\ hops[i].exp >= clock
  /\ IF i = 1 THEN Rooted(hops[i]) ELSE Carries(hops, i)
  /\ PrefixFits(hops, i)

\* A later hop's own checks.
LEMMA ContinuesMeans ==
  ASSUME NEW hops, NEW i
  PROVE  FineList(Continues(hops, i)) /\ (AllHold(Continues(hops, i)) <=> Carries(hops, i))
<1> DEFINE a == <<hops[i].voucher = None, "InvalidVoucher">>
           b == <<hops[i].iss = hops[i - 1].sub, "InvalidVoucher">>
           c == <<hops[i].exp <= hops[i - 1].exp, "Expired">>
           d == <<hops[i].scope \subseteq hops[i - 1].scope, "ScopeExceeded">>
<1>1. Continues(hops, i) = <<a, b, c, d>>
  BY DEF Continues
<1>2. /\ Fine(a) /\ (a[1] <=> hops[i].voucher = None)
      /\ Fine(b) /\ (b[1] <=> hops[i].iss = hops[i - 1].sub)
      /\ Fine(c) /\ (c[1] <=> hops[i].exp <= hops[i - 1].exp)
      /\ Fine(d) /\ (d[1] <=> hops[i].scope \subseteq hops[i - 1].scope)
  BY CheckIs
<1> HIDE DEF a, b, c, d
<1> QED
  BY <1>1, <1>2, FineFour DEF Carries

\* The checks of inner chains.
LEMMA PrefixMeans ==
  ASSUME NEW hops, NEW i
  PROVE  FineList(PrefixChecks(hops, i)) /\ (AllHold(PrefixChecks(hops, i)) <=> PrefixFits(hops, i))
<1> DEFINE a == <<i = Len(hops) \/ hops[i].chain = {}
                  \/ (hops[i].chain = {SubSeq(hops, 1, i - 1)} /\ hops[i].chain_hash = hops[i].chain),
                  "InvalidVoucher">>
<1>1. PrefixChecks(hops, i) = <<a>>
  BY DEF PrefixChecks
<1>2. Fine(a) /\ (a[1] <=> (i = Len(hops) \/ hops[i].chain = {}
                  \/ (hops[i].chain = {SubSeq(hops, 1, i - 1)} /\ hops[i].chain_hash = hops[i].chain)))
  BY CheckIs
<1> HIDE DEF a
<1> QED
  BY <1>1, <1>2, FineOne DEF PrefixFits

\* One turn of the loop.
LEMMA HopVerdictMeans ==
  ASSUME NEW hops, NEW i
  PROVE  HopVerdict(hops, i) = "ok" <=> HopGood(hops, i)
<1>1. PICK t : t = hops[i]
  OBVIOUS
<1> DEFINE a == <<t.jti # None, "InvalidVoucher">>
           b == <<\A k \in 1..(i - 1) : hops[k].jti # t.jti, "InvalidVoucher">>
           c == <<t.exp >= clock, "Expired">>
           R == IF i = 1 THEN RootVoucher(t) ELSE Continues(hops, i)
<1>2. /\ Fine(a) /\ (a[1] <=> t.jti # None)
      /\ Fine(b) /\ (b[1] <=> \A k \in 1..(i - 1) : hops[k].jti # t.jti)
      /\ Fine(c) /\ (c[1] <=> t.exp >= clock)
  BY CheckIs
<1>3. HopVerdict(hops, i) =
        Verdict((((HopJws(t) \o HopClaims(t)) \o <<a, b, c>>) \o R) \o PrefixChecks(hops, i))
  BY <1>1 DEF HopVerdict
<1> HIDE DEF a, b, c
<1>4. FineList(<<a, b, c>>) /\ (AllHold(<<a, b, c>>) <=> a[1] /\ b[1] /\ c[1])
  BY <1>2, FineThree
<1>5. FineList(R) /\ (AllHold(R) <=> IF i = 1 THEN Rooted(t) ELSE Carries(hops, i))
  BY RootVoucherMeans, ContinuesMeans
<1> HIDE DEF R
<1>6. PICK A : A = HopJws(t) \o HopClaims(t)
  OBVIOUS
<1>7. FineList(A) /\ (AllHold(A) <=> AllHold(HopJws(t)) /\ AllHold(HopClaims(t)))
  BY <1>6, HopJwsMeans, HopClaimsMeans, FineJoin
<1>8. PICK B : B = A \o <<a, b, c>>
  OBVIOUS
<1>9. FineList(B) /\ (AllHold(B) <=> AllHold(A) /\ AllHold(<<a, b, c>>))
  BY <1>4, <1>7, <1>8, FineJoin
<1>10. PICK C : C = B \o R
  OBVIOUS
<1>11. FineList(C) /\ (AllHold(C) <=> AllHold(B) /\ AllHold(R))
  BY <1>5, <1>9, <1>10, FineJoin
<1>12. PICK D : D = C \o PrefixChecks(hops, i)
  OBVIOUS
<1>13. FineList(D) /\ (AllHold(D) <=> AllHold(C) /\ AllHold(PrefixChecks(hops, i)))
  BY <1>11, <1>12, PrefixMeans, FineJoin
<1>14. HopVerdict(hops, i) = Verdict(D)
  BY <1>3, <1>6, <1>8, <1>10, <1>12
<1>15. HopVerdict(hops, i) = "ok" <=> AllHold(D)
  BY <1>13, <1>14, FineVerdict
<1>16. AllHold(D) <=>
         /\ GoodForm(t) /\ Resolves(t.iss) /\ GoodClaims(t)
         /\ t.jti # None /\ (\A k \in 1..(i - 1) : hops[k].jti # t.jti) /\ t.exp >= clock
         /\ IF i = 1 THEN Rooted(t) ELSE Carries(hops, i)
         /\ PrefixFits(hops, i)
  BY <1>2, <1>4, <1>5, <1>7, <1>9, <1>11, <1>13, HopJwsMeans, HopClaimsMeans, PrefixMeans
<1> QED
  BY <1>1, <1>15, <1>16 DEF HopGood

\* A list of verdicts is one that says "ok" if they all do.
LEMMA SubList ==
  ASSUME NEW n \in Nat, NEW w, DOMAIN w = 1..n
  PROVE  /\ FineList([i \in 1..n |-> Sub(w[i])])
         /\ AllHold([i \in 1..n |-> Sub(w[i])]) <=> \A i \in 1..n : w[i] = "ok"
<1>1. PICK S : S = [i \in 1..n |-> Sub(w[i])]
  OBVIOUS
<1>2. PICK X : X = {S[i] : i \in 1..n}
  OBVIOUS
<1>3. S \in Seq(X)
  <2>1. S \in [1..n -> X]
    BY <1>1, <1>2
  <2> QED
    BY <2>1, SeqDef
<1>4. \A x \in X : Fine(x)
  BY <1>1, <1>2, SubFine
<1>5. \A i \in 1..n : S[i][1] <=> w[i] = "ok"
  <2>1. \A i \in 1..n : S[i] = <<w[i] = "ok", w[i]>>
    BY <1>1 DEF Sub
  <2>2. \A i \in 1..n : w[i] = "ok" => (<<w[i] = "ok", w[i]>>)[1]
    BY ConditionIs
  <2>3. \A i \in 1..n : (<<w[i] = "ok", w[i]>>)[1] => w[i] = "ok"
    BY ConditionOf
  <2> QED
    BY <2>1, <2>2, <2>3
<1>6. DOMAIN S = 1..n
  BY <1>1
<1> QED
  BY <1>1, <1>3, <1>4, <1>5, <1>6 DEF FineList, AllHold

\* verify_multi_hop.
LEMMA MultiMeans ==
  ASSUME NEW H, NEW t, NEW hops \in Seq(H), hops = Append(ChainOf(t), t)
  PROVE  LET good == /\ Len(ChainOf(t)) + 2 <= MAX_HOPS /\ t.chain_hash = {ChainOf(t)}
                     /\ \A i \in 1..Len(hops) : HopGood(hops, i)
         IN  IF good THEN VerifyMultiHop(t) = ChainRevocation(hops)
             ELSE VerifyMultiHop(t).verdict # "ok"
<1>1. PICK n \in Nat : n = Len(hops)
  OBVIOUS
<1>2. DOMAIN hops = 1..n
  BY <1>1
<1> DEFINE a == <<Len(ChainOf(t)) + 2 <= MAX_HOPS, "HopLimitExceeded">>
           b == <<t.chain_hash = {ChainOf(t)}, "ChainHashMismatch">>
           L == [i \in DOMAIN hops |-> Sub(HopVerdict(hops, i))]
           v == Verdict(<<a, b>> \o L)
<1>3. VerifyMultiHop(t) = IF v # "ok" THEN Refused(v) ELSE ChainRevocation(hops)
  BY DEF VerifyMultiHop
<1>4. /\ Fine(a) /\ (a[1] <=> Len(ChainOf(t)) + 2 <= MAX_HOPS)
      /\ Fine(b) /\ (b[1] <=> t.chain_hash = {ChainOf(t)})
  BY CheckIs
<1> HIDE DEF a, b
<1>5. FineList(<<a, b>>) /\ (AllHold(<<a, b>>) <=> a[1] /\ b[1])
  BY <1>4, FineTwo
<1>6. PICK w : w = [i \in 1..n |-> HopVerdict(hops, i)]
  OBVIOUS
<1>7. DOMAIN w = 1..n /\ \A i \in 1..n : w[i] = HopVerdict(hops, i)
  BY <1>6
<1>8. L = [i \in 1..n |-> Sub(w[i])]
  BY <1>2, <1>7
<1> HIDE DEF L
<1>9. FineList(L) /\ (AllHold(L) <=> \A i \in 1..n : HopVerdict(hops, i) = "ok")
  BY <1>7, <1>8, SubList
<1>10. PICK S : S = <<a, b>> \o L
  OBVIOUS
<1>11. FineList(S) /\ (AllHold(S) <=> AllHold(<<a, b>>) /\ AllHold(L))
  BY <1>5, <1>9, <1>10, FineJoin
<1>12. v = "ok" <=> AllHold(S)
  BY <1>10, <1>11, FineVerdict
<1>13. v = "ok" <=> /\ Len(ChainOf(t)) + 2 <= MAX_HOPS /\ t.chain_hash = {ChainOf(t)}
                    /\ \A i \in 1..n : HopGood(hops, i)
  BY <1>4, <1>5, <1>9, <1>11, <1>12, HopVerdictMeans
<1>14. Refused(v).verdict = v
  BY DEF Refused
<1> HIDE DEF v
<1> QED
  BY <1>1, <1>3, <1>13, <1>14

(***************************************************************************)
(* Soundness.                                                              *)
(***************************************************************************)

\* The root of what a good hop's voucher lets its issuer do.
LEMMA RootGranted ==
  ASSUME DelegationInv, NEW t \in Hops, Rooted(t), t.signer = t.iss,
         ~Listed(Verifier, t.voucher.src_jti)
  PROVE  \A g \in t.scope : <<t.signer, g>> \in Granted
<1>1. PICK v : v = t.voucher
  OBVIOUS
<1>2. v \in Vouchers
  BY <1>1 DEF Rooted, DelegationInv, DelegationTypes, HopShape
<1>3. v.sub = t.signer /\ InDate(v) /\ t.scope \subseteq v.grants /\ ~Listed(Verifier, v.src_jti)
  BY <1>1 DEF Rooted, InDate
<1> QED
  BY <1>2, <1>3, GrantedIs

\* A hop presented alone.
LEMMA AloneConfers ==
  ASSUME DelegationInv, NEW t \in Hops, AloneGood(t), NEW r,
         r = AfterRevocation(Verifier, t.voucher.src_jti, t.scope), r.verdict = "ok"
  PROVE  Confers(t, r) \subseteq PassedOn(Granted, {t})
<1>1. ~Listed(Verifier, t.voucher.src_jti) /\ r.grants \subseteq t.scope
  BY LookupMeans
<1>2. Rooted(t) /\ t.signer = t.iss
  BY DEF AloneGood, GoodForm
<1>3. \A g \in t.scope : <<t.signer, g>> \in Granted
  BY <1>1, <1>2, RootGranted
<1>4. PICK R, M : R = Granted /\ M = {t}
  OBVIOUS
<1>5. R \subseteq Agents \X Grants /\ M \subseteq Hops
  BY <1>4, GrantedIs
<1>6. \A h \in M : \A g \in h.scope : <<h.signer, g>> \in R => <<h.sub, g>> \in PassedOn(R, M)
  BY <1>5, PassedOnMeans
<1>7. \A g \in r.grants : <<t.sub, g>> \in PassedOn(Granted, {t})
  BY <1>1, <1>3, <1>4, <1>6
<1> QED
  BY <1>7 DEF Confers

\* A chain: each hop hands on no more than its signer could do.
LEMMA ChainConfers ==
  ASSUME DelegationInv, NEW t \in Hops, NEW hops \in Seq(Hops), NEW n \in Nat, n >= 1,
         n = Len(hops), hops[n] = t,
         \A i \in 1..n : HopGood(hops, i), ChainRevocation(hops).verdict = "ok"
  PROVE  Confers(t, ChainRevocation(hops)) \subseteq Entitled
<1>1. NoneListed(hops) /\ ChainRevocation(hops).grants \subseteq t.scope
  BY ChainLookups
<1>2. \A i \in 1..n : hops[i] \in Hops
  OBVIOUS
<1>3. \A i \in 1..n : hops[i] \in Live
  <2>1. SUFFICES ASSUME NEW i \in 1..n PROVE hops[i] \in Live
    OBVIOUS
  <2>2. HopGood(hops, i)
    BY <2>1
  <2>3. hops[i].signer = hops[i].iss /\ hops[i].exp >= clock
    BY <2>2 DEF HopGood, GoodForm
  <2>4. ~Listed(hops[i].iss, hops[i].jti)
    BY <1>1 DEF NoneListed
  <2> QED
    BY <1>2, <2>3, <2>4 DEF Live, InDate
<1> DEFINE P == {k \in 0..n : k = 0 \/ \A g \in hops[k].scope : <<hops[k].sub, g>> \in Entitled}
<1>4. 0 \in P
  OBVIOUS
<1>5. \A k \in 0..n : k < n => k + 1 \in 1..n /\ k + 1 \in 0..n /\ (k + 1) - 1 = k
  OBVIOUS
<1>6. ASSUME NEW k \in 0..n, k < n, k \in P PROVE k + 1 \in P
  <2>1. k + 1 \in 1..n /\ k + 1 \in 0..n /\ (k + 1) - 1 = k
    BY <1>5, <1>6
  <2>2. PICK h : h = hops[k + 1]
    OBVIOUS
  <2>3. HopGood(hops, k + 1)
    BY <2>1
  <2>4. h \in Live /\ h \in Hops /\ h.signer = h.iss
    BY <1>2, <1>3, <2>1, <2>2, <2>3 DEF HopGood, GoodForm
  <2>5. \A g \in h.scope : <<h.signer, g>> \in Entitled
    <3>1. CASE k = 0
      <4>1. Rooted(h) /\ ~Listed(Verifier, h.voucher.src_jti)
        BY <1>1, <2>2, <2>3, <3>1 DEF HopGood, NoneListed
      <4> QED
        BY <2>4, <4>1, RootGranted, EntitledClosed
    <3>2. CASE k # 0
      <4>0. k + 1 # 1
        BY <3>2
      <4>1. Carries(hops, k + 1)
        BY <2>3, <4>0 DEF HopGood
      <4>2. h.iss = hops[k].sub /\ h.scope \subseteq hops[k].scope
        BY <2>1, <2>2, <4>1 DEF Carries
      <4>3. \A g \in hops[k].scope : <<hops[k].sub, g>> \in Entitled
        BY <1>6, <3>2
      <4> QED
        BY <2>4, <4>2, <4>3
    <3> QED
      BY <3>1, <3>2
  <2>6. \A g \in h.scope : <<h.sub, g>> \in Entitled
    BY <2>4, <2>5, EntitledClosed
  <2> QED
    BY <2>1, <2>2, <2>6
<1>7. n \in P
  <2> HIDE DEF P
  <2>1. \A k \in 0..n : k \in P
    BY <1>4, <1>6, UpTo
  <2> QED
    BY <2>1
<1>8. \A g \in t.scope : <<t.sub, g>> \in Entitled
  BY <1>7
<1> QED
  BY <1>1, <1>8 DEF Confers

\* A delegation with the chain it carries.
LEMMA HopsOf ==
  ASSUME DelegationInv, NEW t \in Hops
  PROVE  \E hops \in Seq(Hops), n \in Nat :
           /\ hops = Append(ChainOf(t), t) /\ n = Len(hops) /\ n >= 1 /\ hops[n] = t
           /\ Len(ChainOf(t)) = n - 1 /\ ChainOf(t) \in Seq(Hops)
           /\ n = 1 <=> ChainOf(t) = << >>
<1>1. HopShape(t, Hops, Vouchers)
  BY DEF DelegationInv, DelegationTypes
<1>2. /\ ChainOf(t) \in Seq(Hops) /\ Append(ChainOf(t), t) \in Seq(Hops)
      /\ Len(Append(ChainOf(t), t)) = Len(ChainOf(t)) + 1 /\ Len(ChainOf(t)) \in Nat
      /\ Append(ChainOf(t), t)[Len(ChainOf(t)) + 1] = t
  BY <1>1, ChainShape
<1>3. PICK hops : hops = Append(ChainOf(t), t)
  OBVIOUS
<1>4. PICK n : n = Len(ChainOf(t)) + 1
  OBVIOUS
<1>5. n \in Nat /\ n >= 1 /\ Len(ChainOf(t)) = n - 1 /\ n = Len(hops) /\ hops[n] = t /\ hops \in Seq(Hops)
  BY <1>2, <1>3, <1>4
<1>6. n = 1 <=> ChainOf(t) = << >>
  <2>1. Len(ChainOf(t)) = 0 <=> ChainOf(t) = << >>
    BY <1>2, EmptySeq
  <2> QED
    BY <1>2, <1>4, <2>1
<1> QED
  BY <1>2, <1>3, <1>5, <1>6

\* Neither verifier lets an agent do more than was passed on to it.
LEMMA SoundIfInv ==
  ASSUME DelegationInv
  PROVE  DelegationSound
<1>1. ASSUME NEW t \in Hops, VerifyDelegation(t).verdict = "ok"
      PROVE  Confers(t, VerifyDelegation(t)) \subseteq PassedOn(Granted, {t})
  <2>1. PICK r : r = AfterRevocation(Verifier, t.voucher.src_jti, t.scope)
    OBVIOUS
  <2>2. AloneGood(t) /\ r.verdict = "ok" /\ VerifyDelegation(t) = r
    BY <1>1, <2>1, StableMeans
  <2> QED
    BY <2>1, <2>2, AloneConfers
<1>2. ASSUME NEW t \in Hops, VerifyChained(t).verdict = "ok"
      PROVE  Confers(t, VerifyChained(t)) \subseteq Entitled \cup PassedOn(Granted, {t})
  <2>1. CASE ChainOf(t) = << >>
    <3>1. VerifyChained(t) = VerifyChainedSingle(t)
      BY <2>1 DEF VerifyChained
    <3>2. PICK r : r = AfterRevocation(Verifier, t.voucher.src_jti, t.scope)
      OBVIOUS
    <3>3. AloneGood(t) /\ VerifyChained(t) = r
      BY <1>2, <3>1, <3>2, ChainedSingleMeans
    <3> QED
      BY <1>2, <3>2, <3>3, AloneConfers
  <2>2. CASE ChainOf(t) # << >>
    <3>1. PICK hops \in Seq(Hops), n \in Nat :
            hops = Append(ChainOf(t), t) /\ n = Len(hops) /\ n >= 1 /\ hops[n] = t
      BY HopsOf
    <3>2. VerifyChained(t) = VerifyMultiHop(t)
      <4>1. Refused("MultihopNotSupported").verdict = "MultihopNotSupported"
        BY DEF Refused
      <4> QED
        BY <1>2, <2>2, <4>1 DEF VerifyChained
    <3>3. VerifyChained(t) = ChainRevocation(hops) /\ \A i \in 1..n : HopGood(hops, i)
      BY <1>2, <3>1, <3>2, MultiMeans
    <3>4. Confers(t, ChainRevocation(hops)) \subseteq Entitled
      BY <1>2, <3>1, <3>3, ChainConfers
    <3> QED
      BY <3>3, <3>4
  <2> QED
    BY <2>1, <2>2
<1> QED
  BY <1>1, <1>2 DEF DelegationSound

\* A token gives its subject no grant that the verifier did not give and a
\* chain of signatures, in date and not revoked, did not pass on: however
\* many agents there are, whatever they sign and however long the chains.
THEOREM DelegationIsSound == Spec => []DelegationSound
<1>1. DelegationInv => DelegationSound
  BY SoundIfInv
<1> QED
  BY <1>1, DelegationCorrect, PTL

(***************************************************************************)
(* The two verifiers, and what the builders build.                         *)
(***************************************************************************)

\* The verifier of chains takes what the other takes, and of what the other
\* may take nothing else.
LEMMA SinglesAgree ==
  ASSUME NEW t
  PROVE  VerifyDelegation(t).verdict = "ok" <=>
           VerifyChained(t).verdict = "ok" /\ t.chain = {} /\ t.jti = None /\ t.chain_hash = {}
<1>1. PICK r : r = AfterRevocation(Verifier, t.voucher.src_jti, t.scope)
  OBVIOUS
<1>2. VerifyDelegation(t).verdict = "ok" <=>
        /\ AloneGood(t) /\ t.chain = {} /\ t.jti = None /\ t.chain_hash = {}
        /\ r.verdict = "ok"
  BY <1>1, StableMeans
<1>3. IF AloneGood(t) /\ (MAX_HOPS > 0 \/ (t.chain = {} /\ t.jti = None))
      THEN VerifyChainedSingle(t) = r ELSE VerifyChainedSingle(t).verdict # "ok"
  BY <1>1, ChainedSingleMeans
<1>4. t.chain = {} => VerifyChained(t) = VerifyChainedSingle(t)
  BY ChainIs DEF VerifyChained
<1> QED
  BY <1>2, <1>3, <1>4

\* The first hops of a chain end with the i-th.
LEMMA Peeled ==
  ASSUME NEW H, NEW hops \in Seq(H), NEW i \in 1..Len(hops), NEW a \in Seq(H), NEW x \in H,
         Append(a, x) = SubSeq(hops, 1, i)
  PROVE  a = SubSeq(hops, 1, i - 1) /\ x = hops[i] /\ Len(a) = i - 1
<1>1. \A j \in 1..i : hops[j] \in H
  OBVIOUS
<1>2. i \in Nat /\ 1 <= i /\ i - 1 \in Nat
  OBVIOUS
<1>3. PICK b : b = SubSeq(hops, 1, i - 1)
  OBVIOUS
<1>4. b \in Seq(H) /\ Len(b) = i - 1 /\ \A j \in 1..(i - 1) : b[j] = hops[j]
  <2>1. \A j \in 1..(i - 1) : hops[j] \in H
    BY <1>1, <1>2
  <2>2. /\ b \in Seq(H) /\ Len(b) = (IF 1 <= i - 1 THEN (i - 1) - 1 + 1 ELSE 0)
        /\ \A j \in 1..((i - 1) - 1 + 1) : b[j] = hops[1 + j - 1]
    BY <1>2, <1>3, <2>1, SubSeqProperties
  <2>3. (i - 1) - 1 + 1 = i - 1 /\ \A j \in 1..(i - 1) : 1 + j - 1 = j
    BY <1>2
  <2> QED
    BY <1>2, <2>2, <2>3
<1>5. PICK c : c = Append(a, x)
  OBVIOUS
<1>6. Len(c) = i /\ \A j \in 1..i : c[j] = hops[j]
  <2>1. /\ Len(c) = (IF 1 <= i THEN i - 1 + 1 ELSE 0)
        /\ \A j \in 1..(i - 1 + 1) : c[j] = hops[1 + j - 1]
    BY <1>1, <1>2, <1>5, SubSeqProperties
  <2>2. i - 1 + 1 = i /\ \A j \in 1..i : 1 + j - 1 = j
    BY <1>2
  <2> QED
    BY <1>2, <2>1, <2>2
<1>7. Len(c) = Len(a) + 1 /\ Len(a) \in Nat /\ c[Len(a) + 1] = x /\ \A j \in 1..Len(a) : c[j] = a[j]
  BY <1>5
<1>8. Len(a) = i - 1 /\ x = hops[i]
  BY <1>2, <1>6, <1>7
<1>9. a = b
  <2>1. \A j \in 1..Len(a) : a[j] = b[j]
    BY <1>2, <1>4, <1>6, <1>7, <1>8
  <2> QED
    BY <1>4, <1>8, <2>1
<1> QED
  BY <1>3, <1>8, <1>9

\* A chain of honest hops: the i-th was built from the one before it, which
\* carries the chain up to itself.
BuiltFrom(hops, i) ==
  /\ FromHop(hops[i], hops[i - 1]) /\ hops[i].chain = {SubSeq(hops, 1, i - 1)}

\* Such a chain was built hop by hop, from a voucher.
LEMMA HonestChain ==
  ASSUME DelegationInv, NEW t \in Hops, Honest(t), NEW hops \in Seq(Hops), NEW n \in Nat,
         hops = Append(ChainOf(t), t), n = Len(hops), n >= 1, hops[n] = t
  PROVE  /\ \A i \in 1..n : BuiltHop(hops[i], Hops, Vouchers)
         /\ FromVoucher(hops[1], Vouchers)
         /\ \A i \in 2..n : BuiltFrom(hops, i)
<1>1. DOMAIN hops = 1..n /\ \A i \in 1..n : hops[i] \in Hops
  OBVIOUS
<1>2. \A i \in 1..n : hops[i].signer \notin Lax
  BY <1>1 DEF Honest
<1>3. \A i \in 1..n : BuiltHop(hops[i], Hops, Vouchers)
  BY <1>1, <1>2 DEF DelegationInv
<1> DEFINE C(i) == Append(ChainOf(hops[i]), hops[i]) = SubSeq(hops, 1, i)
<1>4. C(n)
  BY SubSeqFull
<1>5. ASSUME NEW i \in 1..n, C(i)
      PROVE  /\ i = 1 => FromVoucher(hops[1], Vouchers)
             /\ i # 1 => BuiltFrom(hops, i) /\ C(i - 1)
  <2>1. ChainOf(hops[i]) \in Seq(Hops) /\ hops[i] \in Hops
    BY <1>1, ChainShape DEF DelegationInv, DelegationTypes
  <2>2. ChainOf(hops[i]) = SubSeq(hops, 1, i - 1) /\ Len(ChainOf(hops[i])) = i - 1
    BY <1>5, <2>1, Peeled
  <2>3. FromVoucher(hops[i], Vouchers) \/ \E p \in Hops : FromHop(hops[i], p)
    BY <1>3 DEF BuiltHop
  <2>4. ASSUME FromVoucher(hops[i], Vouchers) PROVE i = 1
    <3>1. ChainOf(hops[i]) = << >>
      BY <2>4, ChainIs DEF FromVoucher
    <3>2. i - 1 = 0
      BY <2>2, <3>1
    <3> QED
      BY <3>2
  <2>5. ASSUME NEW p \in Hops, FromHop(hops[i], p) PROVE i # 1 /\ BuiltFrom(hops, i) /\ C(i - 1)
    <3>1. hops[i].chain = {Append(ChainOf(p), p)}
      BY <2>5 DEF FromHop
    <3>2. Append(ChainOf(p), p) = SubSeq(hops, 1, i - 1)
      BY <2>2, <3>1, ChainIs
    <3>3. ChainOf(p) \in Seq(Hops)
      BY ChainShape DEF DelegationInv, DelegationTypes
    <3>4. Len(Append(ChainOf(p), p)) >= 1
      BY <3>3
    <3>5. i # 1
      <4>1. Len(ChainOf(hops[i])) >= 1
        BY <2>2, <3>2, <3>4
      <4> QED
        BY <2>2, <4>1
    <3>6. i - 1 \in 1..Len(hops)
      BY <3>5
    <3>7. p = hops[i - 1]
      BY <3>2, <3>3, <3>6, Peeled
    <3> QED
      BY <2>5, <3>1, <3>2, <3>5, <3>7 DEF BuiltFrom
  <2> QED
    BY <2>3, <2>4, <2>5
<1> HIDE DEF C
<1> DEFINE P == {k \in 0..n : k < n => C(n - k)}
<1>6. \A k \in 0..n : k \in P
  <2>1. 0 \in P
    BY <1>4
  <2>2. ASSUME NEW k \in 0..n, k < n, k \in P PROVE k + 1 \in P
    <3>1. k + 1 \in 0..n /\ n - k \in 1..n /\ n - (k + 1) = (n - k) - 1
      BY <2>2
    <3>2. k + 1 < n => n - k # 1
      BY <2>2
    <3>3. C(n - k)
      BY <2>2
    <3>4. k + 1 < n => C((n - k) - 1)
      BY <1>5, <3>1, <3>2, <3>3
    <3> QED
      BY <3>1, <3>4
  <2> HIDE DEF P
  <2> QED
    BY <2>1, <2>2, UpTo
<1>7. \A i \in 1..n : C(i)
  <2>1. SUFFICES ASSUME NEW i \in 1..n PROVE C(i)
    OBVIOUS
  <2>2. n - i \in 0..n /\ n - i < n /\ n - (n - i) = i
    OBVIOUS
  <2> QED
    BY <1>6, <2>2
<1>8. FromVoucher(hops[1], Vouchers)
  <2>1. 1 \in 1..n
    OBVIOUS
  <2> QED
    BY <1>5, <1>7, <2>1
<1>9. \A i \in 2..n : BuiltFrom(hops, i)
  <2>1. \A i \in 2..n : i \in 1..n /\ i # 1
    OBVIOUS
  <2> QED
    BY <1>5, <1>7, <2>1
<1> QED
  BY <1>3, <1>8, <1>9

\* A voucher that the verifier signed verifies.
LEMMA VoucherPasses ==
  ASSUME DelegationInv, NEW v \in Vouchers
  PROVE  VerifyVoucher(v, Verifier) = "ok"
<1>1. /\ v.typ = "voucher" /\ v.signer = Verifier /\ v.iss = Verifier /\ v.flaw = "none" /\ v.grants # {}
  BY VoucherIs
<1>2. AllHold(PeekChecks(v, "voucher"))
  BY <1>1, PeekPasses
<1>3. AllHold(SignedChecks(v, Verifier))
  BY <1>1, SignedPasses
<1>4. FineList(PeekChecks(v, "voucher"))
  <2> DEFINE a == <<v.typ = "voucher", "Crypto">>
             b == <<v.flaw # "duplicate", "ClaimsMalformed">>
             c == <<v.flaw # "member", "UnknownField">>
             d == <<v.flaw # "id", "JtiNotV4">>
  <2>1. PeekChecks(v, "voucher") = <<a, b, c, d>>
    BY DEF PeekChecks
  <2>2. Fine(a) /\ Fine(b) /\ Fine(c) /\ Fine(d)
    BY CheckIs
  <2> HIDE DEF a, b, c, d
  <2> QED
    BY <2>1, <2>2, FineFour
<1>5. FineList(SignedChecks(v, Verifier))
  <2> DEFINE a == <<v.signer = Verifier, "Crypto">>
             b == <<v.flaw # "type", "ClaimsMalformed">>
             c == <<v.flaw # "version", "VersionUnknown">>
             d == <<v.iss = Verifier, "IssuerMismatch">>
  <2>1. SignedChecks(v, Verifier) = <<a, b, c, d>>
    BY DEF SignedChecks
  <2>2. Fine(a) /\ Fine(b) /\ Fine(c) /\ Fine(d)
    BY CheckIs
  <2> HIDE DEF a, b, c, d
  <2> QED
    BY <2>1, <2>2, FineFour
<1> DEFINE e == <<v.grants # {}, "EmptyGrants">>
<1>6. VerifyVoucher(v, Verifier) = Verdict((PeekChecks(v, "voucher") \o SignedChecks(v, Verifier)) \o <<e>>)
  BY DEF VerifyVoucher
<1>7. Fine(e) /\ e[1]
  BY <1>1, CheckIs
<1> HIDE DEF e
<1>8. FineList(<<e>>) /\ AllHold(<<e>>)
  BY <1>7, FineOne
<1>9. PICK A : A = PeekChecks(v, "voucher") \o SignedChecks(v, Verifier)
  OBVIOUS
<1>10. FineList(A) /\ AllHold(A)
  BY <1>2, <1>3, <1>4, <1>5, <1>9, FineJoin
<1>11. FineList(A \o <<e>>) /\ AllHold(A \o <<e>>)
  BY <1>8, <1>10, FineJoin
<1> QED
  BY <1>6, <1>9, <1>11, FineVerdict

\* An honest hop's own claims pass.
LEMMA HonestHop ==
  ASSUME DelegationInv, NEW t \in Hops, BuiltHop(t, Hops, Vouchers)
  PROVE  GoodForm(t) /\ GoodClaims(t)
<1>1. t.typ = "delegation"
  BY DEF Hops
<1>2. t.flaw = "none" /\ t.aud = Verifier /\ t.jkt = t.sub
  BY DEF DelegationInv, DelegationTypes, HopShape
<1>3. t.signer = t.iss /\ t.iss # t.sub /\ t.scope # {}
  BY DEF BuiltHop
<1> QED
  BY <1>1, <1>2, <1>3 DEF GoodForm, GoodClaims

\* One built from a voucher that has not expired is rooted in it.
LEMMA VoucherRoots ==
  ASSUME DelegationInv, NEW t, FromVoucher(t, Vouchers), InDate(t.voucher)
  PROVE  Rooted(t)
<1>1. t.voucher \in Vouchers
  BY DEF FromVoucher
<1>2. VerifyVoucher(t.voucher, Verifier) = "ok" /\ t.voucher # None
  BY <1>1, VoucherPasses, VoucherIs
<1> QED
  BY <1>2 DEF FromVoucher, Rooted, InDate

\* What the builders build passes the verifier of chains.
LEMMA HonestPasses ==
  ASSUME DelegationInv, NEW t \in Hops, Honest(t), Unimpeded(t)
  PROVE  VerifyChained(t).verdict \in {"ok", "SafeSubsetEmpty"}
<1>1. PICK hops \in Seq(Hops), n \in Nat :
        /\ hops = Append(ChainOf(t), t) /\ n = Len(hops) /\ n >= 1 /\ hops[n] = t
        /\ Len(ChainOf(t)) = n - 1 /\ (n = 1 <=> ChainOf(t) = << >>)
  BY HopsOf
<1>2. /\ \A i \in 1..n : BuiltHop(hops[i], Hops, Vouchers)
      /\ FromVoucher(hops[1], Vouchers)
      /\ \A i \in 2..n : BuiltFrom(hops, i)
  BY <1>1, HonestChain
<1>3. \A i \in 1..n : hops[i] \in Hops
  BY <1>1
<1>4. /\ IF n = 1 THEN MAX_HOPS > 0 \/ t.jti = None ELSE n + 1 <= MAX_HOPS
      /\ InDate(hops[1].voucher)
      /\ \A k \in 1..n : InDate(hops[k]) /\ Resolves(hops[k].iss)
      /\ ~Listed(Verifier, hops[1].voucher.src_jti)
      /\ \A k \in 1..n : ~Listed(hops[k].iss, hops[k].jti)
  <2>1. DOMAIN hops = 1..n
    BY <1>1
  <2>2. DOMAIN Append(ChainOf(t), t) = 1..n /\ Len(Append(ChainOf(t), t)) = n
    BY <1>1, <2>1
  <2>3. /\ IF Len(Append(ChainOf(t), t)) = 1 THEN MAX_HOPS > 0 \/ t.jti = None
             ELSE Len(Append(ChainOf(t), t)) + 1 <= MAX_HOPS
        /\ InDate(Append(ChainOf(t), t)[1].voucher)
        /\ \A k \in DOMAIN Append(ChainOf(t), t) :
             InDate(Append(ChainOf(t), t)[k]) /\ Resolves(Append(ChainOf(t), t)[k].iss)
        /\ ~Listed(Verifier, Append(ChainOf(t), t)[1].voucher.src_jti)
        /\ \A k \in DOMAIN Append(ChainOf(t), t) :
             ~Listed(Append(ChainOf(t), t)[k].iss, Append(ChainOf(t), t)[k].jti)
    BY DEF Unimpeded
  <2> QED
    BY <1>1, <2>2, <2>3
<1>5. \A i \in 1..n : GoodForm(hops[i]) /\ GoodClaims(hops[i]) /\ hops[i].exp >= clock
  BY <1>2, <1>3, <1>4, HonestHop DEF InDate
<1>6. Rooted(hops[1])
  BY <1>2, <1>4, VoucherRoots
<1>7. CASE n = 1
  <2>1. hops[1] = t /\ VerifyChained(t) = VerifyChainedSingle(t)
    BY <1>1, <1>7 DEF VerifyChained
  <2>2. 1 \in 1..n
    BY <1>7
  <2>3. AloneGood(t)
    BY <1>4, <1>5, <1>6, <2>1, <2>2 DEF AloneGood
  <2>4. MAX_HOPS > 0 \/ (t.chain = {} /\ t.jti = None)
    BY <1>2, <1>4, <1>7, <2>1 DEF FromVoucher
  <2>5. PICK r : r = AfterRevocation(Verifier, t.voucher.src_jti, t.scope)
    OBVIOUS
  <2>6. VerifyChained(t) = r
    BY <2>1, <2>3, <2>4, <2>5, ChainedSingleMeans
  <2> QED
    BY <1>4, <2>1, <2>5, <2>6, LookupMeans
<1>8. CASE n # 1
  <2>1. n \in 2..n /\ 2 \in 2..n /\ n + 1 <= MAX_HOPS
    BY <1>1, <1>4, <1>8
  <2>2. MAX_HOPS # 0 /\ Len(ChainOf(t)) + 2 <= MAX_HOPS
    BY <1>1, <2>1, DelegationAssumption
  <2>3. VerifyChained(t) = VerifyMultiHop(t)
    BY <1>1, <1>8, <2>2 DEF VerifyChained
  <2>4. t.chain_hash = {ChainOf(t)}
    <3>1. BuiltFrom(hops, n) /\ BuiltHop(hops[n], Hops, Vouchers)
      BY <1>2, <2>1
    <3>2. t.chain = {SubSeq(hops, 1, n - 1)} /\ t.chain_hash = t.chain
      BY <1>1, <3>1 DEF BuiltFrom, BuiltHop
    <3> QED
      BY <3>2, ChainIs
  <2>5. ASSUME NEW i \in 1..n PROVE HopGood(hops, i)
    <3>1. BuiltHop(hops[i], Hops, Vouchers)
      BY <1>2
    <3>2. CASE i = 1
      <4>1. hops[1].jti # None
        <5>1. BuiltFrom(hops, 2) /\ 2 - 1 = 1
          BY <1>2, <2>1
        <5> QED
          BY <5>1 DEF BuiltFrom, FromHop
      <4>2. \A k \in 1..(1 - 1) : hops[k].jti # hops[1].jti
        OBVIOUS
      <4>3. PrefixFits(hops, 1)
        BY <1>2 DEF PrefixFits, FromVoucher
      <4> QED
        BY <1>4, <1>5, <1>6, <3>2, <4>1, <4>2, <4>3 DEF HopGood
    <3>3. CASE i # 1
      <4>1. i \in 2..n /\ i - 1 \in 1..n
        BY <3>3
      <4>2. BuiltFrom(hops, i)
        BY <1>2, <4>1
      <4>3. FromHop(hops[i], hops[i - 1]) /\ hops[i].chain = {SubSeq(hops, 1, i - 1)}
        BY <4>2 DEF BuiltFrom
      <4>4. Carries(hops, i) /\ hops[i].jti # None
        BY <4>3 DEF FromHop, Carries
      <4>5. PrefixFits(hops, i)
        BY <3>1, <4>3 DEF PrefixFits, BuiltHop
      <4>6. \A k \in 1..(i - 1) : hops[k].jti # hops[i].jti
        <5>1. PICK s : s = Append(ChainOf(hops[i - 1]), hops[i - 1])
          OBVIOUS
        <5>2. hops[i].chain = {s} /\ \A k \in DOMAIN s : s[k].jti # hops[i].jti
          BY <4>3, <5>1 DEF FromHop
        <5>3. s = SubSeq(hops, 1, i - 1)
          BY <4>3, <5>2
        <5>4. DOMAIN s = 1..(i - 1) /\ \A k \in 1..(i - 1) : s[k] = hops[k]
          BY <1>1, <4>1, <5>3
        <5> QED
          BY <5>2, <5>4
      <4> QED
        BY <1>4, <1>5, <3>3, <4>4, <4>5, <4>6 DEF HopGood
    <3> QED
      BY <3>2, <3>3
  <2>6. VerifyMultiHop(t) = ChainRevocation(hops)
    BY <1>1, <2>2, <2>4, <2>5, MultiMeans
  <2>7. NoneListed(hops)
    BY <1>1, <1>4 DEF NoneListed
  <2>8. ChainRevocation(hops).verdict \in {"ok", "SafeSubsetEmpty"}
    BY <1>1, <2>7, ChainLookups
  <2> QED
    BY <2>3, <2>6, <2>8
<1> QED
  BY <1>7, <1>8

\* The verifier of chains accepts whatever the builders build, of any length
\* it is configured to take, unless something expired, was revoked or cannot
\* be resolved; and the two verifiers agree on what both take.
THEOREM VerifiersDoAgree == Spec => []VerifiersAgree
<1>1. DelegationInv => VerifiersAgree
  <2>1. SUFFICES ASSUME DelegationInv PROVE VerifiersAgree
    OBVIOUS
  <2>2. \A t \in Hops :
          Honest(t) /\ Unimpeded(t) => VerifyChained(t).verdict \in {"ok", "SafeSubsetEmpty"}
    BY <2>1, HonestPasses
  <2>3. \A t \in Hops :
          VerifyDelegation(t).verdict = "ok" <=>
            VerifyChained(t).verdict = "ok" /\ t.chain = {} /\ t.jti = None /\ t.chain_hash = {}
    BY SinglesAgree
  <2> QED
    BY <2>2, <2>3 DEF VerifiersAgree
<1> QED
  BY <1>1, DelegationCorrect, PTL

(***************************************************************************)
(* Sequences, and the calls of a fixture.                                  *)
(***************************************************************************)

\* What every member of a sequence is in, and the other way round.
LEMMA SequenceOf ==
  ASSUME NEW X, NEW s \in Seq(X)
  PROVE  IsSequence(s) /\ Len(s) \in Nat /\ \A k \in 1..Len(s) : s[k] \in X
<1>1. PICK Y : Y = {s[k] : k \in DOMAIN s}
  OBVIOUS
<1>2. DOMAIN s = 1..Len(s) /\ Len(s) \in Nat /\ s = [k \in 1..Len(s) |-> s[k]]
  OBVIOUS
<1>3. \A k \in 1..Len(s) : s[k] \in Y
  BY <1>1, <1>2
<1>4. s \in Seq(Y)
  BY <1>2, <1>3
<1> QED
  BY <1>1, <1>4 DEF IsSequence

\* A sequence without its first element.
LEMMA TailMeans ==
  ASSUME NEW s, IsSequence(s), s # << >>
  PROVE  /\ IsSequence(Tail(s)) /\ Len(s) \in Nat /\ Len(s) > 0 /\ Len(Tail(s)) = Len(s) - 1
         /\ Head(s) = s[1] /\ \A k \in 1..(Len(s) - 1) : Tail(s)[k] = s[k + 1]
<1>1. PICK X, t : X = {s[k] : k \in DOMAIN s} /\ t = Tail(s)
  OBVIOUS
<1>2. s \in Seq(X)
  BY <1>1 DEF IsSequence
<1>3. /\ t \in Seq(X) /\ Len(s) \in Nat /\ Len(s) > 0 /\ Len(t) = Len(s) - 1
      /\ Head(s) = s[1] /\ \A k \in 1..(Len(s) - 1) : t[k] = s[k + 1]
  BY <1>1, <1>2
<1>4. IsSequence(t)
  BY <1>3, SequenceOf
<1> QED
  BY <1>1, <1>3, <1>4

\* A sequence with one element more.
LEMMA AppendMeans ==
  ASSUME NEW s, IsSequence(s), NEW x
  PROVE  /\ IsSequence(Append(s, x)) /\ Len(s) \in Nat /\ Len(Append(s, x)) = Len(s) + 1
         /\ Append(s, x)[Len(s) + 1] = x /\ \A k \in 1..Len(s) : Append(s, x)[k] = s[k]
         /\ Append(s, x) # << >>
<1>1. PICK W, X, t : W = {s[k] : k \in DOMAIN s} /\ X = W \cup {x} /\ t = Append(s, x)
  OBVIOUS
<1>2. s \in Seq(X) /\ x \in X
  <2>1. s \in Seq(W)
    BY <1>1 DEF IsSequence
  <2> QED
    BY <1>1, <2>1
<1>3. /\ t \in Seq(X) /\ Len(s) \in Nat /\ Len(t) = Len(s) + 1
      /\ t[Len(s) + 1] = x /\ \A k \in 1..Len(s) : t[k] = s[k]
  BY <1>1, <1>2
<1>4. IsSequence(t)
  BY <1>3, SequenceOf
<1>5. t # << >>
  <2>1. Len(<< >>) = 0
    OBVIOUS
  <2>2. Len(t) # 0
    BY <1>3
  <2> QED
    BY <2>1, <2>2
<1> QED
  BY <1>1, <1>3, <1>4, <1>5

WellFormed(f) == IsSequence(f.preconditions) /\ IsSequence(f.steps)

\* The calls of a fixture are at least one, and those that may fail are the two that
\* set the stage.
LEMMA CallsShape ==
  ASSUME NEW f, WellFormed(f)
  PROVE  /\ IsSequence(Calls(f)) /\ Len(Calls(f)) \in Nat /\ Len(Calls(f)) > 0
         /\ \A k \in 1..Len(Calls(f)) :
              /\ Calls(f)[k].kind \in {"ignored", "precondition", "step"}
              /\ Calls(f)[k].kind = "ignored" =>
                   Calls(f)[k].op \in {"set_clock", "begin_fixture"} /\ Calls(f)[k].minted
<1>1. PICK A, B, C, D :
        /\ A = <<Call("ignored", "set_clock", "reference")>>
        /\ B = [k \in DOMAIN f.preconditions |-> Call("precondition", f.preconditions[k].op, f.preconditions[k].arg)]
        /\ C = <<Call("ignored", "set_clock", "reference"), Call("ignored", "begin_fixture", 0)>>
        /\ D = [k \in DOMAIN f.steps |->
                 [kind |-> "step", op |-> f.steps[k].op, arg |-> f.steps[k].arg, want |-> f.steps[k].want,
                  absent |-> f.steps[k].absent, minted |-> f.steps[k].minted]]
  OBVIOUS
<1>2. Calls(f) = A \o B \o C \o D
  BY <1>1 DEF Calls
<1>3. PICK X1, X2, X3 :
        /\ X1 = {Call("ignored", "set_clock", "reference"), Call("ignored", "begin_fixture", 0)}
        /\ X2 = {B[k] : k \in DOMAIN f.preconditions} /\ X3 = {D[k] : k \in DOMAIN f.steps}
  OBVIOUS
<1>4. A \in Seq(X1) /\ C \in Seq(X1) /\ Len(A) = 1
  BY <1>1, <1>3
<1>5. B \in Seq(X2)
  <2>1. DOMAIN f.preconditions = 1..Len(f.preconditions) /\ Len(f.preconditions) \in Nat
    BY DEF WellFormed, IsSequence
  <2>2. B = [k \in 1..Len(f.preconditions) |-> B[k]] /\ \A k \in 1..Len(f.preconditions) : B[k] \in X2
    BY <1>1, <1>3, <2>1
  <2> QED
    BY <2>1, <2>2
<1>6. D \in Seq(X3)
  <2>1. DOMAIN f.steps = 1..Len(f.steps) /\ Len(f.steps) \in Nat
    BY DEF WellFormed, IsSequence
  <2>2. D = [k \in 1..Len(f.steps) |-> D[k]] /\ \A k \in 1..Len(f.steps) : D[k] \in X3
    BY <1>1, <1>3, <2>1
  <2> QED
    BY <2>1, <2>2
<1>7. PICK X : X = X1 \cup X2 \cup X3
  OBVIOUS
<1>8. A \in Seq(X) /\ B \in Seq(X) /\ C \in Seq(X) /\ D \in Seq(X)
  BY <1>4, <1>5, <1>6, <1>7
<1>9. /\ A \o B \o C \o D \in Seq(X)
      /\ Len(A \o B \o C \o D) >= 1
  <2>1. PICK P : P = A \o B
    OBVIOUS
  <2>2. P \in Seq(X) /\ Len(P) >= 1
    <3>1. Len(A) \in Nat /\ Len(B) \in Nat
      BY <1>8
    <3>2. P \in Seq(X) /\ Len(P) = Len(A) + Len(B)
      BY <1>8, <2>1
    <3> QED
      BY <1>4, <3>1, <3>2
  <2>3. PICK Q : Q = P \o C
    OBVIOUS
  <2>4. Q \in Seq(X) /\ Len(Q) >= 1
    BY <1>8, <2>2, <2>3
  <2>5. Q \o D \in Seq(X) /\ Len(Q \o D) >= 1
    BY <1>8, <2>4
  <2> QED
    BY <2>1, <2>3, <2>5
<1>10. ASSUME NEW c \in X
       PROVE  /\ c.kind \in {"ignored", "precondition", "step"}
              /\ c.kind = "ignored" => c.op \in {"set_clock", "begin_fixture"} /\ c.minted
  <2>1. CASE c \in X1
    BY <1>3, <2>1 DEF Call
  <2>2. CASE c \in X2
    <3>1. PICK k \in DOMAIN f.preconditions : c = B[k]
      BY <1>3, <2>2
    <3>2. c.kind = "precondition"
      BY <1>1, <3>1 DEF Call
    <3> QED
      BY <3>2
  <2>3. CASE c \in X3
    <3>1. PICK k \in DOMAIN f.steps : c = D[k]
      BY <1>3, <2>3
    <3>2. c.kind = "step"
      BY <1>1, <3>1
    <3> QED
      BY <3>2
  <2> QED
    BY <1>7, <2>1, <2>2, <2>3
<1>11. Calls(f) \in Seq(X) /\ Len(Calls(f)) >= 1
  BY <1>2, <1>9
<1>12. IsSequence(Calls(f)) /\ Len(Calls(f)) \in Nat /\ \A k \in 1..Len(Calls(f)) : Calls(f)[k] \in X
  BY <1>11, SequenceOf
<1> QED
  BY <1>10, <1>11, <1>12

(***************************************************************************)
(* What the reference computes.                                            *)
(***************************************************************************)
Fresh(st) == [st |-> st, nonces |-> << >>]

\* A fixture served call by call.
LEMMA ServingMeans ==
  ASSUME NEW f, WellFormed(f), NEW st
  PROVE  /\ Serving(f, st)[0] = Fresh(st)
         /\ \A k \in 1..Len(Calls(f)) : Serving(f, st)[k] = AfterCall(Serving(f, st)[k - 1], Calls(f)[k])
<1>1. PICK n \in Nat : n = Len(Calls(f))
  BY CallsShape
<1> DEFINE G(r, k) == AfterCall(r, Calls(f)[k])
           Is(run, m) == run = [k \in 0..m |-> IF k = 0 THEN Fresh(st) ELSE G(run[k - 1], k)]
           S == {m \in 0..n : \E run : Is(run, m)}
<1> HIDE DEF G
<1>2. 0 \in S
  <2>1. PICK run : run = [k \in 0..0 |-> Fresh(st)]
    OBVIOUS
  <2>2. Is(run, 0)
    BY <2>1
  <2> QED
    BY <2>2
<1>3. ASSUME NEW m \in 0..n, m \in S, m < n PROVE m + 1 \in S
  <2>1. PICK run : Is(run, m)
    BY <1>3
  <2>2. PICK g : g = [k \in 0..(m + 1) |-> IF k <= m THEN run[k] ELSE G(run[k - 1], k)]
    OBVIOUS
  <2>3. ASSUME NEW k \in 0..(m + 1)
        PROVE  g[k] = IF k = 0 THEN Fresh(st) ELSE G(g[k - 1], k)
    <3>1. k > 0 => k - 1 \in 0..m /\ k - 1 \in 0..(m + 1) /\ k - 1 <= m
      OBVIOUS
    <3>2. k > 0 => g[k - 1] = run[k - 1]
      BY <2>2, <3>1
    <3>3. g[k] = IF k <= m THEN run[k] ELSE G(run[k - 1], k)
      BY <2>2
    <3>4. k <= m => run[k] = IF k = 0 THEN Fresh(st) ELSE G(run[k - 1], k)
      BY <2>1
    <3> QED
      BY <3>2, <3>3, <3>4
  <2>4. Is(g, m + 1)
    BY <2>2, <2>3
  <2> QED
    BY <1>3, <2>4
<1>4. n \in S
  <2> HIDE DEF S
  <2>1. \A k \in 0..n : k \in S
    BY <1>2, <1>3, UpTo
  <2> QED
    BY <2>1
<1>5. \E run : Is(run, n)
  BY <1>4
<1>6. PICK run : Is(run, n) /\ run = CHOOSE x : Is(x, n)
  <2> HIDE DEF Is
  <2> QED
    BY <1>5
<1>7. Serving(f, st) = run
  <2>1. Serving(f, st) = CHOOSE x : x = [k \in 0..Len(Calls(f)) |->
          IF k = 0 THEN Fresh(st) ELSE AfterCall(x[k - 1], Calls(f)[k])]
    BY DEF Serving, Fresh
  <2>2. Serving(f, st) = CHOOSE x : Is(x, Len(Calls(f)))
    BY <2>1 DEF G
  <2> QED
    BY <1>1, <1>6, <2>2
<1>8. run[0] = Fresh(st) /\ \A k \in 1..n : run[k] = G(run[k - 1], k)
  BY <1>6
<1> QED
  BY <1>1, <1>7, <1>8 DEF G

LeftBy(f, states) == {Serving(f, st)[n].st : st \in states, n \in 0..Len(Calls(f))}

\* What the fixtures leave behind, one after the other.
LEMMA StatesMean ==
  ASSUME NEW fixtures, IsSequence(fixtures), NEW features
  PROVE  /\ StatesBefore(fixtures, features)[1] = {AdapterState(features, "wall")}
         /\ \A k \in 1..Len(fixtures) :
              StatesBefore(fixtures, features)[k + 1] = LeftBy(fixtures[k], StatesBefore(fixtures, features)[k])
<1>1. PICK n \in Nat : n = Len(fixtures)
  BY DEF IsSequence
<1> DEFINE G(r, k) == LeftBy(fixtures[k - 1], r)
           First == {AdapterState(features, "wall")}
           Is(run, m) == run = [k \in 1..(m + 1) |-> IF k = 1 THEN First ELSE G(run[k - 1], k)]
           S == {m \in 0..n : \E run : Is(run, m)}
<1> HIDE DEF G, First
<1>2. 0 \in S
  <2>1. PICK run : run = [k \in 1..(0 + 1) |-> First]
    OBVIOUS
  <2>2. Is(run, 0)
    BY <2>1
  <2> QED
    BY <2>2
<1>3. ASSUME NEW m \in 0..n, m \in S, m < n PROVE m + 1 \in S
  <2>1. PICK run : Is(run, m)
    BY <1>3
  <2>2. PICK g : g = [k \in 1..(m + 1 + 1) |-> IF k <= m + 1 THEN run[k] ELSE G(run[k - 1], k)]
    OBVIOUS
  <2>3. ASSUME NEW k \in 1..(m + 1 + 1)
        PROVE  g[k] = IF k = 1 THEN First ELSE G(g[k - 1], k)
    <3>1. k > 1 => k - 1 \in 1..(m + 1) /\ k - 1 \in 1..(m + 1 + 1) /\ k - 1 <= m + 1
      OBVIOUS
    <3>2. k > 1 => g[k - 1] = run[k - 1]
      BY <2>2, <3>1
    <3>3. g[k] = IF k <= m + 1 THEN run[k] ELSE G(run[k - 1], k)
      BY <2>2
    <3>4. k <= m + 1 => run[k] = IF k = 1 THEN First ELSE G(run[k - 1], k)
      BY <2>1
    <3> QED
      BY <3>2, <3>3, <3>4
  <2>4. Is(g, m + 1)
    BY <2>2, <2>3
  <2> QED
    BY <1>3, <2>4
<1>4. n \in S
  <2> HIDE DEF S
  <2>1. \A k \in 0..n : k \in S
    BY <1>2, <1>3, UpTo
  <2> QED
    BY <2>1
<1>5. \E run : Is(run, n)
  BY <1>4
<1>6. PICK run : Is(run, n) /\ run = CHOOSE x : Is(x, n)
  <2> HIDE DEF Is
  <2> QED
    BY <1>5
<1>7. StatesBefore(fixtures, features) = run
  <2>1. StatesBefore(fixtures, features) = CHOOSE x : x = [k \in 1..Len(fixtures) + 1 |->
          IF k = 1 THEN First ELSE LeftBy(fixtures[k - 1], x[k - 1])]
    BY DEF StatesBefore, First, LeftBy
  <2>2. StatesBefore(fixtures, features) = CHOOSE x : Is(x, Len(fixtures))
    BY <2>1 DEF G
  <2> QED
    BY <1>1, <1>6, <2>2
<1>8. run[1] = First /\ \A k \in 1..n : run[k + 1] = G(run[k], k + 1)
  <2>1. 1 \in 1..(n + 1) /\ \A k \in 1..n : k + 1 \in 1..(n + 1) /\ k + 1 # 1 /\ (k + 1) - 1 = k
    OBVIOUS
  <2>2. \A k \in 1..(n + 1) : run[k] = IF k = 1 THEN First ELSE G(run[k - 1], k)
    BY <1>6
  <2> QED
    BY <2>1, <2>2
<1>9. \A k \in 1..n : (k + 1) - 1 = k
  OBVIOUS
<1> QED
  BY <1>1, <1>7, <1>8, <1>9 DEF G, First

\* A state a fixture leaves behind is one the next may start from; so is the one it
\* started from itself, and, however many were skipped, that of a fresh adapter.
LEMMA StatesGrow ==
  ASSUME NEW fixtures, IsSequence(fixtures), \A k \in 1..Len(fixtures) : WellFormed(fixtures[k]), NEW features
  PROVE  /\ \A k \in 1..Len(fixtures) : \A st \in StatesBefore(fixtures, features)[k] :
              /\ st \in StatesBefore(fixtures, features)[k + 1]
              /\ \A n \in 0..Len(Calls(fixtures[k])) :
                   Serving(fixtures[k], st)[n].st \in StatesBefore(fixtures, features)[k + 1]
         /\ \A k \in 1..(Len(fixtures) + 1) : AdapterState(features, "wall") \in StatesBefore(fixtures, features)[k]
<1>1. PICK B, n, a : /\ B = StatesBefore(fixtures, features) /\ n = Len(fixtures)
                     /\ a = AdapterState(features, "wall")
  OBVIOUS
<1>2. n \in Nat /\ B[1] = {a} /\ \A k \in 1..n : B[k + 1] = LeftBy(fixtures[k], B[k])
  <2>1. n \in Nat
    BY <1>1 DEF IsSequence
  <2> QED
    BY <1>1, <2>1, StatesMean
<1>3. ASSUME NEW k \in 1..n, NEW st \in B[k]
      PROVE  /\ st \in B[k + 1]
             /\ \A m \in 0..Len(Calls(fixtures[k])) : Serving(fixtures[k], st)[m].st \in B[k + 1]
  <2>1. \A m \in 0..Len(Calls(fixtures[k])) : Serving(fixtures[k], st)[m].st \in B[k + 1]
    BY <1>2, <1>3 DEF LeftBy
  <2>2. 0 \in 0..Len(Calls(fixtures[k])) /\ Serving(fixtures[k], st)[0] = Fresh(st)
    <3>1. WellFormed(fixtures[k])
      BY <1>1
    <3>2. Len(Calls(fixtures[k])) \in Nat
      BY <3>1, CallsShape
    <3> QED
      BY <3>1, <3>2, ServingMeans
  <2>3. Fresh(st).st = st
    BY DEF Fresh
  <2> QED
    BY <2>1, <2>2, <2>3
<1>4. \A k \in 1..(n + 1) : a \in B[k]
  <2> DEFINE S == {m \in 0..n : a \in B[m + 1]}
  <2>1. 0 \in S
    BY <1>2
  <2>2. ASSUME NEW m \in 0..n, m \in S, m < n PROVE m + 1 \in S
    <3>1. m + 1 \in 1..n /\ m + 1 \in 0..n
      BY <1>2, <2>2
    <3>2. a \in B[m + 1]
      BY <2>2
    <3>3. a \in B[m + 1 + 1]
      BY <1>3, <3>1, <3>2
    <3> QED
      BY <3>1, <3>3
  <2>3. \A m \in 0..n : m \in S
    <3> HIDE DEF S
    <3> QED
      BY <1>2, <2>1, <2>2, UpTo
  <2>4. \A m \in 0..n : a \in B[m + 1]
    BY <2>3
  <2>5. \A k \in 1..(n + 1) : k - 1 \in 0..n /\ (k - 1) + 1 = k
    BY <1>2
  <2> QED
    BY <2>4, <2>5
<1> QED
  BY <1>1, <1>3, <1>4

(***************************************************************************)
(* The inductive invariant of a conformance run.                           *)
(***************************************************************************)
Before(k) == StatesBefore(suite, options.features)[k]
InitCall == Call("init", "init", 0)
FeaturesCall == Call("ignored", "set_features", options.features)
Spawned == Fresh(AdapterState({}, "wall"))

\* What is left of the calls after the first n.
Rest(p, calls, n) ==
  IsSequence(p) /\ Len(p) = Len(calls) - n /\ \A i \in 1..Len(p) : p[i] = calls[n + i]

\* Fixture f, started in state st, has n answers as it wants them, and B behind it.
GotTo(f, st, n, B) ==
  /\ Rest(plan, Calls(f), n)
  /\ B = Serving(f, st)[n] /\ substituted.nonces = B.nonces
  /\ substituted.unminted = {} <=>
       (\A i \in 1..n : Mintable(Calls(f)[i], Serving(f, st)[i - 1].nonces))
  /\ \A i \in 1..n : Wanted(Calls(f)[i], AnswerTo(Serving(f, st)[i - 1], Calls(f)[i]))

\* What the calls concluded so far leave behind is B: of a state and of nonces.
Starting(B) ==
  /\ ~announced /\ plan = <<InitCall>> /\ at = 1
  /\ B = Spawned /\ substituted = NothingIssued
  /\ FlagsRefused => requestId = 0

Between(B) ==
  /\ plan = << >> /\ ~FlagsRefused
  /\ at \in 1..Len(suite) => B.st \in IF announced THEN Before(at) ELSE {Spawned.st}

InFixture ==
  announced /\ ~FlagsRefused /\ at \in 1..Len(suite) /\ ShouldSkip(suite[at]) = "no" /\ plan # << >>

Featuring(B) ==
  /\ InFixture /\ IsSequence(plan)
  /\ Head(plan) = FeaturesCall /\ Rest(Tail(plan), Calls(suite[at]), 0)
  /\ B = Spawned /\ substituted = NothingIssued

Executing(B) ==
  InFixture /\ \E st \in Before(at), n \in Nat : GotTo(suite[at], st, n, B)

StageFits(B) == Starting(B) \/ Between(B) \/ Featuring(B) \/ Executing(B)

\* The requests that are under way take the adapter from where it is to B, or to
\* what follows it if an answer is awaited; the line with its id is that answer.
Draining(D, state, requests) ==
  D[1] = state /\ \A i \in 1..Len(requests) : D[i + 1] = Handle(D[i], requests[i].op, requests[i].arg)[1]

Awaited(line) == waiting # 0 /\ line.id = waiting

PipeFits(B) ==
  /\ \A i \in 1..Len(channel) : Awaited(channel[i]) => channel[i].answer = AnswerTo(B, Head(plan))
  /\ alive => \E D :
       /\ Draining(D, adapter, stdin)
       /\ D[Len(stdin) + 1] = IF waiting # 0 THEN AfterCall(B, Head(plan)).st ELSE B.st
       /\ \A i \in 1..Len(stdin) : Awaited(stdin[i]) =>
            /\ i = Len(stdin) /\ D[i] = B.st
            /\ stdin[i].op = Head(plan).op /\ stdin[i].arg = Substitute(Head(plan), B.nonces)

\* Ids go up; while nothing has gone wrong, one line at most is under way.
PipeTypes ==
  /\ IsSequence(stdin) /\ IsSequence(channel) /\ requestId \in Nat /\ waiting \in {0, requestId}
  /\ \A i \in 1..Len(stdin) : stdin[i].id \in 1..requestId
  /\ \A i \in 1..Len(channel) : channel[i].id \in 1..requestId
  /\ ~alive => stdin = << >>
  /\ waiting # 0 => plan # << >> /\ Head(plan).op \in SupportedOps

Quiet ==
  /\ alive
  /\ waiting = 0 => stdin = << >> /\ channel = << >>
  /\ waiting # 0 => \/ channel = << >> /\ Len(stdin) = 1 /\ stdin[1].id = waiting
                    \/ stdin = << >> /\ Len(channel) = 1 /\ channel[1].id = waiting

\* A result is earned, by the fixture or by a fault.
ResultFits(f, result) ==
  /\ result \in {"pass", "fail", "skip", "negated"}
  /\ result = "pass" => Conforms(f)
  /\ result = "negated" => Negated(f)
  /\ faults = 0 /\ result = "fail" => ShouldSkip(f) = "no" /\ ~Conforms(f)
  /\ faults = 0 /\ result = "skip" =>
       ShouldSkip(f) = "skip" \/ (ShouldSkip(f) = "no" /\ ~Conforms(f))

ResultsFit ==
  /\ IsSequence(results) /\ Len(results) <= Len(suite) /\ at \in Nat
  /\ \/ at = Len(results) + 1
     \/ /\ options.fail_fast /\ at = Len(suite) + 1
        /\ \E k \in 1..Len(results) : results[k] = "fail"
  /\ \A k \in 1..Len(results) : ResultFits(suite[k], results[k])

CfInv ==
  /\ suite \in Suites /\ options \in RunOptions /\ faults \in Nat
  /\ ResultsFit
  /\ exit = Running => /\ claims = {} /\ PipeTypes
                       /\ faults = 0 => Quiet
                       /\ \E B : StageFits(B) /\ PipeFits(B)
  /\ exit # Running => VerdictEarned

(***************************************************************************)
(* Results.                                                                *)
(***************************************************************************)

\* What is assumed of the fixtures of a run.
LEMMA SuiteShape ==
  ASSUME suite \in Suites, options \in RunOptions
  PROVE  /\ IsSequence(suite) /\ Len(suite) \in Nat /\ DOMAIN suite = 1..Len(suite)
         /\ \A k \in 1..Len(suite) : WellFormed(suite[k])
         /\ \A k \in 1..Len(suite) : \A st \in Before(k) : ConformsOn(suite[k], st) <=> Conforms(suite[k])
<1>1. IsSequence(suite)
  BY FixturesAreIndependent
<1>2. Len(suite) \in Nat /\ DOMAIN suite = 1..Len(suite)
  BY <1>1 DEF IsSequence
<1>3. ASSUME NEW k \in DOMAIN suite
      PROVE  /\ WellFormed(suite[k])
             /\ \A st \in Before(k) : ConformsOn(suite[k], st) <=> Conforms(suite[k])
  BY FixturesAreIndependent DEF WellFormed, Before, Conforms
<1> QED
  BY <1>1, <1>2, <1>3

\* A result stays earned when something goes wrong later.
LEMMA ResultStays ==
  ASSUME NEW f, NEW result, ResultFits(f, result), options' = options, faults' = 0 => faults = 0
  PROVE  ResultFits(f, result)'
<1>1. (Conforms(f) <=> Conforms(f)') /\ (Negated(f) <=> Negated(f)') /\ ShouldSkip(f)' = ShouldSkip(f)
  BY DEF Conforms, Negated, ShouldSkip
<1> QED
  BY <1>1 DEF ResultFits

\* One more result, of the fixture that ran.
LEMMA ResultAdded ==
  ASSUME suite \in Suites, options \in RunOptions, ResultsFit, at \in 1..Len(suite),
         suite' = suite, options' = options, faults' = 0 => faults = 0,
         NEW result, results' = Append(results, result), NEW fixture, fixture = suite[at],
         ResultFits(fixture, result)',
         \/ at' = at + 1
         \/ result = "fail" /\ options.fail_fast /\ at' = Len(suite) + 1
  PROVE  ResultsFit'
<1>1. PICK m \in Nat : m = Len(suite)
  BY SuiteShape
<1>2. /\ IsSequence(results) /\ at = Len(results) + 1 /\ Len(results) \in Nat
      /\ \A k \in 1..Len(results) : ResultFits(suite[k], results[k])
  <2>1. IsSequence(results) /\ at # m + 1
    BY <1>1 DEF ResultsFit
  <2>2. Len(results) \in Nat
    BY <2>1, AppendMeans
  <2> QED
    BY <1>1, <2>1, <2>2 DEF ResultsFit
<1>3. /\ IsSequence(results') /\ Len(results') = at /\ results'[at] = result
      /\ \A k \in 1..Len(results) : results'[k] = results[k]
  BY <1>2, AppendMeans
<1>4. ASSUME NEW k \in 1..at, NEW f, NEW r, f = suite[k], r = results'[k] PROVE ResultFits(f, r)'
  <2>1. CASE k = at
    <3>1. r = result /\ f = fixture
      BY <1>3, <1>4, <2>1
    <3> QED
      BY <3>1
  <2>2. CASE k # at
    <3>1. k \in 1..Len(results)
      BY <1>2, <2>2
    <3>2. r = results[k]
      BY <1>3, <1>4, <3>1
    <3>3. ResultFits(f, r)
      BY <1>2, <1>4, <3>1, <3>2
    <3> QED
      BY <3>3, ResultStays
  <2> QED
    BY <2>1, <2>2
<1>5. at \in 1..Len(results') /\ Len(results') <= m /\ at' \in Nat
  BY <1>1, <1>2, <1>3
<1>6. \/ at' = Len(results') + 1
      \/ /\ options'.fail_fast /\ at' = Len(suite') + 1
         /\ \E k \in 1..Len(results') : results'[k] = "fail"
  BY <1>1, <1>3, <1>5
<1>7. (\A k \in 1..Len(results) : ResultFits(suite[k], results[k]))'
  <2>1. ASSUME NEW k \in 1..Len(results') PROVE ResultFits(suite[k], results[k])'
    <3>1. PICK f, r : f = suite[k] /\ r = results'[k]
      OBVIOUS
    <3>2. ResultFits(f, r)'
      BY <1>3, <1>4, <3>1
    <3>3. f = suite'[k]
      BY <3>1
    <3> QED
      BY <3>1, <3>2, <3>3
  <2> QED
    BY <2>1
<1> QED
  BY <1>1, <1>3, <1>5, <1>6, <1>7 DEF ResultsFit

\* Results that stay, when something goes wrong or not.
LEMMA ResultsStay ==
  ASSUME ResultsFit, UNCHANGED <<suite, options, results, at>>, faults' = 0 => faults = 0
  PROVE  ResultsFit'
<1>1. \A k \in 1..Len(results) : ResultFits(suite[k], results[k])'
  BY ResultStays DEF ResultsFit
<1> QED
  BY <1>1 DEF ResultsFit

(***************************************************************************)
(* What concluding a call does.                                            *)
(***************************************************************************)

\* A call of a fixture: where it stands, and what serving it leads to.
LEMMA CallAt ==
  ASSUME NEW f, WellFormed(f), NEW st, NEW n \in Nat, NEW B, GotTo(f, st, n, B), plan # << >>
  PROVE  /\ Len(plan) \in Nat /\ Len(plan) > 0 /\ n + 1 \in 1..Len(Calls(f)) /\ Len(Calls(f)) \in Nat
         /\ Len(plan) = Len(Calls(f)) - n
         /\ Head(plan) = Calls(f)[n + 1] /\ Serving(f, st)[n + 1] = AfterCall(B, Head(plan))
         /\ Rest(Tail(plan), Calls(f), n + 1)
         /\ Head(plan).kind \in {"ignored", "precondition", "step"}
         /\ Head(plan).kind = "ignored" => Head(plan).op \in SupportedOps
<1>1. PICK m, c : m = Len(Calls(f)) /\ c = Calls(f) /\ m \in Nat
  BY CallsShape
<1>2. IsSequence(plan) /\ Len(plan) = m - n /\ \A i \in 1..Len(plan) : plan[i] = c[n + i]
  BY <1>1 DEF GotTo, Rest
<1>3. /\ IsSequence(Tail(plan)) /\ Len(plan) \in Nat /\ Len(plan) > 0 /\ Len(Tail(plan)) = Len(plan) - 1
      /\ Head(plan) = plan[1] /\ \A k \in 1..(Len(plan) - 1) : Tail(plan)[k] = plan[k + 1]
  BY <1>2, TailMeans
<1>4. n + 1 \in 1..m /\ Head(plan) = c[n + 1]
  <2>1. n + 1 \in 1..m
    <3>1. m - n > 0
      BY <1>2, <1>3
    <3> QED
      BY <1>1, <3>1
  <2>2. 1 \in 1..Len(plan)
    BY <1>3
  <2> QED
    BY <1>2, <1>3, <2>1, <2>2
<1>5. Rest(Tail(plan), c, n + 1)
  <2>1. Len(Tail(plan)) = m - (n + 1)
    <3>1. (m - n) - 1 = m - (n + 1)
      BY <1>1
    <3> QED
      BY <1>2, <1>3, <3>1
  <2>2. \A k \in 1..Len(Tail(plan)) : k \in 1..(Len(plan) - 1) /\ k + 1 \in 1..Len(plan) /\ n + (k + 1) = (n + 1) + k
    BY <1>3
  <2>3. \A k \in 1..Len(Tail(plan)) : Tail(plan)[k] = c[(n + 1) + k]
    BY <1>2, <1>3, <2>2
  <2> QED
    BY <1>1, <1>3, <2>1, <2>3 DEF Rest
<1>6. Serving(f, st)[n + 1] = AfterCall(B, c[n + 1])
  <2>1. Serving(f, st)[n + 1] = AfterCall(Serving(f, st)[(n + 1) - 1], c[n + 1])
    BY <1>1, <1>4, ServingMeans
  <2>2. (n + 1) - 1 = n /\ B = Serving(f, st)[n]
    BY DEF GotTo
  <2> QED
    BY <2>1, <2>2
<1>7. /\ c[n + 1].kind \in {"ignored", "precondition", "step"}
      /\ c[n + 1].kind = "ignored" => c[n + 1].op \in {"set_clock", "begin_fixture"}
  BY <1>1, <1>4, CallsShape
<1>8. {"set_clock", "begin_fixture"} \subseteq SupportedOps
  BY DEF SupportedOps
<1> QED
  BY <1>1, <1>2, <1>3, <1>4, <1>5, <1>6, <1>7, <1>8

\* A fixture that has one call more behind it, answered as it wants.
LEMMA GoesOn ==
  ASSUME NEW f, WellFormed(f), NEW st, NEW n \in Nat, NEW B, GotTo(f, st, n, B), plan # << >>,
         NEW C, C = Head(plan), plan' = Tail(plan), NEW answer,
         substituted' = [nonces |-> NoncesAfter(substituted.nonces, C, answer),
                         unminted |-> substituted.unminted \cup
                                      (IF Mintable(C, substituted.nonces) THEN {} ELSE {C.op})],
         C.kind = "step" => answer = AnswerTo(B, C),
         Wanted(C, AnswerTo(B, C))
  PROVE  GotTo(f, st, n + 1, AfterCall(B, C))'
<1>1. PICK X, run, c : X = AfterCall(B, C) /\ run = Serving(f, st) /\ c = Calls(f)
  OBVIOUS
<1>2. /\ Rest(plan', c, n + 1) /\ run[n + 1] = X /\ C = c[n + 1]
  BY <1>1, CallAt
<1>3. /\ B = run[n] /\ substituted.nonces = B.nonces
      /\ substituted.unminted = {} <=> (\A i \in 1..n : Mintable(c[i], run[i - 1].nonces))
      /\ \A i \in 1..n : Wanted(c[i], AnswerTo(run[i - 1], c[i]))
  BY <1>1 DEF GotTo
<1>4. (n + 1) - 1 = n /\ 1..(n + 1) = 1..n \cup {n + 1}
  OBVIOUS
<1>5. substituted'.nonces = X.nonces
  <2>1. X.nonces = NoncesAfter(B.nonces, C, AnswerTo(B, C))
    BY <1>1 DEF AfterCall
  <2>2. substituted'.nonces = NoncesAfter(B.nonces, C, answer)
    BY <1>3
  <2>3. CASE C.kind = "step"
    BY <2>1, <2>2, <2>3
  <2>4. CASE C.kind # "step"
    BY <2>1, <2>2, <2>4 DEF NoncesAfter
  <2> QED
    BY <2>3, <2>4
<1>6. substituted'.unminted = {} <=> (\A i \in 1..(n + 1) : Mintable(c[i], run[i - 1].nonces))
  <2>1. substituted'.unminted = substituted.unminted \cup (IF Mintable(C, B.nonces) THEN {} ELSE {C.op})
    BY <1>3
  <2>2. substituted'.unminted = {} <=> substituted.unminted = {} /\ Mintable(C, B.nonces)
    BY <2>1
  <2>3. Mintable(C, B.nonces) <=> Mintable(c[n + 1], run[(n + 1) - 1].nonces)
    BY <1>2, <1>3, <1>4
  <2> QED
    BY <1>3, <1>4, <2>2, <2>3
<1>7. \A i \in 1..(n + 1) : Wanted(c[i], AnswerTo(run[i - 1], c[i]))
  <2>1. Wanted(c[n + 1], AnswerTo(run[(n + 1) - 1], c[n + 1]))
    BY <1>2, <1>3, <1>4
  <2> QED
    BY <1>3, <1>4, <2>1
<1> QED
  BY <1>1, <1>2, <1>5, <1>6, <1>7 DEF GotTo

\* The end of a fixture, with a result it earned.
LEMMA FixtureEnds ==
  ASSUME suite \in Suites, options \in RunOptions, ResultsFit, InFixture,
         NEW f, f = suite[at], NEW st \in Before(at), NEW n \in Nat, NEW B, GotTo(f, st, n, B),
         UNCHANGED <<suite, options, announced>>, faults' = 0 => faults = 0,
         NEW C, C = Head(plan), NEW outcome, EndFixture(outcome), ResultFits(f, outcome)'
  PROVE  /\ ResultsFit' /\ plan' = << >> /\ exit' = exit
         /\ Between(B)' /\ Between(AfterCall(B, C))'
<1>1. PICK m \in Nat : m = Len(suite)
  BY SuiteShape
<1>2. at \in 1..m /\ announced /\ ~FlagsRefused /\ plan # << >> /\ WellFormed(f)
  BY <1>1, SuiteShape DEF InFixture
<1>3. /\ results' = Append(results, outcome) /\ plan' = << >> /\ exit' = exit
      /\ \/ at' = at + 1
         \/ outcome = "fail" /\ options.fail_fast /\ at' = m + 1
  BY <1>1 DEF EndFixture
<1>4. ResultsFit'
  BY <1>1, <1>2, <1>3, ResultAdded
<1>5. ASSUME at' \in 1..m
      PROVE  B.st \in Before(at)' /\ AfterCall(B, C).st \in Before(at)'
  <2>1. at' = at + 1
    BY <1>1, <1>3, <1>5
  <2>2. Before(at)' = StatesBefore(suite, options.features)[at + 1]
    BY <2>1 DEF Before
  <2>3. \A k \in 0..Len(Calls(f)) : Serving(f, st)[k].st \in StatesBefore(suite, options.features)[at + 1]
    BY <1>1, <1>2, SuiteShape, StatesGrow DEF Before
  <2>4. /\ n + 1 \in 0..Len(Calls(f)) /\ n \in 0..Len(Calls(f))
        /\ Serving(f, st)[n + 1] = AfterCall(B, C) /\ Serving(f, st)[n] = B
    <3>1. n + 1 \in 1..Len(Calls(f)) /\ Len(Calls(f)) \in Nat /\ Serving(f, st)[n + 1] = AfterCall(B, C)
      BY <1>2, CallAt
    <3>2. Serving(f, st)[n] = B
      BY DEF GotTo
    <3> QED
      BY <3>1, <3>2
  <2> QED
    BY <2>2, <2>3, <2>4
<1>6. PICK X : X = AfterCall(B, C)
  OBVIOUS
<1>7. FlagsRefused' = FlagsRefused
  BY DEF FlagsRefused
<1>8. Between(B)' /\ Between(X)'
  BY <1>1, <1>2, <1>3, <1>5, <1>6, <1>7 DEF Between
<1> QED
  BY <1>3, <1>4, <1>6, <1>8

\* What an error says of the call: of its answer, or that something went wrong.
ErrorFits(error, B, C, answer) ==
  /\ error = "none" => /\ C.op \in SupportedOps /\ answer = AnswerTo(B, C)
                       /\ answer.code # "OP_NOT_SUPPORTED"
  /\ error = "OpNotSupported" => C.op \notin SupportedOps \/ AnswerTo(B, C).code = "OP_NOT_SUPPORTED"
  /\ error \notin {"none", "OpNotSupported"} => faults' # 0

\* A call of a fixture is concluded.
LEMMA CallConcludes ==
  ASSUME suite \in Suites, options \in RunOptions, ResultsFit, InFixture,
         NEW st \in Before(at), NEW n \in Nat, NEW B, GotTo(suite[at], st, n, B),
         NEW C, C = Head(plan), NEW error, NEW answer, Conclude(error, answer), ErrorFits(error, B, C, answer),
         UNCHANGED <<suite, options, announced>>, faults' = 0 => faults = 0
  PROVE  /\ ResultsFit' /\ exit' = exit /\ StageFits(AfterCall(B, C))'
         /\ plan' = << >> => StageFits(B)'
<1>1. PICK f, X, m, U : /\ f = suite[at] /\ X = AfterCall(B, C) /\ m = Len(Calls(f))
                        /\ U = substituted.unminted \cup
                               (IF Mintable(C, substituted.nonces) THEN {} ELSE {C.op})
  OBVIOUS
<1>2. /\ WellFormed(f) /\ announced /\ ~FlagsRefused /\ plan # << >> /\ at \in 1..Len(suite) /\ ShouldSkip(f) = "no"
      /\ ConformsOn(f, st) <=> Conforms(f)
  BY <1>1, SuiteShape DEF InFixture
<1>3. /\ Len(plan) \in Nat /\ Len(plan) > 0 /\ n + 1 \in 1..m /\ m \in Nat /\ Len(plan) = m - n
      /\ C = Calls(f)[n + 1] /\ C.kind \in {"ignored", "precondition", "step"}
      /\ C.kind = "ignored" => C.op \in SupportedOps
  BY <1>1, <1>2, CallAt
<1>4. /\ B = Serving(f, st)[n] /\ substituted.nonces = B.nonces
      /\ substituted.unminted = {} <=>
           (\A i \in 1..n : Mintable(Calls(f)[i], Serving(f, st)[i - 1].nonces))
      /\ \A i \in 1..n : Wanted(Calls(f)[i], AnswerTo(Serving(f, st)[i - 1], Calls(f)[i]))
  BY <1>1 DEF GotTo
<1>5. substituted' = [nonces |-> NoncesAfter(substituted.nonces, C, answer), unminted |-> U]
  BY <1>1 DEF Conclude
<1>6. (n + 1) - 1 = n /\ 1..(n + 1) = 1..n \cup {n + 1}
  OBVIOUS
<1>7. options' = options /\ ShouldSkip(f)' = "no" /\ (Conforms(f)' <=> Conforms(f)) /\ FlagsRefused' = FlagsRefused
  BY <1>2 DEF ShouldSkip, Negated, Conforms, FlagsRefused
<1>8. ~Wanted(C, AnswerTo(B, C)) => ~Conforms(f)
  BY <1>1, <1>2, <1>3, <1>4, <1>6 DEF ConformsOn
<1>9. ASSUME NEW outcome \in {"pass", "fail", "skip"}, EndFixture(outcome),
             outcome = "pass" => Conforms(f), outcome # "pass" /\ faults' = 0 => ~Conforms(f)
      PROVE  /\ ResultsFit' /\ exit' = exit /\ StageFits(X)' /\ StageFits(B)'
  <2>1. ResultFits(f, outcome)'
    BY <1>7, <1>9 DEF ResultFits
  <2>2. /\ ResultsFit' /\ exit' = exit /\ Between(B)' /\ Between(X)'
    BY <1>1, <1>9, <2>1, FixtureEnds
  <2> QED
    BY <2>2 DEF StageFits
<1>10. ASSUME Wanted(C, AnswerTo(B, C)), C.kind = "step" => answer = AnswerTo(B, C), GoOnOrPass(U)
       PROVE  /\ ResultsFit' /\ exit' = exit /\ StageFits(X)'
              /\ plan' = << >> => StageFits(B)'
  <2>1. CASE Len(plan) > 1
    <3>1. plan' = Tail(plan) /\ UNCHANGED <<results, at, exit>>
      BY <1>10, <2>1 DEF GoOnOrPass, GoOn
    <3>2. GotTo(f, st, n + 1, X)'
      BY <1>1, <1>2, <1>5, <1>10, <3>1, GoesOn
    <3>3. plan' # << >>
      <4>1. IsSequence(plan)
        BY DEF GotTo, Rest
      <4>2. Len(Tail(plan)) = Len(plan) - 1
        BY <1>2, <4>1, TailMeans
      <4>3. Len(Tail(plan)) # 0
        BY <1>3, <2>1, <4>2
      <4>4. Len(<< >>) = 0
        OBVIOUS
      <4> QED
        BY <3>1, <4>3, <4>4, Zenon
    <3>4. f = suite'[at'] /\ InFixture'
      BY <1>1, <1>2, <1>7, <3>1, <3>3 DEF InFixture
    <3>5. st \in Before(at)' /\ n + 1 \in Nat
      BY <3>1 DEF Before
    <3>6. Executing(X)'
      BY <3>2, <3>4, <3>5 DEF Executing
    <3>7. ResultsFit'
      BY <3>1, ResultsStay
    <3> QED
      BY <3>1, <3>3, <3>6, <3>7 DEF StageFits
  <2>2. CASE Len(plan) <= 1
    <3>1. n + 1 = m /\ ~(Len(plan) > 1)
      BY <1>3, <2>2
    <3>2. EndFixture(IF U = {} THEN "pass" ELSE "fail")
      BY <1>10, <3>1 DEF GoOnOrPass
    <3>3. U = {} <=> substituted.unminted = {} /\ Mintable(C, B.nonces)
      BY <1>1, <1>4
    <3>4. U = {} <=> (\A i \in 1..m : Mintable(Calls(f)[i], Serving(f, st)[i - 1].nonces))
      BY <1>3, <1>4, <1>6, <3>1, <3>3
    <3>5. \A i \in 1..m : Wanted(Calls(f)[i], AnswerTo(Serving(f, st)[i - 1], Calls(f)[i]))
      BY <1>3, <1>4, <1>6, <1>10, <3>1
    <3>6. ConformsOn(f, st) <=> U = {}
      BY <1>1, <3>4, <3>5 DEF ConformsOn
    <3>7. PICK outcome : outcome = IF U = {} THEN "pass" ELSE "fail"
      OBVIOUS
    <3>8. /\ outcome \in {"pass", "fail", "skip"} /\ EndFixture(outcome)
          /\ outcome = "pass" <=> Conforms(f)
      BY <1>2, <3>2, <3>6, <3>7
    <3> QED
      BY <1>9, <3>8
  <2> QED
    BY <1>3, <2>1, <2>2
<1>11. CASE C.kind = "ignored"
  <2>1. GoOnOrPass(U)
    BY <1>1, <1>11 DEF Conclude
  <2>2. Wanted(C, AnswerTo(B, C))
    BY <1>11 DEF Wanted
  <2> QED
    BY <1>1, <1>10, <1>11, <2>1, <2>2
<1>12. ASSUME C.kind # "ignored", error # "none", EndFixture("skip") \/ EndFixture("fail")
       PROVE  /\ ResultsFit' /\ exit' = exit /\ StageFits(X)' /\ StageFits(B)'
  <2>1. faults' = 0 => ~Conforms(f)
    <3>1. error = "OpNotSupported" => ~Wanted(C, AnswerTo(B, C))
      BY <1>12 DEF ErrorFits, Wanted
    <3>2. error # "OpNotSupported" => faults' # 0
      BY <1>12 DEF ErrorFits
    <3> QED
      BY <1>8, <3>1, <3>2
  <2> QED
    BY <1>9, <1>12, <2>1
<1>13. CASE C.kind = "precondition"
  <2>1. IF error = "none" /\ answer.code = "ok" THEN GoOnOrPass(U) ELSE EndFixture("skip")
    BY <1>1, <1>13 DEF Conclude
  <2>2. CASE error = "none" /\ answer.code = "ok"
    <3>1. Wanted(C, AnswerTo(B, C))
      BY <1>13, <2>2 DEF ErrorFits, Wanted
    <3> QED
      BY <1>1, <1>10, <1>13, <2>1, <2>2, <3>1
  <2>3. CASE error = "none" /\ answer.code # "ok"
    <3>1. ~Wanted(C, AnswerTo(B, C))
      BY <1>13, <2>3 DEF ErrorFits, Wanted
    <3> QED
      BY <1>1, <1>8, <1>9, <2>1, <2>3, <3>1
  <2>4. CASE error # "none"
    BY <1>1, <1>12, <1>13, <2>1, <2>4
  <2> QED
    BY <2>2, <2>3, <2>4
<1>14. CASE C.kind = "step"
  <2>1. IF error = "OpNotSupported" THEN EndFixture("skip")
        ELSE IF error # "none" \/ ~Meets(answer, C) THEN EndFixture("fail")
        ELSE GoOnOrPass(U)
    BY <1>1, <1>14 DEF Conclude
  <2>2. CASE error = "none" /\ Meets(answer, C)
    <3>1. Wanted(C, AnswerTo(B, C)) /\ answer = AnswerTo(B, C)
      BY <1>14, <2>2 DEF ErrorFits, Wanted
    <3> QED
      BY <1>1, <1>10, <2>1, <2>2, <3>1
  <2>3. CASE error = "none" /\ ~Meets(answer, C)
    <3>1. ~Wanted(C, AnswerTo(B, C))
      BY <1>14, <2>3 DEF ErrorFits, Wanted
    <3> QED
      BY <1>1, <1>8, <1>9, <2>1, <2>3, <3>1
  <2>4. CASE error # "none"
    BY <1>1, <1>12, <1>14, <2>1, <2>4
  <2> QED
    BY <2>2, <2>3, <2>4
<1> QED
  BY <1>3, <1>11, <1>13, <1>14

\* A call that is none of a fixture's: the first of all, and the features.
LEMMA PreludeConcludes ==
  ASSUME suite \in Suites, options \in RunOptions, ResultsFit, ~FlagsRefused, plan # << >>,
         NEW B, Starting(B) \/ Featuring(B),
         NEW C, C = Head(plan), NEW error, NEW answer, Conclude(error, answer),
         UNCHANGED <<suite, options, announced>>, faults' = 0 => faults = 0
  PROVE  /\ ResultsFit'
         /\ \/ exit' = 2
            \/ /\ exit' = exit /\ StageFits(AfterCall(B, C))'
               /\ plan' = << >> => StageFits(B)'
<1>1. PICK X : X = AfterCall(B, C)
  OBVIOUS
<1>2. FlagsRefused' = FlagsRefused
  BY DEF FlagsRefused
<1>3. CASE Starting(B)
  <2>1. /\ plan = <<InitCall>> /\ ~announced /\ at = 1 /\ B = Spawned /\ C = InitCall
    BY <1>3 DEF Starting
  <2>2. C.kind = "init" /\ C.op = "init" /\ ~UsesNonce(C)
    BY <2>1 DEF InitCall, Call, UsesNonce
  <2>3. Tail(plan) = << >>
    BY <2>1
  <2>4. /\ plan' = << >> /\ UNCHANGED <<results, at>> /\ (exit' = 2 \/ exit' = exit)
    BY <2>2, <2>3 DEF Conclude, GoOn
  <2>5. X.st = B.st
    <3>1. Handle(B.st, "init", Substitute(C, B.nonces)) = <<B.st, Success>>
      BY DEF Handle
    <3> QED
      BY <1>1, <2>2, <3>1 DEF AfterCall
  <2>6. Between(X)' /\ Between(B)'
    BY <1>2, <2>1, <2>4, <2>5 DEF Between
  <2>7. ResultsFit'
    BY <2>4, ResultsStay
  <2> QED
    BY <1>1, <2>4, <2>6, <2>7 DEF StageFits
<1>4. CASE Featuring(B)
  <2>1. PICK f : f = suite[at]
    OBVIOUS
  <2>2. /\ InFixture /\ IsSequence(plan) /\ C = FeaturesCall
        /\ Rest(Tail(plan), Calls(f), 0) /\ B = Spawned /\ substituted = NothingIssued
        /\ announced /\ at \in 1..Len(suite) /\ ShouldSkip(f) = "no" /\ WellFormed(f)
    BY <1>4, <2>1, SuiteShape DEF Featuring, InFixture
  <2>3. /\ C.kind = "ignored" /\ C.op = "set_features" /\ C.arg = options.features /\ C.minted
        /\ ~UsesNonce(C)
    BY <2>2 DEF FeaturesCall, Call, UsesNonce
  <2>4. Len(plan) > 1
    <3>1. Len(Tail(plan)) = Len(plan) - 1 /\ Len(plan) \in Nat
      BY <2>2, TailMeans
    <3>2. Len(Tail(plan)) = Len(Calls(f)) /\ Len(Calls(f)) > 0 /\ Len(Calls(f)) \in Nat
      BY <2>2, CallsShape DEF Rest
    <3> QED
      BY <3>1, <3>2
  <2>5. /\ plan' = Tail(plan) /\ UNCHANGED <<results, at, exit>>
    BY <2>3, <2>4 DEF Conclude, GoOnOrPass, GoOn
  <2>6. substituted' = NothingIssued
    <3>1. substituted.nonces = << >> /\ substituted.unminted = {}
      BY <2>2 DEF NothingIssued
    <3>2. Mintable(C, << >>)
      BY <2>3 DEF Mintable
    <3>3. NoncesAfter(<< >>, C, answer) = << >>
      BY <2>3 DEF NoncesAfter
    <3>4. substituted' = [nonces |-> NoncesAfter(substituted.nonces, C, answer),
                          unminted |-> substituted.unminted \cup
                                       (IF Mintable(C, substituted.nonces) THEN {} ELSE {C.op})]
      BY DEF Conclude
    <3>5. substituted' = [nonces |-> << >>, unminted |-> {}]
      BY <3>1, <3>2, <3>3, <3>4
    <3> QED
      BY <3>5 DEF NothingIssued
  <2>7. PICK st : st = AdapterState(options.features, "wall")
    OBVIOUS
  <2>8. X = Fresh(st)
    <3>1. B.st = AdapterState({}, "wall") /\ B.nonces = << >>
      BY <2>2 DEF Spawned, Fresh
    <3>2. Substitute(C, B.nonces) = options.features
      BY <2>3 DEF Substitute
    <3>3. [AdapterState({}, "wall") EXCEPT !.features = options.features] = st
      <4>1. PICK e, F, S, w, o, k, z :
              /\ e = [s \in {} |-> "none"] /\ F = options.features /\ S = AdapterState({}, "wall")
              /\ w = "wall" /\ o = {} /\ k = "None" /\ z = 0
        OBVIOUS
      <4>2. S = [features |-> o, now |-> w, revoked_jtis |-> o, seen_message_ids |-> o,
               pop_challenges |-> o, pop_enforcement |-> k, admission |-> o, renewal_nonces |-> o,
               sessions |-> e, minted |-> z]
        BY <4>1, Zenon DEF AdapterState
      <4>3. st = [features |-> F, now |-> w, revoked_jtis |-> o, seen_message_ids |-> o,
               pop_challenges |-> o, pop_enforcement |-> k, admission |-> o, renewal_nonces |-> o,
               sessions |-> e, minted |-> z]
        BY <2>7, <4>1, Zenon DEF AdapterState
      <4>4. [[features |-> o, now |-> w, revoked_jtis |-> o, seen_message_ids |-> o,
               pop_challenges |-> o, pop_enforcement |-> k, admission |-> o, renewal_nonces |-> o,
               sessions |-> e, minted |-> z] EXCEPT !.features = F] =
            [features |-> F, now |-> w, revoked_jtis |-> o, seen_message_ids |-> o,
               pop_challenges |-> o, pop_enforcement |-> k, admission |-> o, renewal_nonces |-> o,
               sessions |-> e, minted |-> z]
        OBVIOUS
      <4>5. [S EXCEPT !.features = F] = st
        BY <4>2, <4>3, <4>4, Zenon
      <4> QED
        BY <4>1, <4>5, Zenon
    <3>4. Handle(B.st, "set_features", options.features) = <<st, Success>>
      BY <3>1, <3>3 DEF Handle, SetFeatures
    <3>5. NoncesAfter(B.nonces, C, AnswerTo(B, C)) = << >>
      BY <2>3, <3>1 DEF NoncesAfter
    <3>6. X = [st |-> Handle(B.st, C.op, Substitute(C, B.nonces))[1],
               nonces |-> NoncesAfter(B.nonces, C, AnswerTo(B, C))]
      BY <1>1 DEF AfterCall
    <3> QED
      BY <2>3, <3>2, <3>4, <3>5, <3>6 DEF Fresh
  <2>9. Serving(f, st)[0] = X
    BY <2>2, <2>8, ServingMeans
  <2>10. GotTo(f, st, 0, X)'
    <3>1. substituted'.nonces = X.nonces /\ substituted'.unminted = {}
      BY <2>6, <2>8 DEF NothingIssued, Fresh
    <3>2. 1..0 = {}
      OBVIOUS
    <3> QED
      BY <2>2, <2>5, <2>9, <3>1, <3>2 DEF GotTo
  <2>11. st \in Before(at)'
    <3>1. PICK m : m = Len(suite) /\ m \in Nat
      BY SuiteShape
    <3>2. at \in 1..(m + 1)
      BY <2>2, <3>1
    <3>3. st \in StatesBefore(suite, options.features)[at]
      BY <2>7, <3>1, <3>2, SuiteShape, StatesGrow
    <3> QED
      BY <2>5, <3>3 DEF Before
  <2>12. plan' # << >>
    <3>1. Len(Tail(plan)) # 0
      <4>1. Len(Tail(plan)) = Len(plan) - 1 /\ Len(plan) \in Nat
        BY <2>2, TailMeans
      <4> QED
        BY <2>4, <4>1
    <3>2. Len(<< >>) = 0
      OBVIOUS
    <3> QED
      BY <2>5, <3>1, <3>2, Zenon
  <2>13. InFixture' /\ f = suite'[at']
    BY <1>2, <2>1, <2>2, <2>5, <2>12 DEF InFixture, ShouldSkip, Negated
  <2>14. Executing(X)'
    <3>1. 0 \in Nat
      OBVIOUS
    <3> QED
      BY <2>10, <2>11, <2>13, <3>1 DEF Executing
  <2>15. ResultsFit'
    BY <2>5, ResultsStay
  <2> QED
    BY <1>1, <2>5, <2>12, <2>14, <2>15 DEF StageFits
<1> QED
  BY <1>3, <1>4

\* Whatever call it is.
LEMMA ConcludeKeeps ==
  ASSUME suite \in Suites, options \in RunOptions, ResultsFit, ~FlagsRefused, plan # << >>,
         NEW B, StageFits(B), NEW C, C = Head(plan),
         NEW error, NEW answer, Conclude(error, answer), ErrorFits(error, B, C, answer),
         UNCHANGED <<suite, options, announced>>, faults' = 0 => faults = 0
  PROVE  /\ ResultsFit'
         /\ \/ exit' = 2
            \/ /\ exit' = exit /\ StageFits(AfterCall(B, C))'
               /\ plan' = << >> => StageFits(B)'
<1>1. CASE Starting(B) \/ Featuring(B)
  BY <1>1, PreludeConcludes
<1>2. CASE Executing(B)
  <2>1. PICK st \in Before(at), n \in Nat : GotTo(suite[at], st, n, B)
    BY <1>2 DEF Executing
  <2>2. InFixture
    BY <1>2 DEF Executing
  <2> QED
    BY <2>1, <2>2, CallConcludes
<1>3. ~Between(B)
  BY DEF Between
<1> QED
  BY <1>1, <1>2, <1>3 DEF StageFits

(***************************************************************************)
(* The steps of a run.                                                     *)
(***************************************************************************)

\* Where a run stands, when neither the runner nor the fixture moves.
LEMMA StageStays ==
  ASSUME NEW B, StageFits(B), UNCHANGED <<suite, options, announced, at, plan, substituted>>,
         FlagsRefused => requestId' = requestId
  PROVE  StageFits(B)'
<1>1. (FlagsRefused' <=> FlagsRefused) /\ Before(at)' = Before(at) /\ InFixture' = InFixture
  BY DEF FlagsRefused, Before, InFixture, ShouldSkip, Negated
<1>2. FeaturesCall' = FeaturesCall
  BY DEF FeaturesCall
<1>3. CASE Starting(B)
  BY <1>1, <1>3 DEF Starting, StageFits
<1>4. CASE Between(B)
  BY <1>1, <1>4 DEF Between, StageFits
<1>5. CASE Featuring(B)
  BY <1>1, <1>2, <1>5 DEF Featuring, StageFits
<1>6. CASE Executing(B)
  <2>1. PICK st \in Before(at), n \in Nat : GotTo(suite[at], st, n, B)
    BY <1>6 DEF Executing
  <2>2. GotTo(suite[at], st, n, B)'
    BY <2>1 DEF GotTo
  <2>3. Executing(B)'
    BY <1>1, <1>6, <2>1, <2>2 DEF Executing
  <2> QED
    BY <2>3 DEF StageFits
<1> QED
  BY <1>3, <1>4, <1>5, <1>6 DEF StageFits

\* A verdict stands, whatever the adapter does after it.
LEMMA VerdictStays ==
  ASSUME VerdictEarned, UNCHANGED <<suite, options, exit, claims>>, faults' = 0 => faults = 0
  PROVE  VerdictEarned'
<1>1. /\ Fixtures' = Fixtures
      /\ \A f : (Conforms(f)' <=> Conforms(f)) /\ (Negated(f)' <=> Negated(f)) /\ ShouldSkip(f)' = ShouldSkip(f)
  BY DEF Fixtures, Conforms, Negated, ShouldSkip
<1> QED
  BY <1>1 DEF VerdictEarned

\* Exit status 2 says nothing of the fixtures.
LEMMA NoVerdict ==
  ASSUME exit' = 2, claims' = {}
  PROVE  VerdictEarned'
  BY DEF VerdictEarned

\* A sequence holds nothing once its only member is gone.
LEMMA LastGone ==
  ASSUME NEW s, IsSequence(s), s # << >>, Len(s) = 1
  PROVE  Tail(s) = << >>
<1>1. PICK X, t : X = {s[k] : k \in DOMAIN s} /\ t = Tail(s)
  OBVIOUS
<1>2. s \in Seq(X)
  BY <1>1 DEF IsSequence
<1>3. t \in Seq(X) /\ Len(t) = 0
  BY <1>1, <1>2
<1>4. t = << >>
  BY <1>3
<1> QED
  BY <1>1, <1>4

\* No operation awaits an answer while the flags are refused.
LEMMA NotRefused ==
  ASSUME NEW B, StageFits(B), PipeTypes, waiting # 0
  PROVE  ~FlagsRefused
<1>1. requestId # 0
  BY DEF PipeTypes
<1> QED
  BY <1>1 DEF StageFits, Starting, Between, Featuring, Executing, InFixture

\* Between fixtures nothing is left to call.
LEMMA NothingPlanned ==
  ASSUME NEW B, StageFits(B), plan = << >>
  PROVE  Between(B)
<1>1. ~Starting(B)
  BY DEF Starting
<1> QED
  BY <1>1 DEF StageFits, Featuring, Executing, InFixture

\* A call is concluded, and nothing is awaited any more.
LEMMA AnswerConcludes ==
  ASSUME CfInv, exit = Running, NEW B, StageFits(B), PipeFits(B), plan # << >>, ~FlagsRefused,
         NEW C, C = Head(plan), NEW error, NEW answer, Conclude(error, answer), ErrorFits(error, B, C, answer),
         UNCHANGED <<suite, options, announced, adapter, alive, claims, stdin>>,
         waiting # 0 \/ ~alive, waiting' = 0,
         IsSequence(channel'), requestId' \in Nat, requestId' >= requestId,
         \A i \in 1..Len(channel') : channel'[i].id \in 1..requestId',
         faults' \in Nat, faults' = 0 => faults = 0 /\ stdin = << >> /\ channel' = << >> /\ alive
  PROVE  CfInv'
<1>1. suite \in Suites /\ options \in RunOptions /\ ResultsFit /\ claims = {} /\ PipeTypes
  BY DEF CfInv
<1>2. PICK X : X = AfterCall(B, C)
  OBVIOUS
<1>3. /\ ResultsFit'
      /\ exit' = 2 \/ (exit' = exit /\ StageFits(X)')
  BY <1>1, <1>2, ConcludeKeeps
<1>4. CASE exit' = 2
  <2>1. VerdictEarned'
    BY <1>1, <1>4, NoVerdict
  <2> QED
    BY <1>1, <1>3, <1>4, <2>1 DEF CfInv, Running
<1>5. CASE exit' = exit /\ StageFits(X)'
  <2>1. PipeTypes'
    <3>1. ASSUME NEW i \in 1..Len(stdin) PROVE stdin[i].id \in 1..requestId'
      BY <1>1, <3>1 DEF PipeTypes
    <3> QED
      BY <1>1, <3>1 DEF PipeTypes
  <2>2. faults' = 0 => Quiet'
    BY DEF Quiet
  <2>3. ASSUME alive' 
        PROVE  \E D : /\ Draining(D, adapter', stdin') /\ D[Len(stdin') + 1] = X.st
    <3>1. alive /\ waiting # 0
      BY <2>3
    <3>2. PICK D : Draining(D, adapter, stdin) /\ D[Len(stdin) + 1] = X.st
      BY <1>2, <3>1 DEF PipeFits
    <3>3. stdin' = stdin /\ adapter' = adapter
      OBVIOUS
    <3> QED
      BY <3>2, <3>3
  <2>4. PipeFits(X)'
    BY <2>3 DEF PipeFits, Awaited
  <2> QED
    BY <1>1, <1>3, <1>5, <2>1, <2>2, <2>4 DEF CfInv
<1> QED
  BY <1>3, <1>4, <1>5

\* The adapter serves a request: where it is and what is under way are one call apart.
LEMMA AdapterServesKeeps ==
  ASSUME CfInv, AdapterServes
  PROVE  CfInv'
<1>1. /\ suite \in Suites /\ options \in RunOptions /\ faults \in Nat /\ ResultsFit
      /\ UNCHANGED <<suite, options, announced, at, plan, substituted, results, requestId, waiting,
                     alive, exit, claims, faults>>
      /\ alive /\ stdin # << >>
  BY DEF CfInv, AdapterServes, cfRun
<1>2. ResultsFit'
  BY <1>1, ResultsStay
<1>3. CASE exit # Running
  <2>1. VerdictEarned'
    BY <1>1, <1>3, VerdictStays DEF CfInv
  <2> QED
    BY <1>1, <1>2, <1>3, <2>1 DEF CfInv
<1>4. CASE exit = Running
  <2>1. claims = {} /\ PipeTypes /\ (faults = 0 => Quiet)
    BY <1>4 DEF CfInv
  <2>2. PICK B : StageFits(B) /\ PipeFits(B)
    BY <1>4 DEF CfInv
  <2>3. PICK r, line, n : /\ r = Head(stdin) /\ n = Len(stdin)
                          /\ line = [id |-> r.id, answer |-> Handle(adapter, r.op, r.arg)[2]]
    OBVIOUS
  <2>4. /\ adapter' = Handle(adapter, r.op, r.arg)[1]
        /\ channel' = Append(channel, line)
        /\ stdin' = Tail(stdin)
    BY <2>3 DEF AdapterServes
  <2>5. /\ IsSequence(stdin') /\ n \in Nat /\ n > 0 /\ Len(stdin') = n - 1 /\ r = stdin[1]
        /\ \A k \in 1..(n - 1) : stdin'[k] = stdin[k + 1]
    BY <1>1, <2>1, <2>3, <2>4, TailMeans DEF PipeTypes
  <2>6. /\ IsSequence(channel') /\ Len(channel) \in Nat /\ Len(channel') = Len(channel) + 1
        /\ channel'[Len(channel) + 1] = line /\ \A k \in 1..Len(channel) : channel'[k] = channel[k]
    BY <2>1, <2>4, AppendMeans DEF PipeTypes
  <2>7. 1 \in 1..n /\ line.id = r.id /\ line.id \in 1..requestId
    BY <2>1, <2>3, <2>5 DEF PipeTypes
  <2>8. PICK D : /\ Draining(D, adapter, stdin)
                 /\ D[n + 1] = IF waiting # 0 THEN AfterCall(B, Head(plan)).st ELSE B.st
                 /\ \A i \in 1..n : Awaited(stdin[i]) =>
                      /\ i = n /\ D[i] = B.st
                      /\ stdin[i].op = Head(plan).op /\ stdin[i].arg = Substitute(Head(plan), B.nonces)
    BY <1>1, <2>2, <2>3 DEF PipeFits
  <2>9. PipeTypes'
    <3>1. ASSUME NEW i \in 1..Len(stdin') PROVE stdin'[i].id \in 1..requestId'
      <4>1. i \in 1..(n - 1) /\ i + 1 \in 1..n
        BY <2>5
      <4>2. stdin'[i] = stdin[i + 1]
        BY <2>5, <4>1
      <4> QED
        BY <1>1, <2>1, <2>3, <4>1, <4>2 DEF PipeTypes
    <3>2. ASSUME NEW i \in 1..Len(channel') PROVE channel'[i].id \in 1..requestId'
      <4>1. i = Len(channel) + 1 \/ i \in 1..Len(channel)
        BY <2>6
      <4> QED
        BY <1>1, <2>1, <2>6, <2>7, <4>1 DEF PipeTypes
    <3> QED
      BY <1>1, <2>1, <2>5, <2>6, <3>1, <3>2 DEF PipeTypes
  <2>10. ASSUME faults' = 0 PROVE Quiet'
    <3>1. Quiet
      BY <1>1, <2>1, <2>10
    <3>2. waiting # 0 /\ channel = << >> /\ n = 1 /\ r.id = waiting
      BY <1>1, <2>3, <2>5, <3>1 DEF Quiet
    <3>3. stdin' = << >>
      BY <1>1, <2>1, <2>3, <2>4, <3>2, LastGone DEF PipeTypes
    <3>4. Len(channel') = 1 /\ channel'[1].id = waiting
      <4>1. Len(<< >>) = 0
        OBVIOUS
      <4>2. Len(channel) = 0
        BY <3>2, <4>1, Zenon
      <4> QED
        BY <2>6, <2>7, <3>2, <4>2
    <3> QED
      BY <1>1, <3>2, <3>3, <3>4 DEF Quiet
  <2>11. StageFits(B)'
    BY <1>1, <2>2, StageStays
  <2>12. D[1] = adapter /\ D[2] = adapter'
    <3>1. D[1] = adapter /\ D[1 + 1] = Handle(D[1], stdin[1].op, stdin[1].arg)[1]
      BY <2>3, <2>7, <2>8 DEF Draining
    <3>2. 1 + 1 = 2
      OBVIOUS
    <3> QED
      BY <2>4, <2>5, <3>1, <3>2
  <2>13. PipeFits(B)'
    <3>1. ASSUME NEW i \in 1..Len(channel'), waiting' # 0, channel'[i].id = waiting'
          PROVE  channel'[i].answer = AnswerTo(B, Head(plan'))
      <4>1. Awaited(channel'[i])
        BY <1>1, <3>1 DEF Awaited
      <4>2. CASE i \in 1..Len(channel)
        <5>1. channel'[i] = channel[i]
          BY <2>6, <4>2
        <5>2. channel[i].answer = AnswerTo(B, Head(plan))
          BY <2>2, <4>1, <4>2, <5>1 DEF PipeFits
        <5> QED
          BY <1>1, <5>1, <5>2
      <4>3. CASE i = Len(channel) + 1
        <5>1. Awaited(stdin[1])
          BY <2>5, <2>6, <2>7, <4>1, <4>3 DEF Awaited
        <5>2. D[1] = B.st /\ stdin[1].op = Head(plan).op /\ stdin[1].arg = Substitute(Head(plan), B.nonces)
          BY <2>7, <2>8, <5>1
        <5>3. line.answer = AnswerTo(B, Head(plan))
          BY <2>3, <2>5, <2>12, <5>2 DEF AnswerTo
        <5> QED
          BY <1>1, <2>6, <4>3, <5>3
      <4> QED
        BY <2>6, <4>2, <4>3
    <3>2. PICK E : E = [i \in 1..n |-> D[i + 1]]
      OBVIOUS
    <3>3. Draining(E, adapter', stdin')
      <4>1. E[1] = adapter'
        BY <2>7, <2>12, <3>2
      <4>2. ASSUME NEW i \in 1..(n - 1) 
            PROVE  E[i + 1] = Handle(E[i], stdin'[i].op, stdin'[i].arg)[1]
        <5>1. i + 1 \in 1..n /\ i \in 1..n
          BY <2>5
        <5>2. D[i + 1 + 1] = Handle(D[i + 1], stdin[i + 1].op, stdin[i + 1].arg)[1]
          BY <2>3, <2>8, <5>1 DEF Draining
        <5> QED
          BY <2>5, <3>2, <5>1, <5>2
      <4> QED
        BY <2>5, <4>1, <4>2 DEF Draining
    <3>4. E[Len(stdin') + 1] = IF waiting' # 0 THEN AfterCall(B, Head(plan')).st ELSE B.st
      <4>1. Len(stdin') + 1 = n /\ n \in 1..n
        BY <2>5
      <4>2. E[n] = D[n + 1]
        BY <3>2, <4>1
      <4> QED
        BY <1>1, <2>8, <4>1, <4>2
    <3>5. ASSUME NEW i \in 1..Len(stdin'), waiting' # 0, stdin'[i].id = waiting'
          PROVE  /\ i = Len(stdin') /\ E[i] = B.st
                 /\ stdin'[i].op = Head(plan').op /\ stdin'[i].arg = Substitute(Head(plan'), B.nonces)
      <4>1. i \in 1..n /\ i + 1 \in 1..n /\ stdin'[i] = stdin[i + 1]
        BY <2>5
      <4>2. Awaited(stdin[i + 1])
        BY <1>1, <3>5, <4>1 DEF Awaited
      <4>3. /\ i + 1 = n /\ D[i + 1] = B.st
            /\ stdin[i + 1].op = Head(plan).op /\ stdin[i + 1].arg = Substitute(Head(plan), B.nonces)
        BY <2>8, <4>1, <4>2
      <4>4. E[i] = D[i + 1]
        BY <3>2, <4>1
      <4> QED
        BY <1>1, <2>5, <4>1, <4>3, <4>4
    <3> QED
      BY <3>1, <3>3, <3>4, <3>5 DEF PipeFits, Awaited
  <2> QED
    BY <1>1, <1>2, <1>4, <2>1, <2>9, <2>10, <2>11, <2>13 DEF CfInv
<1> QED
  BY <1>3, <1>4

\* The adapter dies: nothing is under way, and something went wrong.
LEMMA AdapterDiesKeeps ==
  ASSUME CfInv, AdapterDies
  PROVE  CfInv'
<1>1. /\ suite \in Suites /\ options \in RunOptions /\ faults \in Nat /\ ResultsFit
      /\ UNCHANGED <<suite, options, announced, at, plan, substituted, results, requestId, waiting,
                     channel, adapter, exit, claims>>
      /\ ~alive' /\ faults' = faults + 1 /\ stdin' = << >>
  BY DEF CfInv, AdapterDies, cfRun
<1>2. faults' \in Nat /\ faults' # 0
  BY <1>1
<1>3. ResultsFit'
  BY <1>1, <1>2, ResultsStay
<1>4. CASE exit # Running
  <2>1. VerdictEarned'
    BY <1>1, <1>2, <1>4, VerdictStays DEF CfInv
  <2> QED
    BY <1>1, <1>2, <1>3, <1>4, <2>1 DEF CfInv
<1>5. CASE exit = Running
  <2>1. PICK B : StageFits(B) /\ PipeFits(B)
    BY <1>5 DEF CfInv
  <2>2. StageFits(B)'
    BY <1>1, <2>1, StageStays
  <2>3. PipeFits(B)'
    BY <1>1, <2>1 DEF PipeFits, Awaited
  <2>4. PipeTypes'
    <3>1. PipeTypes
      BY <1>5 DEF CfInv
    <3>2. IsSequence(stdin') /\ Len(stdin') = 0
      <4>1. stdin' \in Seq({}) /\ Len(stdin') = 0
        BY <1>1
      <4> QED
        BY <4>1, SequenceOf
    <3> QED
      BY <1>1, <3>1, <3>2 DEF PipeTypes
  <2> QED
    BY <1>1, <1>2, <1>3, <1>5, <2>2, <2>3, <2>4 DEF CfInv
<1> QED
  BY <1>4, <1>5

\* FlagsRefused flags end the run with nothing claimed.
LEMMA RefuseFlagsKeeps ==
  ASSUME CfInv, RefuseFlags
  PROVE  CfInv'
<1>1. /\ suite \in Suites /\ options \in RunOptions /\ faults \in Nat /\ ResultsFit /\ claims = {}
      /\ UNCHANGED <<suite, options, at, results, claims, faults>> /\ exit' = 2
  BY DEF CfInv, RefuseFlags, cfRun
<1>2. ResultsFit' /\ VerdictEarned'
  BY <1>1, ResultsStay, NoVerdict
<1> QED
  BY <1>1, <1>2 DEF CfInv, Running

\* Nothing is put before the calls of a fixture, or the features.
LEMMA PlanMeans ==
  ASSUME NEW f, WellFormed(f)
  PROVE  /\ announced => Rest(Plan(f), Calls(f), 0)
         /\ ~announced => /\ IsSequence(Plan(f)) /\ Head(Plan(f)) = FeaturesCall
                          /\ Rest(Tail(Plan(f)), Calls(f), 0)
         /\ Plan(f) # << >>
<1>1. PICK c, p, n : c = Calls(f) /\ p = Plan(f) /\ n = Len(c)
  OBVIOUS
<1>2. IsSequence(c) /\ n \in Nat /\ n > 0
  BY <1>1, CallsShape
<1>3. PICK X, Y : X = {c[k] : k \in DOMAIN c} /\ Y = X \cup {FeaturesCall}
  OBVIOUS
<1>4. c \in Seq(X) /\ c \in Seq(Y)
  <2>1. c \in Seq(X)
    BY <1>2, <1>3 DEF IsSequence
  <2> QED
    BY <1>3, <2>1
<1>5. CASE announced
  <2>1. p = << >> \o c
    BY <1>1, <1>5 DEF Plan
  <2>2. p \in Seq(X) /\ Len(p) = n /\ \A i \in 1..n : p[i] = c[i]
    BY <1>1, <1>4, <2>1
  <2>3. p # << >>
    <3>1. Len(<< >>) = 0
      OBVIOUS
    <3>2. Len(p) # 0
      BY <1>2, <2>2
    <3> QED
      BY <3>1, <3>2
  <2>4. \A i \in 1..n : 0 + i = i
    BY <1>2
  <2>5. Rest(p, c, 0)
    <3>1. IsSequence(p)
      BY <2>2, SequenceOf
    <3>2. Len(p) = Len(c) - 0
      BY <1>1, <1>2, <2>2
    <3> QED
      BY <2>2, <2>4, <3>1, <3>2 DEF Rest
  <2> QED
    BY <1>1, <1>5, <2>3, <2>5
<1>6. CASE ~announced
  <2>1. PICK x, h : x = FeaturesCall /\ h = <<x>>
    OBVIOUS
  <2>2. p = h \o c
    BY <1>1, <1>6, <2>1 DEF Plan, FeaturesCall
  <2>3. h \in Seq(Y) /\ Len(h) = 1 /\ h[1] = x
    BY <1>3, <2>1
  <2>4. /\ p \in Seq(Y) /\ Len(p) = n + 1 /\ p[1] = x
        /\ \A i \in 1..n : p[1 + i] = c[i]
    <3>1. c \in Seq(Y) /\ h \in Seq(Y)
      BY <1>4, <2>3
    <3>2. /\ h \o c \in Seq(Y) /\ Len(h \o c) = Len(h) + Len(c)
          /\ \A i \in 1..(Len(h) + Len(c)) : (h \o c)[i] = IF i <= Len(h) THEN h[i] ELSE c[i - Len(h)]
      BY <3>1
    <3>3. /\ p \in Seq(Y) /\ Len(p) = 1 + n
          /\ \A i \in 1..(1 + n) : p[i] = IF i <= 1 THEN h[i] ELSE c[i - 1]
      BY <1>1, <2>2, <2>3, <3>2
    <3>4. 1 \in 1..(1 + n) /\ \A i \in 1..n : 1 + i \in 1..(1 + n) /\ ~(1 + i <= 1) /\ (1 + i) - 1 = i
      BY <1>2
    <3>5. 1 + n = n + 1
      BY <1>2
    <3> QED
      BY <2>3, <3>3, <3>4, <3>5
  <2>5. p # << >>
    <3>1. Len(<< >>) = 0
      OBVIOUS
    <3>2. Len(p) # 0
      BY <1>2, <2>4
    <3> QED
      BY <3>1, <3>2
  <2>6. IsSequence(p)
    BY <2>4, SequenceOf
  <2>7. /\ IsSequence(Tail(p)) /\ Len(Tail(p)) = Len(p) - 1
        /\ Head(p) = p[1] /\ \A k \in 1..(Len(p) - 1) : Tail(p)[k] = p[k + 1]
    BY <2>5, <2>6, TailMeans
  <2>8. Rest(Tail(p), c, 0)
    <3>1. Len(Tail(p)) = Len(c) - 0 /\ Len(Tail(p)) = n /\ Len(p) - 1 = n
      BY <1>1, <1>2, <2>4, <2>7
    <3>2. \A i \in 1..n : 0 + i = i /\ i + 1 = 1 + i
      BY <1>2
    <3>3. \A i \in 1..n : Tail(p)[i] = c[0 + i]
      BY <2>4, <2>7, <3>1, <3>2
    <3> QED
      BY <2>7, <3>1, <3>3 DEF Rest
  <2> QED
    BY <1>1, <1>6, <2>1, <2>4, <2>5, <2>6, <2>7, <2>8
<1> QED
  BY <1>5, <1>6

\* The next fixture starts, from what the ones before it left behind, or gets the
\* result of one that is not run.
LEMMA StartFixtureKeeps ==
  ASSUME CfInv, StartFixture
  PROVE  CfInv'
<1>1. /\ suite \in Suites /\ options \in RunOptions /\ faults \in Nat /\ ResultsFit /\ claims = {}
      /\ exit = Running /\ plan = << >> /\ at <= Len(suite) /\ PipeTypes /\ (faults = 0 => Quiet)
      /\ UNCHANGED <<suite, options, waiting, stdin, channel, adapter, alive, requestId, exit, claims, faults>>
  BY DEF CfInv, StartFixture, cfRun, cfProcess
<1>2. PICK B : StageFits(B) /\ PipeFits(B)
  BY <1>1 DEF CfInv
<1>3. Between(B)
  BY <1>1, <1>2, NothingPlanned
<1>4. PICK f, m : f = suite[at] /\ m = Len(suite)
  OBVIOUS
<1>5. m \in Nat /\ at \in 1..m /\ WellFormed(f)
  <2>1. m \in Nat /\ IsSequence(suite)
    BY <1>1, <1>4, SuiteShape
  <2>2. IsSequence(results) /\ at \in Nat
    BY <1>1 DEF ResultsFit
  <2>3. Len(results) \in Nat
    BY <2>2, AppendMeans
  <2>4. at \in 1..m
    BY <1>1, <1>4, <2>1, <2>2, <2>3 DEF ResultsFit
  <2> QED
    BY <1>1, <1>4, <2>1, <2>4, SuiteShape
<1>6. ~FlagsRefused /\ B.st \in IF announced THEN Before(at) ELSE {Spawned.st}
  BY <1>3, <1>4, <1>5 DEF Between
<1>7. waiting = 0 /\ waiting' = 0
  BY <1>1 DEF PipeTypes
<1>8. PipeTypes' /\ (faults' = 0 => Quiet')
  BY <1>1, <1>7 DEF PipeTypes, Quiet
<1>9. ASSUME NEW E, E.st = B.st PROVE PipeFits(E)'
  BY <1>1, <1>2, <1>7, <1>9 DEF PipeFits, Awaited
<1>10. FlagsRefused' = FlagsRefused /\ ShouldSkip(f)' = ShouldSkip(f)
  BY <1>1 DEF FlagsRefused, ShouldSkip, Negated
<1>11. CASE ShouldSkip(f) = "no"
  <2>1. /\ plan' = Plan(f) /\ substituted' = NothingIssued /\ announced' = TRUE
        /\ UNCHANGED <<results, at>>
    BY <1>4, <1>11 DEF StartFixture
  <2>2. ResultsFit'
    BY <1>1, <2>1, ResultsStay
  <2>3. plan' # << >> /\ f = suite'[at']
    BY <1>1, <1>4, <1>5, <2>1, PlanMeans
  <2>4. InFixture'
    BY <1>1, <1>4, <1>5, <1>6, <1>10, <1>11, <2>1, <2>3 DEF InFixture
  <2>5. CASE announced
    <3>1. PICK st, E : st = B.st /\ E = Fresh(st)
      OBVIOUS
    <3>2. st \in Before(at)'
      BY <1>1, <1>6, <2>1, <2>5, <3>1 DEF Before
    <3>3. GotTo(f, st, 0, E)'
      <4>1. Rest(plan', Calls(f), 0) /\ Serving(f, st)[0] = E
        BY <1>5, <2>1, <2>5, <3>1, PlanMeans, ServingMeans
      <4>2. substituted'.nonces = E.nonces /\ substituted'.unminted = {}
        BY <2>1, <3>1 DEF NothingIssued, Fresh
      <4>3. 1..0 = {}
        OBVIOUS
      <4> QED
        BY <4>1, <4>2, <4>3 DEF GotTo
    <3>4. 0 \in Nat
      OBVIOUS
    <3>5. Executing(E)'
      BY <2>3, <2>4, <3>2, <3>3, <3>4 DEF Executing
    <3>6. PipeFits(E)'
      <4>1. E.st = B.st
        BY <3>1 DEF Fresh
      <4> QED
        BY <1>9, <4>1
    <3>7. StageFits(E)'
      BY <3>5 DEF StageFits
    <3> QED
      BY <1>1, <1>8, <2>2, <3>6, <3>7 DEF CfInv
  <2>6. CASE ~announced
    <3>1. PICK E : E = Spawned
      OBVIOUS
    <3>2. FeaturesCall' = FeaturesCall
      BY <1>1 DEF FeaturesCall
    <3>3. IsSequence(plan') /\ Head(plan') = FeaturesCall' /\ Rest(Tail(plan'), Calls(f), 0)
      BY <1>5, <2>1, <2>6, <3>2, PlanMeans
    <3>4. Featuring(E)'
      BY <2>1, <2>3, <2>4, <3>1, <3>3 DEF Featuring
    <3>5. PipeFits(E)'
      BY <1>6, <1>9, <2>6, <3>1
    <3>6. StageFits(E)'
      BY <3>4 DEF StageFits
    <3> QED
      BY <1>1, <1>8, <2>2, <3>5, <3>6 DEF CfInv
  <2> QED
    BY <2>5, <2>6
<1>12. CASE ShouldSkip(f) # "no"
  <2>1. PICK r : r = ShouldSkip(f)
    OBVIOUS
  <2>2. /\ results' = Append(results, r) /\ at' = at + 1
        /\ UNCHANGED <<plan, substituted, announced>>
    BY <1>4, <1>12, <2>1 DEF StartFixture
  <2>3. ResultFits(f, r)'
    <3>1. r \in {"skip", "negated"} /\ (r = "negated" => Negated(f)) /\ Negated(f)' = Negated(f)
      BY <1>1, <1>12, <2>1 DEF ShouldSkip, Negated
    <3> QED
      BY <1>10, <2>1, <3>1 DEF ResultFits
  <2>4. ResultsFit'
    BY <1>1, <1>4, <1>5, <2>2, <2>3, ResultAdded
  <2>5. Between(B)'
    <3>1. ASSUME at' \in 1..Len(suite'), announced' PROVE B.st \in Before(at)'
      <4>1. B.st \in StatesBefore(suite, options.features)[at]
        BY <1>6, <2>2, <3>1 DEF Before
      <4>2. B.st \in StatesBefore(suite, options.features)[at + 1]
        BY <1>1, <1>4, <1>5, <4>1, SuiteShape, StatesGrow
      <4> QED
        BY <1>1, <2>2, <4>2 DEF Before
    <3>2. ~announced' => B.st \in {Spawned.st}
      BY <1>6, <2>2
    <3> QED
      BY <1>1, <1>6, <1>10, <2>2, <3>1, <3>2 DEF Between
  <2>6. PipeFits(B)'
    BY <1>9
  <2>7. StageFits(B)'
    BY <2>5 DEF StageFits
  <2> QED
    BY <1>1, <1>8, <2>4, <2>6, <2>7 DEF CfInv
<1> QED
  BY <1>11, <1>12

\* A call is made: refused for an operation nobody announced, failed on a dead process,
\* or sent, which puts what follows it one call further.
LEMMA SendRawKeeps ==
  ASSUME CfInv, SendRaw
  PROVE  CfInv'
<1>1. /\ suite \in Suites /\ options \in RunOptions /\ faults \in Nat /\ ResultsFit /\ claims = {}
      /\ exit = Running /\ plan # << >> /\ PipeTypes /\ (faults = 0 => Quiet)
      /\ ~FlagsRefused /\ waiting = 0
      /\ UNCHANGED <<suite, options, announced, channel, adapter, alive, claims, faults>>
  BY DEF CfInv, SendRaw, cfRun
<1>2. PICK B : StageFits(B) /\ PipeFits(B)
  BY <1>1 DEF CfInv
<1>3. PICK C, n : C = Head(plan) /\ n = Len(stdin)
  OBVIOUS
<1>4. /\ IsSequence(stdin) /\ IsSequence(channel) /\ requestId \in Nat /\ n \in Nat
      /\ \A i \in 1..n : stdin[i].id \in 1..requestId
      /\ \A i \in 1..Len(channel) : channel[i].id \in 1..requestId
  BY <1>1, <1>3, AppendMeans DEF PipeTypes
<1>5. faults = 0 => alive /\ stdin = << >> /\ channel = << >>
  BY <1>1 DEF Quiet
<1>6. CASE C.op \notin SupportedOps
  <2>1. Conclude("OpNotSupported", Success) /\ UNCHANGED <<waiting, requestId, stdin>>
    BY <1>3, <1>6 DEF SendRaw
  <2>2. ErrorFits("OpNotSupported", B, C, Success)
    BY <1>6 DEF ErrorFits
  <2>3. /\ ResultsFit'
        /\ exit' = 2 \/ (exit' = exit /\ (plan' = << >> => StageFits(B)'))
    <3>1. PICK error, answer : error = "OpNotSupported" /\ answer = Success
      OBVIOUS
    <3>2. Conclude(error, answer) /\ ErrorFits(error, B, C, answer)
      BY <2>1, <2>2, <3>1
    <3> QED
      BY <1>1, <1>2, <1>3, <3>2, ConcludeKeeps
  <2>4. C.kind \in {"precondition", "step"}
    <3>1. CASE Starting(B)
      <4>1. C = InitCall
        BY <1>3, <3>1 DEF Starting
      <4>2. C.op \in SupportedOps
        BY <4>1 DEF InitCall, Call, SupportedOps
      <4> QED
        BY <1>6, <4>2
    <3>2. CASE Featuring(B)
      <4>1. C = FeaturesCall
        BY <1>3, <3>2 DEF Featuring
      <4>2. C.op \in SupportedOps
        BY <4>1 DEF FeaturesCall, Call, SupportedOps
      <4> QED
        BY <1>6, <4>2
    <3>3. CASE Executing(B)
      <4>1. PICK st \in Before(at), k \in Nat : GotTo(suite[at], st, k, B)
        BY <3>3 DEF Executing
      <4>2. WellFormed(suite[at])
        BY <1>1, <3>3, SuiteShape DEF Executing, InFixture
      <4> QED
        BY <1>1, <1>3, <1>6, <4>1, <4>2, CallAt
    <3>4. ~Between(B)
      BY <1>1 DEF Between
    <3> QED
      BY <1>2, <3>1, <3>2, <3>3, <3>4 DEF StageFits
  <2>5. plan' = << >> /\ exit' = exit
    BY <1>3, <2>1, <2>4 DEF Conclude, EndFixture
  <2>6. waiting' = 0 /\ stdin' = stdin /\ requestId' = requestId
    BY <1>1, <2>1
  <2>7. StageFits(B)' /\ ResultsFit'
    BY <1>1, <2>3, <2>5 DEF Running
  <2>8. PipeFits(B)'
    BY <1>1, <1>2, <2>6 DEF PipeFits, Awaited
  <2>9. PipeTypes' /\ (faults' = 0 => Quiet')
    BY <1>1, <2>6 DEF PipeTypes, Quiet
  <2> QED
    BY <1>1, <2>5, <2>7, <2>8, <2>9 DEF CfInv
<1>7. CASE C.op \in SupportedOps /\ ~alive
  <2>1. Conclude("Io", Success) /\ requestId' = requestId + 1 /\ UNCHANGED <<waiting, stdin>>
    BY <1>3, <1>7 DEF SendRaw
  <2>2. faults # 0 /\ faults' = faults /\ requestId' \in Nat /\ requestId' >= requestId /\ waiting' = 0
    BY <1>1, <1>4, <1>5, <1>7, <2>1
  <2>3. PICK error, answer : error = "Io" /\ answer = Success
    OBVIOUS
  <2>4. Conclude(error, answer) /\ ErrorFits(error, B, C, answer)
    BY <2>1, <2>2, <2>3 DEF ErrorFits
  <2>5. channel' = channel /\ \A i \in 1..Len(channel') : channel'[i].id \in 1..requestId'
    <3>1. ASSUME NEW i \in 1..Len(channel) PROVE channel[i].id \in 1..requestId'
      <4>1. channel[i].id \in 1..requestId
        BY <1>4
      <4> QED
        BY <1>4, <2>1, <4>1
    <3> QED
      BY <1>1, <3>1
  <2> QED
    BY <1>1, <1>2, <1>3, <1>4, <1>7, <2>1, <2>2, <2>4, <2>5, AnswerConcludes
<1>8. CASE C.op \in SupportedOps /\ alive
  <2>1. PICK r : r = [id |-> requestId + 1, op |-> C.op, arg |-> Substitute(C, substituted.nonces)]
    OBVIOUS
  <2>2. /\ requestId' = requestId + 1 /\ waiting' = requestId + 1 /\ stdin' = Append(stdin, r)
        /\ UNCHANGED <<results, plan, at, exit, substituted>>
    BY <1>3, <1>8, <2>1 DEF SendRaw
  <2>3. /\ IsSequence(stdin') /\ Len(stdin') = n + 1 /\ stdin'[n + 1] = r
        /\ \A k \in 1..n : stdin'[k] = stdin[k]
    BY <1>3, <1>4, <2>2, AppendMeans
  <2>4. r.id = requestId + 1 /\ r.op = C.op /\ r.arg = Substitute(C, substituted.nonces)
    BY <2>1
  <2>5. PipeTypes'
    <3>1. ASSUME NEW i \in 1..Len(stdin') PROVE stdin'[i].id \in 1..requestId'
      <4>1. CASE i \in 1..n
        <5>1. stdin'[i].id \in 1..requestId
          BY <1>4, <2>3, <4>1
        <5> QED
          BY <1>4, <2>2, <5>1
      <4>2. CASE i = n + 1
        BY <1>4, <2>2, <2>3, <2>4, <4>2
      <4> QED
        BY <1>4, <2>3, <4>1, <4>2
    <3>2. ASSUME NEW i \in 1..Len(channel) PROVE channel[i].id \in 1..requestId'
      <4>1. channel[i].id \in 1..requestId
        BY <1>4
      <4> QED
        BY <1>4, <2>2, <4>1
    <3>3. requestId' \in Nat /\ waiting' = requestId'
      BY <1>4, <2>2
    <3> QED
      BY <1>1, <1>3, <1>4, <1>8, <2>2, <2>3, <3>1, <3>2, <3>3 DEF PipeTypes
  <2>6. ASSUME faults' = 0 PROVE Quiet'
    <3>1. alive' /\ channel' = << >> /\ stdin = << >>
      BY <1>1, <1>5, <2>6
    <3>2. n = 0
      <4>1. Len(<< >>) = 0
        OBVIOUS
      <4> QED
        BY <1>3, <3>1, <4>1, Zenon
    <3>3. Len(stdin') = 1 /\ stdin'[1].id = waiting'
      BY <2>2, <2>3, <2>4, <3>2
    <3>4. waiting' # 0
      BY <1>4, <2>2
    <3> QED
      BY <3>1, <3>3, <3>4 DEF Quiet
  <2>7. StageFits(B)'
    BY <1>1, <1>2, <2>2, StageStays
  <2>8. substituted.nonces = B.nonces
    BY <1>1, <1>2 DEF StageFits, Starting, Between, Featuring, Executing, GotTo, Spawned, Fresh, NothingIssued
  <2>9. PipeFits(B)'
    <3>1. PICK D : Draining(D, adapter, stdin) /\ D[n + 1] = B.st
      BY <1>1, <1>2, <1>3, <1>8 DEF PipeFits
    <3>2. PICK X : X = AfterCall(B, C).st
      OBVIOUS
    <3>3. X = Handle(B.st, r.op, r.arg)[1]
      BY <2>4, <2>8, <3>2 DEF AfterCall
    <3>4. PICK E : E = [i \in 1..(n + 2) |-> IF i <= n + 1 THEN D[i] ELSE X]
      OBVIOUS
    <3>5. E[n + 2] = X /\ \A i \in 1..(n + 1) : E[i] = D[i]
      BY <1>4, <3>4
    <3>6. Draining(E, adapter', stdin')
      <4>1. E[1] = adapter'
        <5>1. 1 \in 1..(n + 1)
          BY <1>4
        <5> QED
          BY <1>1, <3>1, <3>5, <5>1 DEF Draining
      <4>2. ASSUME NEW i \in 1..(n + 1) 
            PROVE  E[i + 1] = Handle(E[i], stdin'[i].op, stdin'[i].arg)[1]
        <5>1. CASE i \in 1..n
          <6>1. D[i + 1] = Handle(D[i], stdin[i].op, stdin[i].arg)[1]
            BY <1>3, <3>1, <5>1 DEF Draining
          <6>2. i + 1 \in 1..(n + 1)
            BY <1>4, <5>1
          <6> QED
            BY <2>3, <3>5, <4>2, <5>1, <6>1, <6>2
        <5>2. CASE i = n + 1
          <6>1. i + 1 = n + 2
            BY <1>4, <5>2
          <6> QED
            BY <2>3, <3>1, <3>3, <3>5, <4>2, <5>2, <6>1
        <5> QED
          BY <1>4, <5>1, <5>2
      <4> QED
        BY <2>3, <4>1, <4>2 DEF Draining
    <3>7. E[Len(stdin') + 1] = IF waiting' # 0 THEN AfterCall(B, Head(plan')).st ELSE B.st
      <4>1. Len(stdin') + 1 = n + 2 /\ waiting' # 0 /\ Head(plan') = C
        BY <1>3, <1>4, <2>2, <2>3
      <4> QED
        BY <3>2, <3>5, <4>1
    <3>8. ASSUME NEW i \in 1..Len(stdin'), waiting' # 0, stdin'[i].id = waiting'
          PROVE  /\ i = Len(stdin') /\ E[i] = B.st
                 /\ stdin'[i].op = Head(plan').op /\ stdin'[i].arg = Substitute(Head(plan'), B.nonces)
      <4>1. i = n + 1
        <5>1. i \in 1..n => stdin'[i].id \in 1..requestId
          BY <1>4, <2>3
        <5>2. waiting' \notin 1..requestId
          BY <1>4, <2>2
        <5>3. i \notin 1..n
          BY <3>8, <5>1, <5>2
        <5> QED
          BY <1>4, <2>3, <5>3
      <4>2. E[n + 1] = B.st
        <5>1. n + 1 \in 1..(n + 1)
          BY <1>4
        <5> QED
          BY <3>1, <3>5, <5>1
      <4> QED
        BY <1>3, <2>2, <2>3, <2>4, <2>8, <4>1, <4>2
    <3>9. ASSUME NEW i \in 1..Len(channel'), waiting' # 0, channel'[i].id = waiting'
          PROVE  FALSE
      <4>1. channel'[i].id \in 1..requestId
        BY <1>1, <1>4
      <4> QED
        BY <1>4, <2>2, <3>9, <4>1
    <3> QED
      BY <3>6, <3>7, <3>8, <3>9 DEF PipeFits, Awaited
  <2>10. ResultsFit'
    BY <1>1, <2>2, ResultsStay
  <2> QED
    BY <1>1, <2>2, <2>5, <2>6, <2>7, <2>9, <2>10 DEF CfInv
<1> QED
  BY <1>6, <1>7, <1>8

\* A line is received: the answer that is awaited, or one that came late.
LEMMA ReceiveLineKeeps ==
  ASSUME CfInv, ReceiveLine
  PROVE  CfInv'
<1>1. /\ suite \in Suites /\ options \in RunOptions /\ faults \in Nat /\ ResultsFit
      /\ exit = Running /\ waiting # 0 /\ channel # << >> /\ PipeTypes /\ (faults = 0 => Quiet)
      /\ channel' = Tail(channel) /\ waiting' = 0
      /\ UNCHANGED <<suite, options, announced, requestId, stdin, adapter, alive, claims, faults>>
  BY DEF CfInv, ReceiveLine, cfRun
<1>2. PICK B : StageFits(B) /\ PipeFits(B)
  BY <1>1 DEF CfInv
<1>3. PICK C, line : C = Head(plan) /\ line = Head(channel)
  OBVIOUS
<1>4. plan # << >> /\ C.op \in SupportedOps /\ ~FlagsRefused /\ requestId \in Nat
  BY <1>1, <1>2, <1>3, NotRefused DEF PipeTypes
<1>5. /\ IsSequence(channel') /\ Len(channel) \in Nat /\ Len(channel) > 0 /\ Len(channel') = Len(channel) - 1
      /\ line = channel[1] /\ \A k \in 1..(Len(channel) - 1) : channel'[k] = channel[k + 1]
  BY <1>1, <1>3, TailMeans DEF PipeTypes
<1>6. \A i \in 1..Len(channel') : channel'[i].id \in 1..requestId'
  <2>1. ASSUME NEW i \in 1..Len(channel') PROVE channel'[i].id \in 1..requestId
    <3>1. i \in 1..(Len(channel) - 1) /\ i + 1 \in 1..Len(channel)
      BY <1>5
    <3>2. channel[i + 1].id \in 1..requestId
      BY <1>1, <3>1 DEF PipeTypes
    <3> QED
      BY <1>5, <3>1, <3>2
  <2> QED
    BY <1>1, <2>1
<1>7. ASSUME faults = 0 PROVE stdin = << >> /\ channel' = << >> /\ alive /\ line.id = waiting
  <2>1. alive /\ stdin = << >> /\ Len(channel) = 1 /\ channel[1].id = waiting
    BY <1>1, <1>7 DEF Quiet
  <2>2. Tail(channel) = << >>
    BY <1>1, <2>1, LastGone DEF PipeTypes
  <2> QED
    BY <1>1, <1>5, <2>1, <2>2
<1>8. PICK error, answer : Conclude(error, answer) /\ ErrorFits(error, B, C, answer)
  <2>1. CASE line.id # waiting
    <3>1. Conclude("MalformedResponse", Success)
      BY <1>3, <2>1 DEF ReceiveLine, Accept
    <3>2. faults' # 0
      BY <1>1, <1>7, <2>1
    <3>3. ErrorFits("MalformedResponse", B, C, Success)
      BY <3>2 DEF ErrorFits
    <3> QED
      BY <3>1, <3>3
  <2>2. CASE line.id = waiting
    <3>1. PICK answer, error : /\ answer = line.answer
                               /\ error = IF answer.code = "OP_NOT_SUPPORTED" THEN "OpNotSupported" ELSE "none"
      OBVIOUS
    <3>2. Conclude(error, answer)
      BY <1>3, <2>2, <3>1 DEF ReceiveLine, Accept, Received
    <3>3. answer = AnswerTo(B, C)
      <4>1. 1 \in 1..Len(channel) /\ Awaited(channel[1])
        BY <1>1, <1>5, <2>2 DEF Awaited
      <4> QED
        BY <1>2, <1>3, <1>5, <3>1, <4>1 DEF PipeFits
    <3>4. ErrorFits(error, B, C, answer)
      BY <1>4, <3>1, <3>3 DEF ErrorFits
    <3> QED
      BY <3>2, <3>4
  <2> QED
    BY <2>1, <2>2
<1>9. requestId' \in Nat /\ requestId' >= requestId
  BY <1>1, <1>4
<1> QED
  BY <1>1, <1>2, <1>3, <1>4, <1>5, <1>6, <1>7, <1>8, <1>9, AnswerConcludes

\* No line: too late, or never.
LEMMA TimeOutOrEofKeeps ==
  ASSUME CfInv, TimeOutOrEof
  PROVE  CfInv'
<1>1. /\ suite \in Suites /\ options \in RunOptions /\ faults \in Nat /\ ResultsFit
      /\ exit = Running /\ waiting # 0 /\ PipeTypes /\ (faults = 0 => Quiet)
      /\ waiting' = 0
      /\ UNCHANGED <<suite, options, announced, requestId, stdin, channel, adapter, alive, claims>>
  BY DEF CfInv, TimeOutOrEof, cfRun, cfProcess
<1>2. PICK B : StageFits(B) /\ PipeFits(B)
  BY <1>1 DEF CfInv
<1>3. PICK C : C = Head(plan)
  OBVIOUS
<1>4. plan # << >> /\ ~FlagsRefused
  BY <1>1, <1>2, NotRefused DEF PipeTypes
<1>5. PICK error, answer : /\ Conclude(error, answer) /\ error \notin {"none", "OpNotSupported"}
                           /\ faults' \in Nat /\ faults' # 0
  <2>1. CASE Conclude("Timeout", Success) /\ faults' = faults + 1
    <3>1. faults + 1 \in Nat /\ faults + 1 # 0
      BY <1>1
    <3> QED
      BY <2>1, <3>1
  <2>2. CASE Conclude("ProcessDied", Success) /\ ~alive /\ faults' = faults
    <3>1. faults # 0
      BY <1>1, <2>2 DEF Quiet
    <3> QED
      BY <1>1, <2>2, <3>1
  <2> QED
    BY <2>1, <2>2 DEF TimeOutOrEof
<1>6. ErrorFits(error, B, C, answer)
  BY <1>5 DEF ErrorFits
<1>7. /\ IsSequence(channel') /\ requestId' \in Nat /\ requestId' >= requestId
      /\ \A i \in 1..Len(channel') : channel'[i].id \in 1..requestId'
  BY <1>1 DEF PipeTypes
<1> QED
  BY <1>1, <1>2, <1>3, <1>4, <1>5, <1>6, <1>7, AnswerConcludes

\* The run ends: its verdict is read from results that were each earned.
LEMMA FinishRunKeeps ==
  ASSUME CfInv, FinishRun
  PROVE  CfInv'
<1>1. /\ suite \in Suites /\ options \in RunOptions /\ faults \in Nat /\ ResultsFit /\ claims = {}
      /\ plan = << >> /\ at > Len(suite) /\ exit' # Running
      /\ UNCHANGED <<suite, options, at, results, faults>>
  <2>1. exit' # Running
    BY DEF FinishRun, Running
  <2> QED
    BY <2>1 DEF CfInv, FinishRun, cfRun
<1>2. ~FlagsRefused
  <2>1. PICK B : StageFits(B)
    BY DEF CfInv, FinishRun
  <2> QED
    BY <1>1, <2>1, NothingPlanned DEF Between
<1>3. PICK n, m : n = Len(results) /\ m = Len(suite)
  OBVIOUS
<1>4. /\ IsSequence(suite) /\ m \in Nat /\ DOMAIN suite = 1..m
      /\ IsSequence(results) /\ n \in Nat /\ DOMAIN results = 1..n /\ n <= m
  <2>1. IsSequence(results) /\ n <= m
    BY <1>1, <1>3 DEF ResultsFit
  <2>2. n \in Nat /\ DOMAIN results = 1..n
    BY <1>3, <2>1 DEF IsSequence
  <2> QED
    BY <1>1, <1>3, <2>1, <2>2, SuiteShape
<1>5. \A k \in 1..n : ResultFits(suite[k], results[k])
  BY <1>1, <1>3 DEF ResultsFit
<1>6. n = m \/ (options.fail_fast /\ \E k \in 1..n : results[k] = "fail")
  BY <1>1, <1>3, <1>4 DEF ResultsFit
<1>7. ASSUME NEW f \in Fixtures
      PROVE  \E k \in 1..m : f = suite[k]
  BY <1>4, <1>7 DEF Fixtures
<1>8. \A k \in 1..n : suite[k] \in Fixtures
  BY <1>4 DEF Fixtures
<1>9. \/ exit' = 2 /\ claims' = {}
      \/ /\ exit' = IF "fail" \in {results[k] : k \in DOMAIN results} \/ ~CheckGate THEN 1 ELSE 0
         /\ claims' = {} \/ (options.report /\ claims' = BuildReport)
  BY <1>1 DEF FinishRun
<1>10. exit' = 0 => /\ \A k \in 1..n : results[k] # "fail"
                    /\ CheckGate
  BY <1>4, <1>9
<1>11. exit' = 1 => \/ \E k \in 1..n : results[k] = "fail"
                    \/ ~CheckGate
  BY <1>4, <1>9
<1>12. exit' = 0 => \A f \in Fixtures : Requires(options.profile, f) /\ ~Negated(f) => Conforms(f)
  <2>1. ASSUME exit' = 0, NEW f \in Fixtures, Requires(options.profile, f), ~Negated(f) PROVE Conforms(f)
    <3>1. n = m
      BY <1>6, <1>10, <2>1
    <3>2. PICK k \in 1..n : f = suite[k]
      BY <1>7, <3>1
    <3>3. results[k] \in {"pass", "negated"}
      BY <1>4, <1>10, <2>1, <3>2 DEF CheckGate
    <3> QED
      BY <1>5, <2>1, <3>2, <3>3 DEF ResultFits
  <2> QED
    BY <2>1
<1>13. ASSUME claims' # {} PROVE n = m /\ claims' = BuildReport
  <2>1. options.report
    BY <1>9, <1>13
  <2>2. ~options.fail_fast
    BY <1>2, <2>1 DEF FlagsRefused
  <2> QED
    BY <1>6, <1>9, <1>13, <2>2
<1>14. PICK reported : reported = {k \in 1..n : suite[k].status # "reserved"}
  OBVIOUS
<1>15. claims' # {} => claims' =
         (IF \A k \in reported : suite[k].status = "core" /\ suite[k].required_for_core => results[k] = "pass"
          THEN {"AITP v0.3"} ELSE {}) \cup
         {x \in FeatureClaims \cap options.features :
            {k \in reported : suite[k].feature = x} # {} /\
            \A k \in {j \in reported : suite[j].feature = x} : results[k] = "pass"}
  BY <1>4, <1>13, <1>14 DEF BuildReport
<1>16. ASSUME NEW k \in 1..n, results[k] = "pass" PROVE Conforms(suite[k])
  BY <1>5, <1>16 DEF ResultFits
<1>17. "AITP v0.3" \in claims' =>
         \A f \in Fixtures : f.status = "core" /\ f.required_for_core => Conforms(f)
  <2>1. ASSUME "AITP v0.3" \in claims', NEW f \in Fixtures, f.status = "core", f.required_for_core
        PROVE  Conforms(f)
    <3>1. claims' # {} /\ n = m
      BY <1>13, <2>1
    <3>2. PICK k \in 1..n : f = suite[k]
      BY <1>7, <3>1
    <3>3. k \in reported
      BY <1>14, <2>1, <3>2
    <3>4. "AITP v0.3" \notin FeatureClaims
      BY DEF FeatureClaims
    <3>5. \A j \in reported : suite[j].status = "core" /\ suite[j].required_for_core => results[j] = "pass"
      BY <1>15, <2>1, <3>1, <3>4
    <3> QED
      BY <1>16, <2>1, <3>2, <3>3, <3>5
  <2> QED
    BY <2>1
<1>18. ASSUME NEW x \in claims' \ {"AITP v0.3"}, NEW f \in Fixtures, f.feature = x, f.status # "reserved"
       PROVE  Conforms(f)
  <2>1. claims' # {} /\ n = m
    BY <1>13, <1>18
  <2>2. PICK k \in 1..n : f = suite[k]
    BY <1>7, <2>1
  <2>3. k \in {j \in reported : suite[j].feature = x}
    BY <1>14, <1>18, <2>2
  <2>4. \A j \in {i \in reported : suite[i].feature = x} : results[j] = "pass"
    BY <1>15, <1>18, <2>1
  <2> QED
    BY <1>16, <2>2, <2>3, <2>4
<1>19. ASSUME exit' = 1, faults = 0
       PROVE  \E f \in Fixtures :
                \/ ShouldSkip(f) = "no" /\ ~Conforms(f)
                \/ ShouldSkip(f) = "skip" /\ Requires(options.profile, f)
  <2>1. CASE \E k \in 1..n : results[k] = "fail"
    <3>1. PICK k \in 1..n : results[k] = "fail"
      BY <2>1
    <3>2. PICK f : f = suite[k]
      OBVIOUS
    <3>3. f \in Fixtures /\ ShouldSkip(f) = "no" /\ ~Conforms(f)
      BY <1>5, <1>8, <1>19, <3>1, <3>2 DEF ResultFits
    <3> QED
      BY <3>3
  <2>2. CASE ~CheckGate /\ ~\E k \in 1..n : results[k] = "fail"
    <3>1. PICK k \in 1..n : Requires(options.profile, suite[k]) /\ results[k] \notin {"pass", "negated"}
      BY <1>4, <2>2 DEF CheckGate
    <3>2. PICK f : f = suite[k]
      OBVIOUS
    <3>3. results[k] = "skip"
      BY <1>5, <2>2, <3>1 DEF ResultFits
    <3>4. ShouldSkip(f) = "skip" \/ (ShouldSkip(f) = "no" /\ ~Conforms(f))
      BY <1>5, <1>19, <3>2, <3>3 DEF ResultFits
    <3> QED
      BY <1>8, <3>1, <3>2, <3>4
  <2> QED
    BY <1>11, <1>19, <2>1, <2>2
<1>20. VerdictEarned'
  <2>1. /\ Fixtures' = Fixtures /\ options' = options
        /\ \A f : (Conforms(f)' <=> Conforms(f)) /\ (Negated(f)' <=> Negated(f)) /\ ShouldSkip(f)' = ShouldSkip(f)
    BY <1>1 DEF Fixtures, Conforms, Negated, ShouldSkip
  <2> QED
    BY <1>1, <1>12, <1>17, <1>18, <1>19, <2>1 DEF VerdictEarned
<1>21. ResultsFit'
  BY <1>1, ResultsStay
<1> QED
  BY <1>1, <1>20, <1>21 DEF CfInv

\* A run starts with nothing concluded and nothing under way.
LEMMA RunStarts ==
  ASSUME CfInit
  PROVE  CfInv
<1>1. /\ suite \in Suites /\ options \in RunOptions /\ faults \in Nat /\ claims = {} /\ exit = Running
  BY DEF CfInit
<1>2. /\ Len(<< >>) = 0 /\ IsSequence(<< >>)
  <2>1. << >> \in Seq({}) /\ Len(<< >>) = 0
    OBVIOUS
  <2> QED
    BY <2>1, SequenceOf
<1>3. ResultsFit
  <2>1. results = << >> /\ at = 1 /\ Len(suite) \in Nat
    BY <1>1, SuiteShape DEF CfInit
  <2> QED
    BY <1>2, <2>1 DEF ResultsFit
<1>4. stdin = << >> /\ channel = << >> /\ requestId = 0 /\ waiting = 0 /\ alive
  BY DEF CfInit
<1>5. PipeTypes /\ Quiet
  <2>1. 1..0 = {}
    OBVIOUS
  <2> QED
    BY <1>2, <1>4, <2>1 DEF PipeTypes, Quiet
<1>6. PICK B : B = Spawned
  OBVIOUS
<1>7. Starting(B)
  BY <1>4, <1>6 DEF CfInit, Starting, InitCall
<1>8. PipeFits(B)
  <2>1. PICK D : D = [i \in 1..1 |-> adapter]
    OBVIOUS
  <2>2. D[1] = adapter /\ adapter = B.st /\ 1..0 = {} /\ 0 + 1 = 1
    BY <1>6, <2>1 DEF CfInit, Spawned, Fresh
  <2> QED
    BY <1>2, <1>4, <2>2 DEF PipeFits, Draining
<1>9. StageFits(B)
  BY <1>7 DEF StageFits
<1> QED
  BY <1>1, <1>3, <1>5, <1>8, <1>9 DEF CfInv

\* Nothing changes.
LEMMA RunStutters ==
  ASSUME CfInv, UNCHANGED cfVars
  PROVE  CfInv'
<1>1. UNCHANGED <<suite, options, announced, at, plan, substituted, results, requestId, waiting, stdin, channel,
                  adapter, alive, exit, claims, faults>>
  BY DEF cfVars
<1>2. ResultsFit'
  BY <1>1, ResultsStay DEF CfInv
<1>3. CASE exit # Running
  <2>1. VerdictEarned'
    BY <1>1, <1>3, VerdictStays DEF CfInv
  <2> QED
    BY <1>1, <1>2, <1>3, <2>1 DEF CfInv
<1>4. CASE exit = Running
  <2>1. PICK B : StageFits(B) /\ PipeFits(B)
    BY <1>4 DEF CfInv
  <2>2. StageFits(B)'
    BY <1>1, <2>1, StageStays
  <2>3. PipeFits(B)'
    BY <1>1, <2>1 DEF PipeFits, Awaited
  <2>4. PipeTypes' /\ (faults' = 0 => Quiet')
    BY <1>1, <1>4 DEF CfInv, PipeTypes, Quiet
  <2> QED
    BY <1>1, <1>2, <1>4, <2>2, <2>3, <2>4 DEF CfInv
<1> QED
  BY <1>3, <1>4

\* A conformance run is correct, whatever times out, arrives late or dies on the way:
\* what the calls it concluded leave behind is what the reference run of the fixture
\* leaves, the requests under way lead the adapter there, and each result was earned.
THEOREM ConformanceCorrect == CfSpec => []CfInv
<1>1. CfInit => CfInv
  BY RunStarts
<1>2. CfInv /\ [CfNext]_cfVars => CfInv'
  BY AdapterServesKeeps, AdapterDiesKeeps, RefuseFlagsKeeps, StartFixtureKeeps, SendRawKeeps,
     ReceiveLineKeeps, TimeOutOrEofKeeps, FinishRunKeeps, RunStutters DEF CfNext
<1> QED
  BY <1>1, <1>2, PTL DEF CfSpec

\* The verdict of a run is earned: exit status 0 and a claim in the report (gate.rs,
\* report.rs) are given only for fixtures that pass on an adapter of their own, and a
\* run in which nothing went wrong fails only when one of its fixtures does.
THEOREM VerdictsAreEarned == CfSpec => []VerdictEarned
<1>1. CfInv => VerdictEarned
  <2>1. ASSUME exit = Running, claims = {} PROVE VerdictEarned
    BY <2>1 DEF VerdictEarned, Running
  <2> QED
    BY <2>1 DEF CfInv
<1> QED
  BY <1>1, ConformanceCorrect, PTL
=============================================================================
