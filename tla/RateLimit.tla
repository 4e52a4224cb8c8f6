----------------------------- MODULE RateLimit ------------------------------
(***************************************************************************)
(* The two rate limiters: the token buckets of pinned-key admission        *)
(* (crates/aitp/src/handshake/admission/rate_limit.rs) and the sliding     *)
(* window of the handshake server and of the renewal endpoint, which count *)
(* by the source address of a request (transport/server.rs,                *)
(* transport/source_ip.rs). A caller of a token bucket reads the clock     *)
(* before it takes the lock, so calls may arrive with a reading older than *)
(* the one before. Tokens are counted in UNITs of a challenge.             *)
(***************************************************************************)
EXTENDS Network, FiniteSets

CONSTANTS
  UNIT,                \* what one challenge costs
  BURST, PER_TICK,     \* of a bucket, in challenges and in tokens
  MAX_SOURCES,
  PRUNE_INTERVAL,
  TransportKeys, Labels,  \* keys of the two buckets a source is charged to
  Chargers,            \* concurrent callers of the limiter
  Clients,             \* addresses requests really come from
  Proxies,             \* trusted proxies: [network, prefix]
  ProxyAddress,        \* the one some requests come through
  ForgedHops,          \* what a client may put into X-Forwarded-For
  EdgeHop,             \* what the edge of the interop peer puts there
  PER_SOURCE,          \* requests_per_source_per_60s
  PER_AID,             \* requests_per_aid_per_60s
  ClaimedAids,
  WINDOW,
  MaxInstant,          \* bound of the model: last instant of the clock
  Missing

\* transport_key and ChallengeSource::ip: an IPv6 source is its /64.
TransportKey(ip) == IF Len(ip) = 4 THEN ip ELSE SubSeq(ip, 1, 4)

\* The proxies are not clients. A key says what it is of, an address or an AID.
ASSUME RateLimitAssumption ==
  /\ {UNIT, BURST, PER_TICK, MAX_SOURCES, PRUNE_INTERVAL, PER_SOURCE, PER_AID, WINDOW, MaxInstant} \subseteq Nat
  /\ UNIT > 0 /\ MAX_SOURCES > 0 /\ WINDOW > 0
  /\ Missing \notin [tokens : Nat, last : Nat]
  /\ \E p \in Proxies : Contains(p, ProxyAddress)
  /\ \A a \in Clients : a # Missing /\ ~\E p \in Proxies : Contains(p, a)
  /\ (ClaimedAids \cup {Missing}) \cap {TransportKey(a) : a \in Clients} = {}

VARIABLES
  instant,     \* the monotonic clock
  buckets,     \* key -> [tokens, last] or Missing, of both limiters
  last_prune,  \* of the transport limiter and of the label limiter
  charging,    \* what each caller is doing
  charged,     \* history: challenges admitted per key
  mark,        \* history: the reading a key was last charged or refilled with
  overtaken,   \* history: by how much readings of a key went back, in all
  events,      \* sliding window: key -> the instants it counts
  passed       \* history: the same per client, whatever its requests said

rlVars == <<instant, buckets, last_prune, charging, charged, mark, overtaken, events, passed>>
bucketVars == <<buckets, last_prune, charging, charged, mark, overtaken>>
windowVars == <<events, passed>>

Keys == TransportKeys \cup Labels
NotCharging == [pc |-> "idle", key |-> Missing, label |-> Missing, now |-> 0]

RlInit ==
  /\ instant = 0
  /\ buckets = [k \in Keys |-> Missing]
  /\ last_prune = [transport |-> Missing, label |-> Missing]
  /\ charging = [c \in Chargers |-> NotCharging]
  /\ charged = [k \in Keys |-> 0]
  /\ mark = [k \in Keys |-> 0] /\ overtaken = [k \in Keys |-> 0]
  /\ events = [k \in {TransportKey(a) : a \in Clients \cup {ProxyAddress} \cup (ForgedHops \ {Missing})}
                      \cup ClaimedAids |-> {}]
  /\ passed = [a \in Clients |-> {}]

(***************************************************************************)
(* TokenBucketLimiter::check_key_at.                                       *)
(***************************************************************************)
Burst == UNIT * (IF BURST = 0 THEN 1 ELSE BURST)
LimiterKeys(which) == IF which = "transport" THEN TransportKeys ELSE Labels
Tracked(bs, which) == {k \in LimiterKeys(which) : bs[k] # Missing}

\* An older reading refills nothing, and is remembered all the same.
Refill(b, now) ==
  [tokens |-> Least(b.tokens + PER_TICK * (IF now > b.last THEN now - b.last ELSE 0), Burst),
   last |-> now]

\* Mutant of Prune: the sense of `retain` inverted, the full buckets are kept.
PruneInverted(which, now) ==
  [k \in Keys |->
     IF k \in Tracked(buckets, which)
     THEN IF Refill(buckets[k], now).tokens < Burst THEN Missing ELSE Refill(buckets[k], now)
     ELSE buckets[k]]

\* Every bucket is refilled, and those that are full again are forgotten.
Prune(which, now) ==
  [k \in Keys |->
     IF k \in Tracked(buckets, which)
     THEN IF Refill(buckets[k], now).tokens < Burst THEN Refill(buckets[k], now) ELSE Missing
     ELSE buckets[k]]

PruneDue(which, key, now) ==
  /\ buckets[key] = Missing
  /\ Cardinality(Tracked(buckets, which)) >= MAX_SOURCES
  /\ last_prune[which] = Missing \/ now >= last_prune[which] + PRUNE_INTERVAL

\* The verdict of a call, and the table it leaves behind.
Check(which, key, now) ==
  LET pruned == IF PruneDue(which, key, now) THEN Prune(which, now) ELSE buckets
      full == pruned[key] = Missing /\ Cardinality(Tracked(pruned, which)) >= MAX_SOURCES
      b == Refill(IF pruned[key] = Missing THEN [tokens |-> Burst, last |-> now] ELSE pruned[key], now)
      ok == ~full /\ b.tokens >= UNIT
  IN  [ok |-> ok,
       table |-> IF full THEN pruned
                 ELSE [pruned EXCEPT ![key] = IF ok THEN [b EXCEPT !.tokens = @ - UNIT] ELSE b]]

\* The effects of a call: history follows the buckets it read or refilled.
Charge(which, key, now) ==
  LET r == Check(which, key, now)
      touched == {key} \cup (IF PruneDue(which, key, now) THEN Tracked(buckets, which) ELSE {})
  IN  /\ buckets' = r.table
      /\ last_prune' = IF PruneDue(which, key, now) THEN [last_prune EXCEPT ![which] = now] ELSE last_prune
      /\ charged' = [charged EXCEPT ![key] = IF r.ok THEN @ + 1 ELSE @]
      /\ mark' = [k \in Keys |-> IF k \in touched THEN now ELSE mark[k]]
      /\ overtaken' = [k \in Keys |->
           IF k \in touched /\ mark[k] > now THEN overtaken[k] + mark[k] - now ELSE overtaken[k]]

(***************************************************************************)
(* RecommendedLimiter: the source first, then its label, if it has one.    *)
(***************************************************************************)
ReadInstant(c, key, label) ==
  /\ charging[c].pc = "idle"
  /\ charging' = [charging EXCEPT ![c] = [pc |-> "transport", key |-> key, label |-> label, now |-> instant]]
  /\ UNCHANGED <<instant, buckets, last_prune, charged, mark, overtaken, windowVars>>

CheckTransport(c) ==
  /\ charging[c].pc = "transport"
  /\ Charge("transport", charging[c].key, charging[c].now)
  /\ charging' = [charging EXCEPT ![c] =
       IF Check("transport", @.key, @.now).ok /\ @.label # Missing
       THEN [@ EXCEPT !.pc = "label"] ELSE NotCharging]
  /\ UNCHANGED <<instant, windowVars>>

CheckLabel(c) ==
  /\ charging[c].pc = "label"
  /\ Charge("label", charging[c].label, charging[c].now)
  /\ charging' = [charging EXCEPT ![c] = NotCharging]
  /\ UNCHANGED <<instant, windowVars>>

(***************************************************************************)
(* rate_limit_check of the server, and rate_limit_allows of the renewal    *)
(* endpoint, which has no limit per AID. The clock is read under the lock. *)
(***************************************************************************)
Retained(k) == {t \in events[k] : instant - t[1] < WINDOW}
Count(k) == Cardinality(Retained(k))
NewEvent(k) == <<instant, Cardinality({t \in events[k] : t[1] = instant})>>

\* extract_source_ip.
SourceKey(peer, xff, real_ip) == TransportKey(ResolveSourceIp(peer, xff, real_ip, Proxies, Missing))

RateLimitCheck(key, aid) ==
  IF Count(key) >= PER_SOURCE
  THEN events' = [events EXCEPT ![key] = Retained(key)]
  ELSE IF aid # Missing /\ Count(aid) >= PER_AID
  THEN events' = [events EXCEPT ![key] = Retained(key), ![aid] = Retained(aid)]
  ELSE events' = [k \in DOMAIN events |->
                    IF k \in {key, aid} THEN Retained(k) \cup {NewEvent(k)} ELSE events[k]]
Allowed(key, aid) == ~(Count(key) >= PER_SOURCE) /\ ~(aid # Missing /\ Count(aid) >= PER_AID)

\* client_ip of the interop peer: a trusted proxy names the client in a header
\* of its own, which replaces the hops.
ClientIp(peer, xff, header) ==
  IF header # Missing /\ (\E p \in Proxies : Contains(p, peer)) THEN <<header>> ELSE xff

\* The key a request of a client is charged to, when it comes directly or
\* through the proxy, which adds the address it was called from to the hops the
\* request came with, or, at the edge of the interop peer, adds one of its own
\* as well and overwrites the header.
ChargedKey(a, proxied, edge, hops, real_ip) ==
  LET header == IF proxied THEN a ELSE real_ip
      xff == IF ~proxied THEN hops
             ELSE Append(hops, a) \o (IF edge THEN <<EdgeHop>> ELSE << >>)
      peer == IF proxied THEN ProxyAddress ELSE a
  IN  SourceKey(peer, IF edge THEN ClientIp(peer, xff, header) ELSE xff, real_ip)

Arrives(a, proxied, edge, hops, real_ip, aid) ==
  LET key == ChargedKey(a, proxied, edge, hops, real_ip)
  IN  /\ RateLimitCheck(key, aid)
      /\ passed' = [passed EXCEPT ![a] =
           {t \in @ : instant - t[1] < WINDOW} \cup
           (IF Allowed(key, aid) THEN {<<instant, Cardinality({t \in @ : t[1] = instant})>>} ELSE {})]
      /\ UNCHANGED <<instant, bucketVars>>

RlTick ==
  /\ instant < MaxInstant
  /\ instant' = instant + 1
  /\ UNCHANGED <<bucketVars, windowVars>>

BucketNext ==
  \/ \E c \in Chargers, key \in TransportKeys, label \in Labels \cup {Missing} : ReadInstant(c, key, label)
  \/ \E c \in Chargers : CheckTransport(c)
  \/ \E c \in Chargers : CheckLabel(c)
  \/ RlTick

WindowNext ==
  \/ \E a \in Clients, proxied, edge \in BOOLEAN, hop \in ForgedHops, some \in BOOLEAN,
        real_ip \in ForgedHops, aid \in ClaimedAids \cup {Missing} :
        Arrives(a, proxied, edge, IF some THEN <<hop>> ELSE << >>, real_ip, aid)
  \/ RlTick

RlSpec == RlInit /\ [][BucketNext \/ WindowNext]_rlVars

(***************************************************************************)
(* Properties.                                                             *)
(***************************************************************************)

\* A key is never admitted more than its burst and what its rate yields, and
\* forgetting refilled buckets never gives anybody a second burst. The rate
\* is counted over the time that passed and, again, over the time by which a
\* caller's reading was overtaken before it took the lock.
RateHolds ==
  \A k \in Keys : UNIT * charged[k] <= Burst + PER_TICK * (instant + overtaken[k])

\* No client gets more requests through in a window than its source may
\* have, whichever hops it puts into its headers, and through a trusted proxy
\* as well as without: the address that counts is its own.
ClientBounded ==
  \A a \in Clients : Cardinality({t \in passed[a] : instant - t[1] < WINDOW}) <= PER_SOURCE
=============================================================================
