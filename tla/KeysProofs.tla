----------------------------- MODULE KeysProofs -----------------------------
(***************************************************************************)
(* Keys and their revocation: the key file of the command line, for any    *)
(* number of commands; the key resolution of issuers, for any number of    *)
(* callers, key sets and lifetimes of the caches; and the revocation       *)
(* fetcher, for any number of handshakes, issuers and tokens and any       *)
(* policy: when a revocation takes effect, and what a decision rests on.   *)
(***************************************************************************)
EXTENDS KeyFile, KeyResolution, Revocation, TLAPS

(***************************************************************************)
(* The key file.                                                           *)
(***************************************************************************)
ProcessStates == {"start", "read", "generate", "create", "write", "ended"}

KfTypes ==
  /\ file \in Seeds \cup {NoFile, Unwritten}
  /\ process \in [Processes -> [pc : ProcessStates, seed : Seeds \cup {NoFile}]]

\* A process that goes on to write has drawn a seed, and the file that it is
\* the only one to write is still the one it created.
WriterFits(p) ==
  /\ process[p].pc \in {"create", "write"} => process[p].seed \in Seeds
  /\ process[p].pc = "write" =>
       file = Unwritten /\ \A q \in Processes : process[q].pc = "write" => q = p

KfInv ==
  /\ KfTypes
  /\ \A p \in Processes : WriterFits(p)
  /\ used \subseteq {file} /\ used \subseteq Seeds

\* No command has run.
LEMMA KfInitInv == KfInit => KfInv
BY DEF KfInit, KfInv, KfTypes, WriterFits, ProcessStates

\* A step of p to a state in which it is not the writer leaves the others in
\* order, as long as the file stays.
LEMMA KfMove ==
  ASSUME KfInv, NEW p \in Processes, file' = file,
         process' \in [Processes -> [pc : ProcessStates, seed : Seeds \cup {NoFile}]],
         \A q \in Processes : q # p => process'[q] = process[q],
         process'[p].pc # "write", process'[p].pc = "create" => process'[p].seed \in Seeds,
         used' \subseteq {file} /\ used' \subseteq Seeds
  PROVE  KfInv'
<1>1. ASSUME NEW q \in Processes PROVE WriterFits(q)'
  <2>1. CASE q = p
    BY <2>1 DEF WriterFits
  <2>2. CASE q # p
    BY <2>2 DEF KfInv, WriterFits
  <2> QED
    BY <2>1, <2>2
<1> QED
  BY <1>1 DEF KfInv, KfTypes

\* One command after another, or at the same time: every step keeps it.
LEMMA KfNextInv == KfInv /\ [KfNext]_kfVars => KfInv'
<1> SUFFICES ASSUME KfInv, [KfNext]_kfVars PROVE KfInv'
  OBVIOUS
<1> USE DEF ProcessStates
<1>1. ASSUME NEW p \in Processes, NEW creates \in BOOLEAN, FindKey(p, creates) PROVE KfInv'
  BY <1>1, KfMove DEF FindKey, Go, KfInv, KfTypes
<1>2. ASSUME NEW p \in Processes, ReadKey(p) PROVE KfInv'
  BY <1>2, KfMove DEF ReadKey, Go, UseKey, KfInv, KfTypes
<1>3. ASSUME NEW p \in Processes, NEW seed \in Seeds, GenerateKey(p, seed) PROVE KfInv'
  BY <1>3, KfMove DEF GenerateKey, KfInv, KfTypes
<1>4. ASSUME NEW p \in Processes, CreateFile(p) PROVE KfInv'
  <2>1. CASE file = NoFile
    <3>1. /\ file' = Unwritten /\ used' = used /\ used = {} /\ process[p].seed \in Seeds
          /\ process' = [process EXCEPT ![p].pc = "write"]
      BY <1>4, <2>1, KeyFileAssumption DEF CreateFile, Go, KfInv, WriterFits
    <3>2. KfTypes'
      BY <3>1 DEF KfInv, KfTypes
    <3>3. \A q \in Processes : q # p => process'[q] = process[q] /\ process[q].pc # "write"
      BY <2>1, <3>1, KeyFileAssumption DEF KfInv, KfTypes, WriterFits
    <3>4. process'[p].pc = "write" /\ process'[p].seed \in Seeds
      BY <3>1 DEF KfInv, KfTypes
    <3>5. ASSUME NEW q \in Processes PROVE WriterFits(q)'
      BY <3>1, <3>3, <3>4 DEF KfInv, WriterFits
    <3> QED
      BY <3>1, <3>2, <3>5 DEF KfInv
  <2>2. CASE file # NoFile
    BY <1>4, <2>2, KfMove DEF CreateFile, Go, KfInv, KfTypes
  <2> QED
    BY <2>1, <2>2
<1>5. ASSUME NEW p \in Processes, WriteKey(p) PROVE KfInv'
  <2>1. /\ process[p].pc = "write" /\ file' = process[p].seed /\ process[p].seed \in Seeds
        /\ file = Unwritten /\ \A q \in Processes : process[q].pc = "write" => q = p
        /\ process' = [process EXCEPT ![p].pc = "ended"] /\ used' = used \cup {process[p].seed}
    BY <1>5 DEF WriteKey, UseKey, KfInv, WriterFits
  <2>2. used = {}
    BY <2>1, KeyFileAssumption DEF KfInv
  <2>3. KfTypes'
    BY <2>1 DEF KfInv, KfTypes
  <2>4. process'[p].pc = "ended" /\ \A q \in Processes : q # p => process'[q] = process[q]
    BY <2>1 DEF KfInv, KfTypes
  <2>5. ASSUME NEW q \in Processes PROVE WriterFits(q)'
    BY <2>1, <2>4 DEF KfInv, WriterFits
  <2> QED
    BY <2>1, <2>2, <2>3, <2>5 DEF KfInv
<1>6. ASSUME NEW p \in Processes, Die(p) PROVE KfInv'
  BY <1>6, KfMove DEF Die, Go, KfInv, KfTypes
<1>7. ASSUME NEW p \in Processes, Again(p) PROVE KfInv'
  BY <1>7, KfMove DEF Again, KfInv, KfTypes
<1>8. CASE UNCHANGED kfVars
  BY <1>8 DEF kfVars, KfInv, KfTypes, WriterFits
<1> QED
  BY <1>1, <1>2, <1>3, <1>4, <1>5, <1>6, <1>7, <1>8 DEF KfNext

\* KeyFileKept: load_or_create_default_key gives every command the same key,
\* however many of them find no file at once and wherever they die.
THEOREM KeyFileSafe == KfSpec => []KeyFileKept
<1>1. KfInv => KeyFileKept
  BY DEF KfInv, KeyFileKept
<1> QED
  BY <1>1, KfInitInv, KfNextInv, PTL DEF KfSpec

(***************************************************************************)
(* Key resolution: what holds between the caches, the calls and what the   *)
(* issuer has published.                                                   *)
(***************************************************************************)

\* Version v was the published one at t or later; so was the key set's place u.
Published(v, t) == v = origin.version \/ (retired[v] # Nothing /\ retired[v] >= t)
InPlace(u, t) == u = origin.uri \/ (retired[origin.left[u]] # Nothing /\ retired[origin.left[u]] >= t)

CallStates ==
  [pc : Fetches \cup {"idle", "resolve"}, sent : Nat, uri : {1, 2, Nothing},
   fetched : {1, 2, Nothing} \cup Versions, to : DnsAnswers \cup {{}}]

KrTypes ==
  /\ time \in Nat
  /\ origin \in [version : Versions, uri : {1, 2}, left : [{1, 2} -> Versions]]
  /\ retired \in [Versions -> Nat \cup {Nothing}]
  /\ cache # Nothing => cache \in [keys : {0} \cup Versions, expires_at : Nat]
  /\ discovery # Nothing => discovery \in [uri : {1, 2}, inserted_at : Nat]
  /\ call \in [Callers -> CallStates]

\* The published version is not retired, and is where the issuer says it is.
OriginFits ==
  /\ \A v \in Versions : v >= origin.version => retired[v] = Nothing
  /\ origin.left[origin.uri] = origin.version

\* How old what the caches hold can be.
CacheFits ==
  cache # Nothing =>
    /\ cache.expires_at <= time + CACHE_TTL
    /\ cache.keys # 0 =>
         Published(cache.keys, cache.expires_at - CACHE_TTL - DISCOVERY_TTL - 3 * TIMEOUT)

DiscoveryFits ==
  discovery # Nothing =>
    discovery.inserted_at <= time /\ InPlace(discovery.uri, discovery.inserted_at - TIMEOUT)

\* Of a call r: a fetch ends by its timeout, and how old what it brings can be.
FetchFits(r) ==
  /\ r.sent <= time
  /\ r.pc \in Fetches => time <= r.sent + TIMEOUT
  /\ r.pc = "discovery" /\ r.fetched # Nothing => r.fetched \in {1, 2} /\ InPlace(r.fetched, r.sent)
  /\ r.pc = "jwks" => r.uri \in {1, 2}
  /\ r.pc = "jwks" /\ r.fetched = Nothing => InPlace(r.uri, r.sent - DISCOVERY_TTL - TIMEOUT)
  /\ r.pc = "jwks" /\ r.fetched # Nothing =>
       r.fetched \in Versions /\ Published(r.fetched, r.sent - DISCOVERY_TTL - 2 * TIMEOUT)
  /\ r.pc = "aitp-keys" /\ r.fetched # Nothing => r.fetched \in Versions /\ Published(r.fetched, r.sent)

\* Whoever fetched keys itself finds a cache that lasts as long as they do.
ServesFits(r) ==
  r.pc = "resolve" /\ r.fetched # Nothing => cache # Nothing /\ cache.expires_at >= r.sent + CACHE_TTL

\* A request went to addresses that passed the guard.
GuardFits(r) ==
  r.to # {} => ResolveChecked(GUARD_MODE, ALLOW_LOOPBACK, r.to, Nothing) = "ok"

KrInv ==
  /\ KrTypes /\ OriginFits /\ CacheFits /\ DiscoveryFits
  /\ \A c \in Callers : FetchFits(call[c]) /\ ServesFits(call[c]) /\ GuardFits(call[c])

(***************************************************************************)
(* Lemmas.                                                                 *)
(***************************************************************************)

\* Key sets are numbered from 1.
LEMMA VersionsNat == (\A v \in Versions : v \in Nat) /\ 1 \in Versions
BY KeyResolutionAssumption DEF Versions

\* The lifetimes are numbers.
LEMMA TtlsNat ==
  /\ CACHE_TTL \in Nat /\ NEGATIVE_TTL \in Nat /\ DISCOVERY_TTL \in Nat /\ TIMEOUT \in Nat
  /\ 3 * TIMEOUT \in Nat /\ 2 * TIMEOUT \in Nat /\ 3 * TIMEOUT = 2 * TIMEOUT + TIMEOUT
  /\ 2 * TIMEOUT = TIMEOUT + TIMEOUT
BY KeyResolutionAssumption

\* What was published at some time was published at an earlier one or later.
LEMMA PublishedEarlier ==
  ASSUME KrTypes, NEW v \in Versions, NEW t \in Int, NEW s \in Int, s <= t, Published(v, t)
  PROVE  Published(v, s)
<1>1. retired[v] \in Nat \cup {Nothing}
  BY DEF KrTypes
<1> QED
  BY <1>1 DEF Published

\* The same of a place.
LEMMA InPlaceEarlier ==
  ASSUME KrTypes, NEW u \in {1, 2}, NEW t \in Int, NEW s \in Int, s <= t, InPlace(u, t)
  PROVE  InPlace(u, s)
<1>1. retired[origin.left[u]] \in Nat \cup {Nothing}
  BY DEF KrTypes
<1> QED
  BY <1>1 DEF InPlace

\* What a place that was the issuer's at t serves was published at t or later.
LEMMA PlaceServes ==
  ASSUME KrTypes, OriginFits, NEW u \in {1, 2}, NEW t, InPlace(u, t)
  PROVE  origin.left[u] \in Versions /\ Published(origin.left[u], t)
BY DEF KrTypes, OriginFits, InPlace, Published

\* A list of checks that finds nothing wrong has found every condition true.
LEMMA VerdictOk ==
  ASSUME NEW a, NEW b, NEW c, NEW x, NEW y, NEW z, x # "ok", y # "ok", z # "ok",
         Verdict(<< <<a, x>>, <<b, y>>, <<c, z>> >>) = "ok"
  PROVE  a /\ b /\ c
<1> DEFINE S == << <<a, x>>, <<b, y>>, <<c, z>> >>
           failed == {k \in DOMAIN S : ~S[k][1]}
<1>1. DOMAIN S = 1..3 /\ S[1] = <<a, x>> /\ S[2] = <<b, y>> /\ S[3] = <<c, z>>
  OBVIOUS
<1>2. \A k \in DOMAIN S : S[k][2] # "ok"
  BY <1>1
<1>3. failed = {} \/ S[CHOOSE k \in failed : \A l \in failed : k <= l][2] = "ok"
  BY DEF Verdict
<1>4. failed # {} => \E k \in failed : \A l \in failed : k <= l
  BY <1>1
<1>5. failed # {} => (CHOOSE k \in failed : \A l \in failed : k <= l) \in failed
  BY <1>4
<1>6. failed = {}
  BY <1>2, <1>3, <1>5
<1> QED
  BY <1>1, <1>6

(***************************************************************************)
(* Steps that leave the issuer and the clock alone.                        *)
(***************************************************************************)

\* What a step may make of the cache of keys, and of discovery documents.
CacheStep ==
  \/ cache' = cache
  \/ \E k \in {0} \cup Versions :
       /\ cache' = [keys |-> k, expires_at |-> time + CACHE_TTL]
       /\ k # 0 => Published(k, time - DISCOVERY_TTL - 3 * TIMEOUT)
DiscoveryStep ==
  \/ discovery' \in {discovery, Nothing}
  \/ \E u \in {1, 2} : discovery' = [uri |-> u, inserted_at |-> time] /\ InPlace(u, time - TIMEOUT)

\* The issuer and the time of a step.
Still == time' = time /\ origin' = origin /\ retired' = retired

\* While the issuer and the clock stay, a call is as much in order as before.
LEMMA StillFits ==
  ASSUME KrTypes, Still, NEW r, FetchFits(r)
  PROVE  FetchFits(r)'
BY DEF Still, FetchFits, Published, InPlace

\* The caches stay in order.
LEMMA CachesKeep ==
  ASSUME KrInv, Still, CacheStep, DiscoveryStep, call' \in [Callers -> CallStates]
  PROVE  /\ KrTypes' /\ OriginFits' /\ CacheFits' /\ DiscoveryFits'
         /\ \A r \in CallStates : r.sent <= time /\ ServesFits(r) => ServesFits(r)'
<1>1. CacheFits' /\ (cache' # Nothing => cache' \in [keys : {0} \cup Versions, expires_at : Nat])
  <2>1. CASE cache' = cache
    BY <2>1 DEF KrInv, KrTypes, CacheFits, Published, Still
  <2>2. CASE cache' # cache
    <3>1. PICK k \in {0} \cup Versions :
            /\ cache' = [keys |-> k, expires_at |-> time + CACHE_TTL]
            /\ k # 0 => Published(k, time - DISCOVERY_TTL - 3 * TIMEOUT)
      BY <2>2 DEF CacheStep
    <3>2. time \in Nat /\ time + CACHE_TTL \in Nat
      BY TtlsNat DEF KrInv, KrTypes
    <3>3. time + CACHE_TTL - CACHE_TTL - DISCOVERY_TTL - 3 * TIMEOUT = time - DISCOVERY_TTL - 3 * TIMEOUT
      BY <3>2, TtlsNat
    <3>4. cache'.keys = k /\ cache'.expires_at = time + CACHE_TTL
      BY <3>1
    <3>5. k # 0 => Published(k, time + CACHE_TTL - CACHE_TTL - DISCOVERY_TTL - 3 * TIMEOUT)
      BY <3>1, <3>3
    <3>6. cache'.keys # 0 =>
            Published(cache.keys, cache.expires_at - CACHE_TTL - DISCOVERY_TTL - 3 * TIMEOUT)'
      <4>1. retired[k] = Nothing \/ retired[k] \in Nat \/ k = 0
        BY DEF KrInv, KrTypes
      <4>2. cache'.expires_at = time + CACHE_TTL /\ time \in Nat /\ cache'.keys = k
        BY <3>2, <3>4
      <4> QED
        BY <3>5, <4>1, <4>2, TtlsNat DEF Published, Still
    <3>7. cache'.expires_at <= time' + CACHE_TTL
      BY <3>2, <3>4, TtlsNat DEF Still
    <3>8. CacheFits'
      BY <3>6, <3>7 DEF CacheFits
    <3> QED
      BY <3>1, <3>2, <3>8
  <2> QED
    BY <2>1, <2>2
<1>2. DiscoveryFits' /\ (discovery' # Nothing => discovery' \in [uri : {1, 2}, inserted_at : Nat])
  <2>1. CASE discovery' \in {discovery, Nothing}
    BY <2>1 DEF KrInv, KrTypes, DiscoveryFits, InPlace, Still
  <2>2. CASE discovery' \notin {discovery, Nothing}
    <3>1. PICK u \in {1, 2} : discovery' = [uri |-> u, inserted_at |-> time] /\ InPlace(u, time - TIMEOUT)
      BY <2>2 DEF DiscoveryStep
    <3>2. discovery'.uri = u /\ discovery'.inserted_at = time /\ time \in Nat
      BY <3>1 DEF KrInv, KrTypes
    <3>3. DiscoveryFits'
      BY <3>1, <3>2 DEF DiscoveryFits, InPlace, Still
    <3> QED
      BY <3>1, <3>2, <3>3
  <2> QED
    BY <2>1, <2>2
<1>3. KrTypes' /\ OriginFits'
  BY <1>1, <1>2 DEF KrInv, KrTypes, OriginFits, Still
<1>4. ASSUME NEW r \in CallStates, r.sent <= time, ServesFits(r) PROVE ServesFits(r)'
  <2>1. r.sent \in Nat /\ time \in Nat
    BY DEF KrInv, KrTypes, CallStates
  <2>2. CASE cache' = cache
    BY <1>4, <2>2 DEF ServesFits
  <2>3. CASE cache' # cache
    <3>1. PICK k \in {0} \cup Versions : cache' = [keys |-> k, expires_at |-> time + CACHE_TTL]
      BY <2>3 DEF CacheStep
    <3>2. cache' \in [keys : Nat, expires_at : Nat]
      BY <2>1, <3>1, TtlsNat, VersionsNat
    <3>3. cache' # Nothing /\ cache'.expires_at = time + CACHE_TTL
      BY <3>1, <3>2, KeyResolutionAssumption
    <3> QED
      BY <1>4, <2>1, <3>3, TtlsNat DEF ServesFits
  <2> QED
    BY <2>2, <2>3
<1> QED
  BY <1>1, <1>2, <1>3, <1>4

\* A step of one caller: the others stay in order.
LEMMA CallKeeps ==
  ASSUME KrInv, NEW c \in Callers, NEW r \in CallStates, Step(c, r), Still, CacheStep, DiscoveryStep,
         FetchFits(r), ServesFits(r)', GuardFits(r)
  PROVE  KrInv'
<1>1. /\ call' \in [Callers -> CallStates] /\ call'[c] = r
      /\ \A d \in Callers : d # c => call'[d] = call[d]
  BY DEF Step, KrInv, KrTypes
<1>2. /\ KrTypes' /\ OriginFits' /\ CacheFits' /\ DiscoveryFits'
      /\ \A q \in CallStates : q.sent <= time /\ ServesFits(q) => ServesFits(q)'
  BY <1>1, CachesKeep
<1>3. ASSUME NEW d \in Callers PROVE (FetchFits(call[d]) /\ ServesFits(call[d]) /\ GuardFits(call[d]))'
  <2>1. PICK q \in CallStates : q = call'[d]
    BY <1>1
  <2>2. FetchFits(q) /\ GuardFits(q) /\ ServesFits(q)'
    <3>1. CASE d = c
      BY <1>1, <2>1, <3>1
    <3>2. CASE d # c
      <4>1. q = call[d]
        BY <1>1, <2>1, <3>2
      <4>2. FetchFits(q) /\ GuardFits(q) /\ ServesFits(q)
        BY <4>1 DEF KrInv
      <4> QED
        BY <1>2, <4>2 DEF FetchFits
    <3> QED
      BY <3>1, <3>2
  <2>3. FetchFits(q)'
    BY <2>2, StillFits DEF KrInv
  <2>4. FetchFits(call[d])'
    BY <2>1, <2>3 DEF FetchFits
  <2>5. ServesFits(call[d])' /\ GuardFits(call[d])'
    BY <2>1, <2>2 DEF ServesFits, GuardFits
  <2> QED
    BY <2>4, <2>5
<1> QED
  BY <1>2, <1>3 DEF KrInv

\* A step of one caller to a state in which it waits for nothing.
LEMMA CallRests ==
  ASSUME KrInv, NEW c \in Callers, NEW x \in {"idle", "resolve"},
         Step(c, [Idle EXCEPT !.pc = x]), Still, CacheStep, DiscoveryStep
  PROVE  KrInv'
<1>1. PICK r : r = [Idle EXCEPT !.pc = x]
  OBVIOUS
<1>2. r = [pc |-> x, sent |-> 0, uri |-> Nothing, fetched |-> Nothing, to |-> {}]
  BY <1>1 DEF Idle
<1>3. r \in CallStates /\ time \in Nat
  BY <1>2 DEF CallStates, KrInv, KrTypes
<1>4. FetchFits(r) /\ ServesFits(r)' /\ GuardFits(r)
  BY <1>2, <1>3 DEF FetchFits, ServesFits, GuardFits, Fetches
<1>5. Step(c, r)
  BY <1>1
<1> QED
  BY <1>3, <1>4, <1>5, CallKeeps

\* resolve_local stores pinned keys or nothing.
LEMMA ResolveLocalStep ==
  ASSUME ResolveLocal
  PROVE  CacheStep
BY DEF ResolveLocal, Store, CacheStep

\* The initial state.
LEMMA KrInitInv == KrInit => KrInv
<1> SUFFICES ASSUME KrInit PROVE KrInv
  OBVIOUS
<1>1. \A c \in Callers : call[c] = [pc |-> "idle", sent |-> 0, uri |-> Nothing, fetched |-> Nothing, to |-> {}]
  BY DEF KrInit, Idle
<1>2. KrTypes
  BY <1>1, VersionsNat DEF KrInit, KrTypes, CallStates, Idle
<1>3. OriginFits /\ CacheFits /\ DiscoveryFits
  BY VersionsNat DEF KrInit, OriginFits, CacheFits, DiscoveryFits
<1>4. \A c \in Callers : FetchFits(call[c]) /\ ServesFits(call[c]) /\ GuardFits(call[c])
  BY <1>1 DEF KrInit, FetchFits, ServesFits, GuardFits, Fetches
<1> QED
  BY <1>2, <1>3, <1>4 DEF KrInv

(***************************************************************************)
(* The actions.                                                            *)
(***************************************************************************)

\* A caller that finds no keys at hand starts to fetch: the discovery document
\* first, or the keys, from where a document that is fresh says they are.
LEMMA PrefetchInv ==
  ASSUME KrInv, NEW c \in Callers, Prefetch(c)
  PROVE  KrInv'
<1>1. Still /\ discovery' = discovery /\ ResolveLocal
  BY DEF Prefetch, Still
<1>2. CacheStep /\ DiscoveryStep
  BY <1>1, ResolveLocalStep DEF DiscoveryStep
<1>3. CASE Step(c, [Idle EXCEPT !.pc = "resolve"])
  BY <1>1, <1>2, <1>3, CallRests
<1>4. CASE Step(c, [Idle EXCEPT !.pc = FirstFetch, !.sent = time, !.uri = KnownUri])
  <2>1. PICK r : r = [Idle EXCEPT !.pc = FirstFetch, !.sent = time, !.uri = KnownUri]
    OBVIOUS
  <2>2. r = [pc |-> FirstFetch, sent |-> time, uri |-> KnownUri, fetched |-> Nothing, to |-> {}]
    BY <2>1 DEF Idle
  <2>3. \/ FirstFetch = "discovery" /\ KnownUri = Nothing
        \/ /\ FirstFetch = "jwks" /\ KnownUri \in {1, 2} /\ KnownUri = discovery.uri
           /\ discovery # Nothing /\ time - discovery.inserted_at < DISCOVERY_TTL
    BY DEF FirstFetch, KnownUri, KrInv, KrTypes
  <2>4. time \in Nat
    BY DEF KrInv, KrTypes
  <2>5. r \in CallStates
    BY <2>2, <2>3, <2>4 DEF CallStates, Fetches
  <2>6. FirstFetch = "jwks" => InPlace(KnownUri, time - DISCOVERY_TTL - TIMEOUT)
    <3> SUFFICES ASSUME FirstFetch = "jwks" PROVE InPlace(KnownUri, time - DISCOVERY_TTL - TIMEOUT)
      OBVIOUS
    <3>1. /\ KnownUri \in {1, 2} /\ KnownUri = discovery.uri
          /\ discovery # Nothing /\ time - discovery.inserted_at < DISCOVERY_TTL
      BY <2>3
    <3>2. discovery.inserted_at \in Nat /\ InPlace(KnownUri, discovery.inserted_at - TIMEOUT)
      BY <3>1 DEF KrInv, KrTypes, DiscoveryFits
    <3>3. /\ time - DISCOVERY_TTL - TIMEOUT \in Int /\ discovery.inserted_at - TIMEOUT \in Int
          /\ time - DISCOVERY_TTL - TIMEOUT <= discovery.inserted_at - TIMEOUT
      BY <2>4, <3>1, <3>2, TtlsNat
    <3> QED
      BY <3>1, <3>2, <3>3, InPlaceEarlier DEF KrInv
  <2>7. /\ r.pc = FirstFetch /\ r.sent = time /\ r.uri = KnownUri /\ r.fetched = Nothing /\ r.to = {}
        /\ FirstFetch \in {"discovery", "jwks"}
    BY <2>2, <2>3
  <2>8. FetchFits(r)
    BY <2>3, <2>4, <2>6, <2>7, TtlsNat DEF FetchFits
  <2>9. ServesFits(r)' /\ GuardFits(r)
    BY <2>7 DEF ServesFits, GuardFits
  <2> QED
    BY <1>1, <1>2, <1>4, <2>1, <2>5, <2>8, <2>9, CallKeeps
<1> QED
  BY <1>3, <1>4 DEF Prefetch

\* A failed fetch: the native endpoint is next, or the failure is remembered.
LEMMA FailedInv ==
  ASSUME KrInv, NEW c \in Callers, Failed(c), Still, discovery' = discovery
  PROVE  KrInv'
<1>1. DiscoveryStep
  BY DEF DiscoveryStep
<1>2. CASE Step(c, [Idle EXCEPT !.pc = "resolve"]) /\ StoreFailure
  <2>1. CacheStep
    BY <1>2 DEF StoreFailure, CacheStep
  <2> QED
    BY <1>1, <1>2, <2>1, CallRests
<1>3. CASE Step(c, [Idle EXCEPT !.pc = "aitp-keys", !.sent = time]) /\ UNCHANGED <<cache, negative>>
  <2>1. PICK r : r = [Idle EXCEPT !.pc = "aitp-keys", !.sent = time]
    OBVIOUS
  <2>2. r = [pc |-> "aitp-keys", sent |-> time, uri |-> Nothing, fetched |-> Nothing, to |-> {}]
    BY <2>1 DEF Idle
  <2>3. time \in Nat /\ CacheStep
    BY <1>3 DEF KrInv, KrTypes, CacheStep
  <2>4. r \in CallStates
    BY <2>2, <2>3 DEF CallStates, Fetches
  <2>5. FetchFits(r) /\ ServesFits(r)' /\ GuardFits(r)
    BY <2>2, <2>3, TtlsNat DEF FetchFits, ServesFits, GuardFits
  <2> QED
    BY <1>1, <1>3, <2>1, <2>3, <2>4, <2>5, CallKeeps
<1> QED
  BY <1>2, <1>3 DEF Failed

\* The request goes out to the addresses that passed.
LEMMA SendRequestInv ==
  ASSUME KrInv, NEW c \in Callers, NEW dns \in DnsAnswers, NEW cert, SendRequest(c, dns, cert)
  PROVE  KrInv'
<1>1. /\ Still /\ discovery' = discovery /\ call[c].pc \in Fetches /\ call[c].fetched = Nothing
      /\ call[c] \in CallStates
  BY DEF SendRequest, Still, KrInv, KrTypes
<1>2. CASE Failed(c)
  BY <1>1, <1>2, FailedInv
<1>3. CASE /\ ResolveChecked(GUARD_MODE, ALLOW_LOOPBACK, dns, Nothing) = "ok" /\ UNCHANGED <<cache, negative>>
           /\ Step(c, [call[c] EXCEPT !.sent = time, !.fetched = Served(c), !.to = dns])
  <2>0. PICK r : r = [call[c] EXCEPT !.sent = time, !.fetched = Served(c), !.to = dns]
    OBVIOUS
  <2>1. r = [pc |-> call[c].pc, sent |-> time, uri |-> call[c].uri, fetched |-> Served(c), to |-> dns]
    BY <1>1, <2>0 DEF CallStates
  <2>2. /\ time \in Nat /\ CacheStep /\ DiscoveryStep /\ FetchFits(call[c])
        /\ origin.uri \in {1, 2} /\ origin.version \in Versions
    BY <1>1, <1>3 DEF KrInv, KrTypes, CacheStep, DiscoveryStep
  <2>3. /\ call[c].pc = "discovery" => Served(c) = origin.uri
        /\ call[c].pc = "aitp-keys" => Served(c) = origin.version
        /\ call[c].pc = "jwks" => Served(c) = origin.left[call[c].uri]
    BY DEF Served
  <2>4. call[c].pc = "jwks" =>
          Served(c) \in Versions /\ Published(Served(c), time - DISCOVERY_TTL - 2 * TIMEOUT)
    <3> SUFFICES ASSUME call[c].pc = "jwks"
                 PROVE  Served(c) \in Versions /\ Published(Served(c), time - DISCOVERY_TTL - 2 * TIMEOUT)
      OBVIOUS
    <3>1. call[c].uri \in {1, 2} /\ InPlace(call[c].uri, call[c].sent - DISCOVERY_TTL - TIMEOUT)
      BY <1>1, <2>2 DEF FetchFits
    <3>2. Served(c) \in Versions /\ Published(Served(c), call[c].sent - DISCOVERY_TTL - TIMEOUT)
      BY <2>3, <3>1, PlaceServes DEF KrInv
    <3>3. call[c].sent \in Nat /\ time <= call[c].sent + TIMEOUT
      BY <1>1, <2>2 DEF CallStates, FetchFits
    <3>4. /\ time - DISCOVERY_TTL - 2 * TIMEOUT \in Int /\ call[c].sent - DISCOVERY_TTL - TIMEOUT \in Int
          /\ time - DISCOVERY_TTL - 2 * TIMEOUT <= call[c].sent - DISCOVERY_TTL - TIMEOUT
      BY <2>2, <3>3, TtlsNat
    <3> QED
      BY <3>2, <3>4, PublishedEarlier DEF KrInv
  <2>5. Served(c) \in {1, 2} \cup Versions
    BY <1>1, <2>2, <2>3, <2>4 DEF Fetches
  <2>6. r \in CallStates
    BY <1>1, <2>1, <2>2, <2>5 DEF CallStates
  <2>7. /\ r.pc = call[c].pc /\ r.sent = time /\ r.uri = call[c].uri /\ r.fetched = Served(c) /\ r.to = dns
        /\ Served(c) # Nothing
    <3>1. Served(c) \in Nat
      <4>1. 1 \in Nat /\ 2 \in Nat
        OBVIOUS
      <4> QED
        BY <2>5, <4>1, VersionsNat
    <3>2. Served(c) # Nothing
      BY <3>1, KeyResolutionAssumption
    <3> QED
      BY <2>1, <3>2
  <2>8. FetchFits(r)
    <3>1. r.pc = "jwks" => r.uri \in {1, 2}
      BY <2>2, <2>7 DEF FetchFits
    <3>2. r.sent <= time /\ time <= r.sent + TIMEOUT
      BY <2>2, <2>7, TtlsNat
    <3>3. /\ r.pc = "discovery" => r.fetched \in {1, 2} /\ InPlace(r.fetched, r.sent)
          /\ r.pc = "aitp-keys" => r.fetched \in Versions /\ Published(r.fetched, r.sent)
      BY <2>2, <2>3, <2>7 DEF InPlace, Published
    <3>4. r.pc = "jwks" =>
            r.fetched \in Versions /\ Published(r.fetched, r.sent - DISCOVERY_TTL - 2 * TIMEOUT)
      BY <2>4, <2>7
    <3> QED
      BY <2>7, <3>1, <3>2, <3>3, <3>4 DEF FetchFits
  <2>9. ServesFits(r)' /\ GuardFits(r)
    BY <1>1, <1>3, <2>7 DEF ServesFits, GuardFits, Fetches
  <2> QED
    BY <1>1, <1>3, <2>0, <2>2, <2>6, <2>8, <2>9, CallKeeps
<1> QED
  BY <1>2, <1>3 DEF SendRequest

\* The discovery document arrives: it is remembered, and its place asked.
LEMMA DiscoveryArrivesInv ==
  ASSUME KrInv, NEW c \in Callers, DiscoveryArrives(c)
  PROVE  KrInv'
<1> DEFINE u == call[c].fetched
<1>1. /\ Still /\ cache' = cache /\ call[c].pc = "discovery" /\ u # Nothing
      /\ Step(c, [Idle EXCEPT !.pc = "jwks", !.sent = time, !.uri = u])
      /\ discovery' \in {discovery, [uri |-> u, inserted_at |-> time]}
  BY DEF DiscoveryArrives, Arrived, Still
<1>2. /\ u \in {1, 2} /\ InPlace(u, call[c].sent) /\ call[c].sent \in Nat /\ time \in Nat
      /\ time <= call[c].sent + TIMEOUT
  BY <1>1 DEF KrInv, KrTypes, CallStates, FetchFits, Fetches
<1>3. /\ time - TIMEOUT \in Int /\ time - TIMEOUT <= call[c].sent /\ call[c].sent \in Int
      /\ time - DISCOVERY_TTL - TIMEOUT \in Int /\ time - DISCOVERY_TTL - TIMEOUT <= call[c].sent
  BY <1>2, TtlsNat
<1>4. InPlace(u, time - TIMEOUT) /\ InPlace(u, time - DISCOVERY_TTL - TIMEOUT)
  BY <1>2, <1>3, InPlaceEarlier DEF KrInv
<1>5. CacheStep /\ DiscoveryStep
  BY <1>1, <1>2, <1>4 DEF CacheStep, DiscoveryStep
<1>6. PICK r : r = [Idle EXCEPT !.pc = "jwks", !.sent = time, !.uri = u]
  OBVIOUS
<1>7. r = [pc |-> "jwks", sent |-> time, uri |-> u, fetched |-> Nothing, to |-> {}]
  BY <1>6 DEF Idle
<1>8. r \in CallStates
  BY <1>2, <1>7 DEF CallStates, Fetches
<1>9. FetchFits(r)
  BY <1>2, <1>4, <1>7, TtlsNat DEF FetchFits
<1>10. ServesFits(r)' /\ GuardFits(r)
  BY <1>7 DEF ServesFits, GuardFits
<1> QED
  BY <1>1, <1>5, <1>6, <1>8, <1>9, <1>10, CallKeeps

\* The keys arrive, and are as old as the fetch and the place allow.
LEMMA KeysArriveInv ==
  ASSUME KrInv, NEW c \in Callers, KeysArrive(c)
  PROVE  KrInv'
<1> DEFINE v == call[c].fetched
<1>1. /\ Still /\ discovery' = discovery /\ call[c].pc \in {"jwks", "aitp-keys"} /\ v # Nothing
      /\ Step(c, [Idle EXCEPT !.pc = "resolve", !.sent = time, !.fetched = v])
      /\ cache' = [keys |-> v, expires_at |-> time + CACHE_TTL]
  BY DEF KeysArrive, Arrived, Still, Store
<1>2. call[c].sent \in Nat /\ time \in Nat /\ time <= call[c].sent + TIMEOUT /\ v \in Versions
  BY <1>1 DEF KrInv, KrTypes, CallStates, FetchFits, Fetches
<1>3. /\ time - DISCOVERY_TTL - 3 * TIMEOUT \in Int
      /\ call[c].sent \in Int /\ call[c].sent - DISCOVERY_TTL - 2 * TIMEOUT \in Int
      /\ time - DISCOVERY_TTL - 3 * TIMEOUT <= call[c].sent
      /\ time - DISCOVERY_TTL - 3 * TIMEOUT <= call[c].sent - DISCOVERY_TTL - 2 * TIMEOUT
  BY <1>2, TtlsNat
<1>4. \/ Published(v, call[c].sent)
      \/ Published(v, call[c].sent - DISCOVERY_TTL - 2 * TIMEOUT)
  BY <1>1 DEF KrInv, FetchFits
<1>5. Published(v, time - DISCOVERY_TTL - 3 * TIMEOUT)
  BY <1>2, <1>3, <1>4, PublishedEarlier DEF KrInv
<1>6. CacheStep /\ DiscoveryStep
  BY <1>1, <1>2, <1>5 DEF CacheStep, DiscoveryStep
<1>7. PICK r : r = [Idle EXCEPT !.pc = "resolve", !.sent = time, !.fetched = v]
  OBVIOUS
<1>8. r = [pc |-> "resolve", sent |-> time, uri |-> Nothing, fetched |-> v, to |-> {}]
  BY <1>7 DEF Idle
<1>9. r \in CallStates
  BY <1>2, <1>8 DEF CallStates
<1>10. FetchFits(r) /\ GuardFits(r)
  BY <1>2, <1>8 DEF FetchFits, GuardFits, Fetches
<1>11. ServesFits(r)'
  <2>1. cache' \in [keys : Nat, expires_at : Nat]
    BY <1>1, <1>2, TtlsNat, VersionsNat
  <2>2. cache' # Nothing /\ cache'.expires_at = time + CACHE_TTL
    BY <1>1, <2>1, KeyResolutionAssumption
  <2> QED
    BY <1>2, <1>8, <2>2, TtlsNat DEF ServesFits
<1> QED
  BY <1>1, <1>6, <1>7, <1>9, <1>10, <1>11, CallKeeps

\* The issuer rotates its keys: what was published is retired now, and a
\* place that is left was the issuer's until now.
LEMMA RotateInv ==
  ASSUME KrInv, NEW moved \in BOOLEAN, Rotate(moved)
  PROVE  KrInv'
<1> DEFINE v == origin.version + 1
           u == IF moved THEN 3 - origin.uri ELSE origin.uri
<1>1. /\ origin.version < Len(KeySets)
      /\ origin' = [version |-> v, uri |-> u, left |-> [origin.left EXCEPT ![u] = v]]
      /\ retired' = [retired EXCEPT ![origin.version] = time]
      /\ time' = time /\ cache' = cache /\ discovery' = discovery /\ call' = call
  BY DEF Rotate
<1>2. /\ origin.version \in Versions /\ v \in Versions /\ v # origin.version /\ time \in Nat
      /\ origin.uri \in {1, 2} /\ u \in {1, 2} /\ origin.left \in [{1, 2} -> Versions]
  BY <1>1, KeyResolutionAssumption DEF KrInv, KrTypes, Versions
<1>3. retired \in [Versions -> Nat \cup {Nothing}] /\ retired[origin.version] = Nothing
  <2>1. origin.version >= origin.version
    BY <1>2, VersionsNat
  <2> QED
    BY <1>2, <2>1 DEF KrInv, KrTypes, OriginFits
<1>4. /\ retired' \in [Versions -> Nat \cup {Nothing}] /\ retired'[origin.version] = time
      /\ \A w \in Versions : w # origin.version => retired'[w] = retired[w]
  BY <1>1, <1>2, <1>3
<1>5. /\ origin'.version = v /\ origin'.uri = u /\ origin'.left \in [{1, 2} -> Versions]
      /\ origin'.left[u] = v /\ \A w \in {1, 2} : w # u => origin'.left[w] = origin.left[w]
  BY <1>1, <1>2
<1> HIDE DEF u
<1>6. KrTypes'
  BY <1>1, <1>2, <1>4, <1>5 DEF KrInv, KrTypes
<1>7. OriginFits'
  <2>1. ASSUME NEW w \in Versions, w >= v PROVE retired'[w] = Nothing
    <3>1. w >= origin.version /\ w # origin.version
      <4>1. w \in Nat /\ origin.version \in Nat
        BY <1>2, VersionsNat
      <4> QED
        BY <2>1, <4>1
    <3> QED
      BY <1>4, <3>1 DEF KrInv, OriginFits
  <2> QED
    BY <1>5, <2>1 DEF OriginFits
<1>8. ASSUME NEW w \in Versions, NEW t \in Int, t <= time, Published(w, t)
      PROVE  Published(w, t)'
  <2>1. CASE w = origin.version
    BY <1>2, <1>4, <1>8, <2>1, KeyResolutionAssumption DEF Published
  <2>2. CASE w # origin.version
    BY <1>4, <1>8, <2>2 DEF Published
  <2> QED
    BY <2>1, <2>2
<1>9. ASSUME NEW w \in {1, 2}, NEW t \in Int, t <= time, InPlace(w, t)
      PROVE  InPlace(w, t)'
  <2>1. CASE w = u
    BY <1>5, <2>1 DEF InPlace
  <2>2. CASE w # u /\ w = origin.uri
    <3>1. origin'.left[w] = origin.version
      BY <1>5, <2>2 DEF KrInv, OriginFits
    <3> QED
      BY <1>2, <1>4, <1>9, <3>1, KeyResolutionAssumption DEF InPlace
  <2>3. CASE w # u /\ w # origin.uri
    <3>1. origin'.left[w] = origin.left[w] /\ origin.left[w] \in Versions
      BY <1>2, <1>5, <2>3
    <3>2. retired[origin.left[w]] # Nothing /\ retired[origin.left[w]] >= t
      BY <1>9, <2>3 DEF InPlace
    <3>3. retired'[origin'.left[w]] = retired[origin.left[w]]
      BY <1>3, <1>4, <3>1, <3>2
    <3> QED
      BY <3>2, <3>3 DEF InPlace
  <2> QED
    BY <2>1, <2>2, <2>3
<1>10. CacheFits'
  <2> SUFFICES ASSUME cache # Nothing
               PROVE  /\ cache.expires_at <= time + CACHE_TTL
                      /\ cache.keys # 0 =>
                           Published(cache.keys, cache.expires_at - CACHE_TTL - DISCOVERY_TTL - 3 * TIMEOUT)'
    BY <1>1 DEF CacheFits, Published
  <2>1. PICK k, e : k = cache.keys /\ e = cache.expires_at
    OBVIOUS
  <2>2. k \in {0} \cup Versions /\ e \in Nat /\ e <= time + CACHE_TTL
    BY <2>1 DEF KrInv, KrTypes, CacheFits
  <2>3. PICK t \in Int : t = e - CACHE_TTL - DISCOVERY_TTL - 3 * TIMEOUT
    BY <2>2, TtlsNat
  <2>4. t <= time
    BY <1>2, <2>2, <2>3, TtlsNat
  <2>5. k # 0 => Published(k, t)
    BY <2>1, <2>3 DEF KrInv, CacheFits
  <2>6. k # 0 => Published(k, t)'
    BY <1>8, <2>2, <2>4, <2>5
  <2> QED
    BY <1>1, <2>1, <2>2, <2>3, <2>6 DEF Published
<1>11. DiscoveryFits'
  <2>1. PICK w, e : w = discovery.uri /\ e = discovery.inserted_at
    OBVIOUS
  <2>2. discovery # Nothing => w \in {1, 2} /\ e \in Nat /\ e <= time /\ InPlace(w, e - TIMEOUT)
    BY <2>1 DEF KrInv, KrTypes, DiscoveryFits
  <2>3. discovery # Nothing => e - TIMEOUT \in Int /\ e - TIMEOUT <= time
    BY <1>2, <2>2, TtlsNat
  <2>4. discovery # Nothing => InPlace(w, e - TIMEOUT)'
    BY <1>9, <2>2, <2>3
  <2> QED
    BY <1>1, <2>1, <2>2, <2>4 DEF DiscoveryFits, InPlace
<1>12. ASSUME NEW c \in Callers PROVE (FetchFits(call[c]) /\ ServesFits(call[c]) /\ GuardFits(call[c]))'
  <2>1. PICK q \in CallStates : q = call[c]
    BY DEF KrInv, KrTypes
  <2>2. FetchFits(q) /\ ServesFits(q) /\ GuardFits(q)
    BY <2>1 DEF KrInv
  <2>3. q.sent \in Nat /\ q.sent <= time
    BY <2>2 DEF CallStates, FetchFits
  <2>4. /\ q.sent \in Int
        /\ q.sent - DISCOVERY_TTL - TIMEOUT \in Int /\ q.sent - DISCOVERY_TTL - TIMEOUT <= time
        /\ q.sent - DISCOVERY_TTL - 2 * TIMEOUT \in Int /\ q.sent - DISCOVERY_TTL - 2 * TIMEOUT <= time
    BY <1>2, <2>3, TtlsNat
  <2>5. FetchFits(q)'
    <3>1. q.pc = "discovery" /\ q.fetched # Nothing => q.fetched \in {1, 2} /\ InPlace(q.fetched, q.sent)'
      BY <1>9, <2>2, <2>3, <2>4 DEF FetchFits
    <3>2. q.pc = "jwks" /\ q.fetched = Nothing => InPlace(q.uri, q.sent - DISCOVERY_TTL - TIMEOUT)'
      BY <1>9, <2>2, <2>4 DEF FetchFits
    <3>3. q.pc = "jwks" /\ q.fetched # Nothing =>
            q.fetched \in Versions /\ Published(q.fetched, q.sent - DISCOVERY_TTL - 2 * TIMEOUT)'
      BY <1>8, <2>2, <2>4 DEF FetchFits
    <3>4. q.pc = "aitp-keys" /\ q.fetched # Nothing => q.fetched \in Versions /\ Published(q.fetched, q.sent)'
      BY <1>8, <2>2, <2>3, <2>4 DEF FetchFits
    <3> QED
      BY <1>1, <2>2, <3>1, <3>2, <3>3, <3>4 DEF FetchFits
  <2>6. FetchFits(call[c])'
    BY <1>1, <2>1, <2>5 DEF FetchFits
  <2>7. ServesFits(call[c])' /\ GuardFits(call[c])'
    BY <1>1, <2>1, <2>2 DEF ServesFits, GuardFits
  <2> QED
    BY <2>6, <2>7
<1> QED
  BY <1>6, <1>7, <1>10, <1>11, <1>12 DEF KrInv

\* Time passes, but not beyond a request's timeout.
LEMMA KrTickInv ==
  ASSUME KrInv, KrTick
  PROVE  KrInv'
<1>1. /\ time' = time + 1 /\ time \in Nat /\ time' \in Nat /\ \A c \in Callers : ~Overdue(c)
      /\ origin' = origin /\ retired' = retired /\ cache' = cache /\ discovery' = discovery /\ call' = call
  BY DEF KrTick, KrInv, KrTypes
<1>2. KrTypes' /\ OriginFits'
  BY <1>1 DEF KrInv, KrTypes, OriginFits
<1>3. CacheFits'
  <2>1. cache # Nothing => cache.expires_at \in Nat
    BY DEF KrInv, KrTypes
  <2> QED
    BY <1>1, <2>1, TtlsNat DEF KrInv, CacheFits, Published
<1>4. DiscoveryFits'
  <2>1. discovery # Nothing => discovery.inserted_at \in Nat
    BY DEF KrInv, KrTypes
  <2> QED
    BY <1>1, <2>1 DEF KrInv, DiscoveryFits, InPlace
<1>5. ASSUME NEW c \in Callers PROVE (FetchFits(call[c]) /\ ServesFits(call[c]) /\ GuardFits(call[c]))'
  <2>1. PICK q \in CallStates : q = call[c]
    BY DEF KrInv, KrTypes
  <2>2. FetchFits(q) /\ ServesFits(q) /\ GuardFits(q)
    BY <2>1 DEF KrInv
  <2>3. q.sent \in Nat /\ q.sent <= time
    BY <2>2 DEF CallStates, FetchFits
  <2>4. q.pc \in Fetches => time' <= q.sent + TIMEOUT
    BY <1>1, <2>1, <2>3, TtlsNat DEF Overdue
  <2>5. q.sent <= time'
    BY <1>1, <2>3
  <2>6. FetchFits(call[c])'
    BY <1>1, <2>1, <2>2, <2>4, <2>5 DEF FetchFits, InPlace, Published
  <2>7. ServesFits(call[c])' /\ GuardFits(call[c])'
    BY <1>1, <2>1, <2>2 DEF ServesFits, GuardFits
  <2> QED
    BY <2>6, <2>7
<1> QED
  BY <1>2, <1>3, <1>4, <1>5 DEF KrInv

\* Every step keeps the invariant.
LEMMA KrNextInv == KrInv /\ [KrNext]_krVars => KrInv'
<1> SUFFICES ASSUME KrInv, [KrNext]_krVars PROVE KrInv'
  OBVIOUS
<1>1. ASSUME NEW c \in Callers, FetchFails(c) PROVE KrInv'
  BY <1>1, FailedInv DEF FetchFails, Still
<1>2. ASSUME NEW c \in Callers, Resolve(c) PROVE KrInv'
  <2>1. Still /\ CacheStep /\ DiscoveryStep /\ Step(c, Idle)
    BY <1>2, ResolveLocalStep DEF Resolve, Still, DiscoveryStep
  <2>2. Idle = [Idle EXCEPT !.pc = "idle"]
    BY DEF Idle
  <2>3. Step(c, [Idle EXCEPT !.pc = "idle"])
    BY <2>1, <2>2
  <2> QED
    BY <2>1, <2>3, CallRests
<1>3. CASE InvalidateDiscovery \/ UNCHANGED krVars
  <2>1. Still /\ CacheStep /\ DiscoveryStep /\ call' = call
    BY <1>3 DEF InvalidateDiscovery, krVars, Still, CacheStep, DiscoveryStep
  <2>2. CASE Callers # {}
    <3>1. PICK c \in Callers : TRUE
      BY <2>2
    <3>2. PICK r \in CallStates : r = call[c]
      BY DEF KrInv, KrTypes
    <3>3. FetchFits(r) /\ ServesFits(r) /\ GuardFits(r)
      BY <3>2 DEF KrInv
    <3>4. Step(c, r) /\ cache' = cache
      BY <1>3, <2>1, <3>2 DEF Step, KrInv, KrTypes, InvalidateDiscovery, krVars
    <3>5. ServesFits(r)'
      BY <3>3, <3>4 DEF ServesFits
    <3> QED
      BY <2>1, <3>3, <3>4, <3>5, CallKeeps
  <2>3. CASE Callers = {}
    <3>1. call' \in [Callers -> CallStates]
      BY <2>1 DEF KrInv, KrTypes
    <3> QED
      BY <2>1, <2>3, <3>1, CachesKeep DEF KrInv
  <2> QED
    BY <2>2, <2>3
<1>4. ASSUME NEW c \in Callers, Attempt(c) PROVE KrInv'
  BY <1>1, <1>4, SendRequestInv, DiscoveryArrivesInv, KeysArriveInv DEF Attempt
<1> QED
  BY <1>2, <1>3, <1>4, PrefetchInv, RotateInv, KrTickInv DEF KrNext

\* The invariant of key resolution: how long ago what a cache or a call holds
\* was the issuer's, and where requests have gone.
THEOREM ResolutionCorrect == KrSpec => []KrInv
BY KrInitInv, KrNextInv, PTL DEF KrSpec

\* KeysSurviveRaces: store and store_failure of prefetches that end in any
\* order leave no key set in use longer than the discovery document, three
\* timeouts and the cache account for, and none missing that the caller has
\* just fetched itself.
THEOREM KeysStayFresh == KrSpec => []KeysSurviveRaces
<1>1. ASSUME KrInv PROVE KeysNotOutdated
  <2> SUFFICES ASSUME Cached, cache.keys # 0, retired[cache.keys] # Nothing
               PROVE  time - retired[cache.keys] < MaxAge
    BY DEF KeysNotOutdated
  <2>1. /\ cache # Nothing /\ cache.expires_at > time /\ cache.expires_at \in Nat
        /\ cache.keys \in Versions /\ time \in Nat
    BY <1>1 DEF Cached, KrInv, KrTypes
  <2>2. Published(cache.keys, cache.expires_at - CACHE_TTL - DISCOVERY_TTL - 3 * TIMEOUT)
    BY <1>1, <2>1 DEF KrInv, CacheFits
  <2>3. retired[cache.keys] \in Nat
    BY <1>1, <2>1 DEF KrInv, KrTypes
  <2>4. retired[origin.version] = Nothing
    <3>1. origin.version \in Versions
      BY <1>1 DEF KrInv, KrTypes
    <3>2. origin.version >= origin.version
      BY <3>1, VersionsNat
    <3> QED
      BY <1>1, <3>1, <3>2 DEF KrInv, OriginFits
  <2>5. retired[cache.keys] >= cache.expires_at - CACHE_TTL - DISCOVERY_TTL - 3 * TIMEOUT
    BY <2>2, <2>4 DEF Published
  <2> QED
    BY <2>1, <2>3, <2>5, TtlsNat DEF MaxAge
<1>2. ASSUME KrInv PROVE OwnFetchServes
  <2> SUFFICES ASSUME NEW c \in Callers, call[c].pc = "resolve", call[c].fetched # Nothing,
                      time < call[c].sent + CACHE_TTL
               PROVE  ResolveOutcome = "Resolved" /\ Cached
    BY DEF OwnFetchServes
  <2>1. cache # Nothing /\ cache.expires_at >= call[c].sent + CACHE_TTL
    BY <1>2 DEF KrInv, ServesFits
  <2>2. call[c].sent \in Nat /\ time \in Nat /\ cache.expires_at \in Nat
    BY <1>2, <2>1 DEF KrInv, KrTypes, CallStates
  <2>3. Cached
    BY <2>1, <2>2, TtlsNat DEF Cached
  <2>4. LocalAnswer \in {"keys", "empty"}
    BY <2>3 DEF LocalAnswer, Resolved
  <2>5. ResolveAnswer \in {"keys", "empty"}
    BY <2>4, KeyResolutionAssumption DEF ResolveAnswer
  <2> QED
    BY <2>3, <2>5 DEF ResolveOutcome
<1>3. KrInv => KeysSurviveRaces
  BY <1>1, <1>2 DEF KeysSurviveRaces
<1> QED
  BY <1>3, ResolutionCorrect, PTL

\* OnlyPermittedAddresses: fetch_https_json connects to the very addresses
\* that passed net_guard, whatever the name resolves to the next time.
THEOREM RequestsGuarded == KrSpec => []OnlyPermittedAddresses
<1>1. ASSUME KrInv, NEW c \in Callers, NEW ip \in call[c].to, GUARD_MODE # "AllowAll"
      PROVE  Permitted(GUARD_MODE, ALLOW_LOOPBACK, ip)
  <2> DEFINE dns == call[c].to
  <2>1. ResolveChecked(GUARD_MODE, ALLOW_LOOPBACK, dns, Nothing) = "ok"
    BY <1>1 DEF KrInv, GuardFits
  <2>2. /\ dns # Nothing
        /\ \/ dns = Nothing \/ GUARD_MODE = "AllowAll"
           \/ \A x \in dns : Permitted(GUARD_MODE, ALLOW_LOOPBACK, x)
    BY <2>1, VerdictOk DEF ResolveChecked
  <2> QED
    BY <1>1, <2>2
<1>2. KrInv => OnlyPermittedAddresses
  BY <1>1 DEF OnlyPermittedAddresses
<1> QED
  BY <1>2, ResolutionCorrect, PTL

(***************************************************************************)
(* The revocation fetcher.                                                 *)
(***************************************************************************)

\* A new fetcher (RevocationFetcher::new) satisfies the invariant.
LEMMA InitInv == Init => FetcherInv
  BY ConstantAssumption DEF Init, FetcherInv, CacheOK, StatusOK

\* A list a producer signs holds back no earlier revocation.
LEMMA ProducedHonest ==
  ASSUME FetcherInv, NEW i \in Producers, NEW s \in Produced(i)
  PROVE  s \in Snapshot /\ s.issuer = i /\ Honest(s)
<1>1. PICK at \in 0..clock : \E R \in SUBSET {j \in Tokens : IssuerOf[j] = i /\ revoked_at[j] = at} :
        s = Signed(i, at, {j \in Tokens : IssuerOf[j] = i /\ revoked_at[j] \in 0..(at - 1)} \cup R)
  BY DEF Produced
<1>2. PICK R \in SUBSET {j \in Tokens : IssuerOf[j] = i /\ revoked_at[j] = at} :
        s = Signed(i, at, {j \in Tokens : IssuerOf[j] = i /\ revoked_at[j] \in 0..(at - 1)} \cup R)
  BY <1>1
<1>3. i \in Issuers /\ at \in Nat /\ at <= clock /\ clock \in Nat
      /\ Ahead[i] \in Nat /\ SnapshotTtl \in Nat
  BY <1>1, ConstantAssumption DEF FetcherInv
<1>4. /\ s \in Snapshot /\ s.issuer = i /\ s.published_at = at + Ahead[i]
      /\ s.revoked = {j \in Tokens : IssuerOf[j] = i /\ revoked_at[j] \in 0..(at - 1)} \cup R
  BY <1>2, <1>3 DEF Signed, Snapshot
<1>5. ASSUME NEW j \in Tokens, IssuerOf[j] = i, j \notin s.revoked, revoked_at[j] # None
      PROVE  at <= revoked_at[j]
  <2>1. revoked_at[j] \in Nat /\ revoked_at[j] \notin 0..(at - 1)
    BY <1>4, <1>5 DEF FetcherInv
  <2> QED
    BY <1>3, <2>1
<1>6. \A j \in Tokens : IssuerOf[j] = i /\ j \notin s.revoked /\ revoked_at[j] # None =>
        s.published_at <= revoked_at[j] + Ahead[i]
  BY <1>3, <1>4, <1>5 DEF FetcherInv
<1> QED
  BY <1>3, <1>4, <1>6 DEF Honest

\* So is every snapshot that a fetch may deliver.
LEMMA DeliverableHonest ==
  ASSUME FetcherInv, NEW s \in Deliverable
  PROVE  s \in Snapshot /\ Honest(s)
<1>1. CASE \E i \in Issuers : empty[i] # None /\ s = empty[i]
  BY <1>1 DEF FetcherInv
<1>2. CASE \E i \in Producers : s \in Produced(i)
  BY <1>2, ProducedHonest
<1> QED
  BY <1>1, <1>2 DEF Deliverable

\* A snapshot stays honest while time passes and when a token is revoked now.
LEMMA HonestStays ==
  ASSUME FetcherInv, NEW s \in Snapshot, Honest(s), clock' \in Nat, clock <= clock',
         \A j \in Tokens : revoked_at'[j] = revoked_at[j] \/ revoked_at'[j] = clock
  PROVE  Honest(s)'
<1>1. s.issuer \in Issuers /\ s.published_at \in Nat /\ Ahead[s.issuer] \in Nat /\ clock \in Nat
  BY ConstantAssumption DEF Snapshot, FetcherInv
<1> QED
  BY <1>1 DEF Honest, FetcherInv

\* A revocation happens now, later than any snapshot in use was signed.
LEMMA RevokeInv ==
  ASSUME FetcherInv, NEW j \in Tokens, Revoke(j)
  PROVE  FetcherInv'
<1>1. revoked_at' = [revoked_at EXCEPT ![j] = clock] /\ UNCHANGED <<empty, slot, queue, pc, peer, now, status, clock>>
  BY DEF Revoke, taskVars
<1>2. \A s \in Snapshot : Honest(s) => Honest(s)'
  BY <1>1, HonestStays DEF FetcherInv
<1>3. \A i \in Issuers : CacheOK(i)'
  BY <1>1, <1>2 DEF FetcherInv, CacheOK, Slot
<1>4. \A t \in Tasks : StatusOK(t)'
  BY <1>1, <1>2 DEF FetcherInv, StatusOK
<1>5. \A i \in Issuers : (empty[i] # None => i \notin Producers /\ empty[i].issuer = i /\ Honest(empty[i]))'
  BY <1>1, <1>2 DEF FetcherInv
<1>6. revoked_at' \in [Tokens -> Nat \cup {None}]
  BY <1>1 DEF FetcherInv
<1>7. \A k \in Tokens : (revoked_at[k] # None => IssuerOf[k] \in Producers /\ revoked_at[k] <= clock)'
  BY <1>1 DEF FetcherInv, Revoke
<1> QED
  BY <1>1, <1>3, <1>4, <1>5, <1>6, <1>7 DEF FetcherInv

\* An issuer without a producer never revokes: its empty list is true.
LEMMA ServeEmptyInv ==
  ASSUME FetcherInv, NEW i \in Issuers, ServeEmpty(i)
  PROVE  FetcherInv'
<1>1. UNCHANGED <<revoked_at, slot, queue, pc, peer, now, status, clock>>
  BY DEF ServeEmpty, taskVars
<1>2. \A s \in Snapshot : Honest(s) => Honest(s)'
  BY <1>1 DEF Honest
<1>3. Signed(i, clock, {}) \in Snapshot /\ Signed(i, clock, {}).issuer = i
      /\ Honest(Signed(i, clock, {}))
  <2>1. clock \in Nat /\ Ahead[i] \in Nat /\ SnapshotTtl \in Nat
    BY ConstantAssumption DEF FetcherInv
  <2>2. Signed(i, clock, {}) \in Snapshot
    BY <2>1 DEF Signed, Snapshot
  <2>3. Signed(i, clock, {}).issuer = i /\ Signed(i, clock, {}).published_at = clock + Ahead[i]
    BY DEF Signed
  <2>4. \A j \in Tokens : IssuerOf[j] = i => revoked_at[j] = None
    BY DEF ServeEmpty, FetcherInv
  <2> QED
    BY <2>1, <2>2, <2>3, <2>4 DEF Honest
<1>4. empty' \in [Issuers -> Snapshot \cup {None}]
      /\ \A k \in Issuers : (empty[k] # None => k \notin Producers /\ empty[k].issuer = k /\ Honest(empty[k]))'
  BY <1>1, <1>2, <1>3 DEF ServeEmpty, FetcherInv, Reusable
<1>5. \A k \in Issuers : CacheOK(k)'
  BY <1>1, <1>2 DEF FetcherInv, CacheOK, Slot
<1>6. \A t \in Tasks : StatusOK(t)'
  BY <1>1, <1>2 DEF FetcherInv, StatusOK
<1> QED
  BY <1>1, <1>4, <1>5, <1>6 DEF FetcherInv

\* What a call does to itself leaves the cache and the other calls alone.
LEMMA CallInv ==
  ASSUME FetcherInv, NEW t \in Tasks, UNCHANGED <<revoked_at, empty, clock>>,
         NEW step \in {"idle", "wait", "fetch", "decide"},
         NEW i \in Issuers \cup {None}, NEW at \in Nat, NEW s \in Snapshot \cup {None},
         pc' = [pc EXCEPT ![t] = step], peer' = [peer EXCEPT ![t] = i],
         now' = [now EXCEPT ![t] = at], status' = [status EXCEPT ![t] = s],
         step = "idle" <=> i = None, StatusOK(t)',
         slot' \in [Issuers -> Slot \cup {None}], \A k \in Issuers : CacheOK(k)'
  PROVE  FetcherInv'
<1>1. \A u \in Tasks : StatusOK(u)'
  <2> SUFFICES ASSUME NEW u \in Tasks, u # t PROVE StatusOK(u)'
    OBVIOUS
  <2>1. pc'[u] = pc[u] /\ peer'[u] = peer[u] /\ now'[u] = now[u] /\ status'[u] = status[u]
    BY DEF FetcherInv
  <2>2. status[u] # None => Honest(status[u])'
    BY DEF FetcherInv, StatusOK, Honest
  <2> QED
    BY <2>1, <2>2 DEF FetcherInv, StatusOK
<1>2. \A k \in Issuers : (empty[k] # None => k \notin Producers /\ empty[k].issuer = k /\ Honest(empty[k]))'
  BY DEF FetcherInv, Honest
<1>3. /\ pc' \in [Tasks -> {"idle", "wait", "fetch", "decide"}]
      /\ peer' \in [Tasks -> Issuers \cup {None}] /\ now' \in [Tasks -> Nat]
      /\ status' \in [Tasks -> Snapshot \cup {None}]
      /\ \A u \in Tasks : (pc[u] = "idle" <=> peer[u] = None)'
  BY DEF FetcherInv
<1> QED
  BY <1>1, <1>2, <1>3 DEF FetcherInv

\* The cache is as good as it was when no call has written to it.
LEMMA CacheStays ==
  ASSUME FetcherInv, UNCHANGED <<slot, revoked_at, clock>>
  PROVE  slot' \in [Issuers -> Slot \cup {None}] /\ \A k \in Issuers : CacheOK(k)'
  BY DEF FetcherInv, CacheOK, Honest

\* prepare reads the clock and queues, or has nothing to fetch.
LEMMA PrepareInv ==
  ASSUME FetcherInv, NEW t \in Tasks, NEW i \in Issuers, Prepare(t, i)
  PROVE  FetcherInv'
<1>1. PICK step \in {"wait", "decide"} : pc' = [pc EXCEPT ![t] = step]
  BY DEF Prepare, Goto
<1>2. status[t] = None
  BY DEF FetcherInv, StatusOK, Prepare
<1>3. /\ peer' = [peer EXCEPT ![t] = i] /\ now' = [now EXCEPT ![t] = clock]
      /\ UNCHANGED <<revoked_at, empty, slot, status, clock>>
  BY DEF Prepare, issuerVars
<1>4. status' = [status EXCEPT ![t] = None]
  BY <1>2, <1>3 DEF FetcherInv
<1>5. StatusOK(t)'
  BY <1>2, <1>3 DEF StatusOK
<1>6. slot' \in [Issuers -> Slot \cup {None}] /\ \A k \in Issuers : CacheOK(k)'
  BY <1>3, CacheStays
<1>7. clock \in Nat /\ i # None
  BY ConstantAssumption DEF FetcherInv
<1> QED
  BY <1>1, <1>3, <1>4, <1>5, <1>6, <1>7, CallInv

\* A call that has the slot uses what is cached, if it is fresh for it.
LEMMA EnterInv ==
  ASSUME FetcherInv, NEW t \in Tasks, Enter(t)
  PROVE  FetcherInv'
<1>1. /\ pc[t] = "wait" /\ peer[t] \in Issuers /\ now[t] \in Nat /\ peer[t] # None
      /\ UNCHANGED <<revoked_at, empty, slot, peer, now, clock>>
  BY DEF Enter, issuerVars, FetcherInv
<1>2. slot' \in [Issuers -> Slot \cup {None}] /\ \A k \in Issuers : CacheOK(k)'
  BY <1>1, CacheStays
<1>3. peer' = [peer EXCEPT ![t] = peer[t]] /\ now' = [now EXCEPT ![t] = now[t]]
  BY <1>1 DEF FetcherInv
<1>4. CASE slot[peer[t]] # None /\ Fresh(slot[peer[t]], now[t])
  <2> DEFINE c == slot[peer[t]]
  <2>1. pc' = [pc EXCEPT ![t] = "decide"] /\ status' = [status EXCEPT ![t] = c.snap]
    BY <1>4 DEF Enter, Goto
  <2>2. /\ c \in Slot /\ c.snap \in Snapshot /\ Honest(c.snap) /\ c.snap.issuer = peer[t]
        /\ c.cached_at - c.snap.published_at <= MaxStaleness
        /\ now[t] - c.cached_at <= CacheTtl /\ c.snap.expires_at >= now[t]
    BY <1>1, <1>4 DEF FetcherInv, CacheOK, Slot, Fresh
  <2>3. now[t] - c.snap.published_at <= MaxStaleness + CacheTtl
    BY <1>1, <2>2, ConstantAssumption DEF Slot, Snapshot
  <2>4. pc'[t] = "decide" /\ status'[t] = c.snap /\ peer'[t] = peer[t] /\ now'[t] = now[t]
    BY <1>1, <2>1 DEF FetcherInv
  <2>5. Honest(status[t])'
    BY <1>1, <2>2, <2>4 DEF Honest
  <2>6. StatusOK(t)'
    BY <2>2, <2>3, <2>4, <2>5 DEF StatusOK
  <2> QED
    BY <1>1, <1>2, <1>3, <2>1, <2>2, <2>6, CallInv
<1>5. CASE ~(slot[peer[t]] # None /\ Fresh(slot[peer[t]], now[t]))
  <2>1. pc' = [pc EXCEPT ![t] = "fetch"] /\ UNCHANGED status
    BY <1>5 DEF Enter, Goto
  <2>2. status[t] = None
    BY <1>1 DEF FetcherInv, StatusOK
  <2>3. status' = [status EXCEPT ![t] = None] /\ StatusOK(t)'
    BY <2>1, <2>2 DEF FetcherInv, StatusOK
  <2> QED
    BY <1>1, <1>2, <1>3, <2>1, <2>3, CallInv
<1> QED
  BY <1>4, <1>5

\* A fetched snapshot is cached and used if it verifies at the call's time.
LEMMA FetchedInv ==
  ASSUME FetcherInv, NEW t \in Tasks, NEW s \in Deliverable, Fetched(t, s)
  PROVE  FetcherInv'
<1> DEFINE ok == SnapshotVerified(s, peer[t], now[t])
<1>1. /\ pc[t] = "fetch" /\ peer[t] \in Issuers /\ now[t] \in Nat /\ peer[t] # None
      /\ UNCHANGED <<revoked_at, empty, peer, now, clock>>
      /\ pc' = [pc EXCEPT ![t] = "decide"]
  BY DEF Fetched, Goto, issuerVars, FetcherInv
<1>2. s \in Snapshot /\ Honest(s) /\ s # None
  BY DeliverableHonest, ConstantAssumption
<1>3. Honest(s)'
  BY <1>1, <1>2 DEF Honest
<1>4. peer' = [peer EXCEPT ![t] = peer[t]] /\ now' = [now EXCEPT ![t] = now[t]]
  BY <1>1 DEF FetcherInv
<1>5. CASE ok
  <2> DEFINE c == [snap |-> s, cached_at |-> now[t]]
  <2>1. slot' = [slot EXCEPT ![peer[t]] = c] /\ status' = [status EXCEPT ![t] = s]
    BY <1>5 DEF Fetched
  <2>2. s.expires_at >= now[t] /\ s.issuer = peer[t] /\ now[t] - s.published_at <= MaxStaleness
    BY <1>5 DEF SnapshotVerified, ListVerified
  <2>3. c \in Slot /\ slot' \in [Issuers -> Slot \cup {None}]
    BY <1>1, <1>2, <2>1 DEF FetcherInv, Slot
  <2>4. \A k \in Issuers : CacheOK(k)'
    <3> SUFFICES ASSUME NEW k \in Issuers PROVE CacheOK(k)'
      OBVIOUS
    <3>1. CASE k = peer[t]
      <4>1. slot'[k] = c
        BY <2>1, <3>1 DEF FetcherInv
      <4>2. c.snap = s /\ c.cached_at = now[t]
        OBVIOUS
      <4> HIDE DEF c
      <4>3. Honest(s)' = Honest(slot[k].snap)'
        BY <4>1, <4>2 DEF Honest
      <4> QED
        BY <1>3, <2>2, <3>1, <4>1, <4>2, <4>3 DEF CacheOK
    <3>2. CASE k # peer[t]
      BY <1>1, <2>1, <3>2 DEF FetcherInv, CacheOK, Honest
    <3> QED
      BY <3>1, <3>2
  <2>5. pc'[t] = "decide" /\ status'[t] = s /\ peer'[t] = peer[t] /\ now'[t] = now[t]
    BY <1>1, <2>1 DEF FetcherInv
  <2>6. now[t] - s.published_at <= MaxStaleness + CacheTtl
    BY <1>1, <1>2, <2>2, ConstantAssumption DEF Snapshot
  <2>7. StatusOK(t)'
    <3>1. Honest(s)' = Honest(status[t])'
      BY <2>5 DEF Honest
    <3> QED
      BY <1>3, <2>2, <2>5, <2>6, <3>1 DEF StatusOK
  <2> QED
    BY <1>1, <1>2, <1>4, <2>1, <2>3, <2>4, <2>7, CallInv
<1>6. CASE ~ok
  <2>1. slot' = slot /\ status' = [status EXCEPT ![t] = None]
    BY <1>6 DEF Fetched
  <2>2. StatusOK(t)'
    BY <2>1 DEF FetcherInv, StatusOK
  <2>3. slot' \in [Issuers -> Slot \cup {None}] /\ \A k \in Issuers : CacheOK(k)'
    BY <1>1, <2>1, CacheStays
  <2> QED
    BY <1>1, <1>4, <2>1, <2>2, <2>3, CallInv
<1> QED
  BY <1>5, <1>6

\* A fetch that fails leaves the call without a snapshot.
LEMMA FetchFailedInv ==
  ASSUME FetcherInv, NEW t \in Tasks, FetchFailed(t)
  PROVE  FetcherInv'
<1>1. /\ pc[t] = "fetch" /\ peer[t] \in Issuers /\ now[t] \in Nat /\ peer[t] # None
      /\ UNCHANGED <<revoked_at, empty, slot, peer, now, status, clock>>
      /\ pc' = [pc EXCEPT ![t] = "decide"]
  BY DEF FetchFailed, Goto, issuerVars, FetcherInv
<1>2. status[t] = None
  BY <1>1 DEF FetcherInv, StatusOK
<1>3. /\ peer' = [peer EXCEPT ![t] = peer[t]] /\ now' = [now EXCEPT ![t] = now[t]]
      /\ status' = [status EXCEPT ![t] = None] /\ StatusOK(t)'
  BY <1>1, <1>2 DEF FetcherInv, StatusOK
<1>4. slot' \in [Issuers -> Slot \cup {None}] /\ \A k \in Issuers : CacheOK(k)'
  BY <1>1, CacheStays
<1> QED
  BY <1>1, <1>3, <1>4, CallInv

\* A call that decides or is dropped keeps nothing.
LEMMA FinishInv ==
  ASSUME FetcherInv, NEW t \in Tasks, Finish(t), UNCHANGED <<revoked_at, empty, slot, clock>>
  PROVE  FetcherInv'
<1>1. StatusOK(t)'
  BY DEF Finish, FetcherInv, StatusOK
<1>2. slot' \in [Issuers -> Slot \cup {None}] /\ \A k \in Issuers : CacheOK(k)'
  BY CacheStays
<1> QED
  BY <1>1, <1>2, CallInv DEF Finish, Goto

\* Time passing makes no snapshot worse than it was when it was checked.
LEMMA TickInv ==
  ASSUME FetcherInv, Tick
  PROVE  FetcherInv'
<1>1. clock' = clock + 1 /\ clock \in Nat
      /\ UNCHANGED <<revoked_at, empty, slot, pc, peer, now, status>>
  BY DEF Tick, issuerVars, taskVars, FetcherInv
<1>2. \A s \in Snapshot : Honest(s) => Honest(s)'
  BY <1>1, HonestStays
<1>3. \A i \in Issuers : CacheOK(i)'
  BY <1>1, <1>2 DEF FetcherInv, CacheOK, Slot
<1>4. \A t \in Tasks : StatusOK(t)'
  BY <1>1, <1>2 DEF FetcherInv, StatusOK
<1>5. \A i \in Issuers : (empty[i] # None => i \notin Producers /\ empty[i].issuer = i /\ Honest(empty[i]))'
  BY <1>1, <1>2 DEF FetcherInv
<1>6. \A j \in Tokens : (revoked_at[j] # None => IssuerOf[j] \in Producers /\ revoked_at[j] <= clock)'
  BY <1>1 DEF FetcherInv
<1> QED
  BY <1>1, <1>3, <1>4, <1>5, <1>6 DEF FetcherInv

\* Every step of issuers, fetcher and handshakes preserves the invariant.
LEMMA NextInv == FetcherInv /\ [Next]_vars => FetcherInv'
<1> SUFFICES ASSUME FetcherInv, [Next]_vars PROVE FetcherInv'
  OBVIOUS
<1>1. CASE \E j \in Tokens : Revoke(j)
  BY <1>1, RevokeInv
<1>2. CASE \E i \in Issuers : ServeEmpty(i)
  BY <1>2, ServeEmptyInv
<1>3. CASE \E t \in Tasks, i \in Issuers : Prepare(t, i)
  BY <1>3, PrepareInv
<1>4. ASSUME NEW t \in Tasks, Enter(t) \/ FetchEnds(t) \/ Dropped(t) \/ Decide(t)
      PROVE  FetcherInv'
  <2>1. CASE Enter(t)
    BY <2>1, EnterInv
  <2>2. CASE FetchFailed(t)
    BY <2>2, FetchFailedInv
  <2>3. CASE \E s \in Deliverable : Fetched(t, s)
    BY <2>3, FetchedInv
  <2>4. CASE Dropped(t) \/ Decide(t)
    <3>1. Finish(t) /\ UNCHANGED <<revoked_at, empty, slot, clock>>
      BY <2>4 DEF Dropped, Decide, issuerVars
    <3> QED
      BY <3>1, FinishInv
  <2> QED
    BY <1>4, <2>1, <2>2, <2>3, <2>4 DEF FetchEnds
<1>5. CASE Tick
  BY <1>5, TickInv
<1>6. CASE UNCHANGED vars
  <2>1. UNCHANGED <<revoked_at, empty, slot, pc, peer, now, status, clock>>
    BY <1>6 DEF vars, issuerVars, taskVars
  <2> QED
    BY <2>1 DEF FetcherInv, CacheOK, StatusOK, Honest
<1> QED
  BY <1>1, <1>2, <1>3, <1>4, <1>5, <1>6 DEF Next

\* The fetcher keeps its invariant: every snapshot cached or in use is of its
\* issuer, was verified when it was cached, and hides no revocation that is
\* older than itself.
THEOREM FetcherCorrect == Spec => []FetcherInv
  BY InitInv, NextInv, PTL DEF Spec

\* Under a strict policy a revocation takes effect within max_staleness and
\* cache_ttl, whatever snapshots are delivered late, again or not at all.
THEOREM RevocationInTime == Spec => []RevocationTakesEffect
<1>1. FetcherInv => RevocationTakesEffect
  <2> SUFFICES ASSUME FetcherInv, NEW t \in Tasks, NEW j \in Tokens, NEW mode \in FailModes,
                      pc[t] = "decide", Strict(peer[t], mode),
                      Outcome(t, j, mode) = "clear", revoked_at[j] # None
               PROVE  now[t] - revoked_at[j] <= MaxStaleness + CacheTtl + Ahead[IssuerOf[j]]
    BY DEF RevocationTakesEffect
  <2>1. Unavailable(peer[t], mode) # "clear"
    BY DEF Unavailable, Strict
  <2>2. status[t] # None /\ IssuerOf[j] = peer[t] /\ j \notin status[t].revoked
    BY <2>1 DEF Outcome
  <2>3. /\ status[t] \in Snapshot /\ status[t].issuer = peer[t] /\ Honest(status[t])
        /\ now[t] - status[t].published_at <= MaxStaleness + CacheTtl
    BY <2>2 DEF FetcherInv, StatusOK
  <2>4. status[t].published_at <= revoked_at[j] + Ahead[IssuerOf[j]]
    BY <2>2, <2>3 DEF Honest
  <2>5. /\ revoked_at[j] \in Nat /\ now[t] \in Nat /\ status[t].published_at \in Nat
        /\ Ahead[IssuerOf[j]] \in Nat /\ MaxStaleness \in Nat /\ CacheTtl \in Nat
    BY <2>3, ConstantAssumption DEF FetcherInv, Snapshot
  <2> QED
    BY <2>3, <2>4, <2>5
<1> QED
  BY <1>1, FetcherCorrect, PTL

\* A decision rests on an unexpired snapshot of the issuer asked about.
THEOREM DecisionFits == Spec => []SnapshotFits
<1>1. FetcherInv => SnapshotFits
  BY DEF FetcherInv, StatusOK, SnapshotFits
<1> QED
  BY <1>1, FetcherCorrect, PTL
=============================================================================
