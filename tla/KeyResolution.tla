--------------------------- MODULE KeyResolution ----------------------------
(***************************************************************************)
(* KeyResolutionPolicy and JwksFetcher (crates/aitp/src/transport/         *)
(* key_resolution.rs, client.rs): the keys of one issuer, from a cache, a  *)
(* pinned store or the network, for callers that prefetch concurrently and *)
(* without a single flight. The issuer rotates its keys, and may move its  *)
(* key set to another URI, where the old one stays as it was.              *)
(***************************************************************************)
EXTENDS Network, FiniteSets

CONSTANTS
  Callers,            \* handshakes that need the issuer's keys
  KeySets,            \* sequence of the key sets the issuer publishes
  PinnedKeys,         \* what the pinned store has for it, or Nothing
  FAIL_MODE,          \* "FailClosed", "FailOpen" or "SoftFail"
  SAFE_GRANTS,        \* of SoftFail
  OFFLINE,
  CACHE_TTL, NEGATIVE_TTL, DISCOVERY_TTL,
  TIMEOUT,            \* of a request
  GUARD_MODE, ALLOW_LOOPBACK,
  DnsAnswers,         \* what a lookup may answer: sets of addresses, Nothing
  TLS,                \* client configuration
  Certificates,       \* what a server may show
  MaxClock,           \* bound of the model: last second of the clock
  Nothing

ASSUME KeyResolutionAssumption ==
  /\ {CACHE_TTL, NEGATIVE_TTL, DISCOVERY_TTL, TIMEOUT, MaxClock} \subseteq Nat
  /\ FAIL_MODE \in {"FailClosed", "FailOpen", "SoftFail"}
  /\ {OFFLINE, ALLOW_LOOPBACK} \subseteq BOOLEAN
  /\ Len(KeySets) \in Nat \ {0}
  /\ Nothing \notin Nat /\ Nothing \notin {"keys", "empty"}
  /\ Nothing \notin [keys : Nat, expires_at : Nat]

VARIABLES
  time,
  origin,    \* the issuer: version is the key set it publishes, uri where,
             \* left the version an abandoned uri still has
  retired,   \* history: the second a version stopped being the published one
  cache,     \* [keys, expires_at] or Nothing; keys are a version, 0 the pinned
  negative,  \* end of a remembered failure, or Nothing
  discovery, \* [uri, inserted_at] or Nothing
  call       \* what each caller is doing; to is where its request went

krVars == <<time, origin, retired, cache, negative, discovery, call>>

Versions == 1..Len(KeySets)
Idle == [pc |-> "idle", sent |-> 0, uri |-> Nothing, fetched |-> Nothing, to |-> {}]

KrInit ==
  /\ time = 0
  /\ origin = [version |-> 1, uri |-> 1, left |-> [u \in {1, 2} |-> 1]]
  /\ retired = [v \in Versions |-> Nothing]
  /\ cache = Nothing /\ negative = Nothing /\ discovery = Nothing
  /\ call = [c \in Callers |-> Idle]

Step(c, r) == call' = [call EXCEPT ![c] = r]

(***************************************************************************)
(* The caches.                                                             *)
(***************************************************************************)
Cached == cache # Nothing /\ cache.expires_at > time
CachedFailure == NEGATIVE_TTL > 0 /\ negative # Nothing /\ negative > time

Store(keys) ==
  /\ cache' = [keys |-> keys, expires_at |-> time + CACHE_TTL]
  /\ negative' = IF NEGATIVE_TTL > 0 THEN Nothing ELSE negative

StoreFailure ==
  /\ negative' = IF NEGATIVE_TTL > 0 THEN time + NEGATIVE_TTL ELSE negative
  /\ UNCHANGED cache

ApplyFailMode ==
  CASE FAIL_MODE = "FailOpen" -> "empty"
    [] FAIL_MODE = "SoftFail" /\ SAFE_GRANTS # {} -> "SoftFailRequiresOutcome"
    [] FAIL_MODE = "SoftFail" -> "NoPinnedKeys"
    [] OTHER -> "NetworkError"

KeysOf(v) == IF v = 0 THEN PinnedKeys ELSE KeySets[v]
Resolved(v) == IF KeysOf(v) = {} THEN "empty" ELSE "keys"

\* Mutant of LocalAnswer: a remembered failure comes before the keys.
LocalAnswerFailureFirst ==
  IF CachedFailure THEN ApplyFailMode
  ELSE IF Cached THEN Resolved(cache.keys)
  ELSE IF PinnedKeys # Nothing THEN Resolved(0)
  ELSE Nothing

\* resolve_local: cache, remembered failure, pinned store, or nothing.
LocalAnswer ==
  IF Cached THEN Resolved(cache.keys)
  ELSE IF CachedFailure THEN ApplyFailMode
  ELSE IF PinnedKeys # Nothing THEN Resolved(0)
  ELSE Nothing
\* In one step here; the code takes the locks of the two caches one after
\* the other, to read them and to store the pinned keys.
StoresPinned == ~Cached /\ ~CachedFailure /\ PinnedKeys # Nothing
ResolveLocal ==
  IF StoresPinned THEN Store(0) ELSE UNCHANGED <<cache, negative>>

\* resolve, which the handshake calls and which never waits.
ResolveAnswer == IF LocalAnswer = Nothing THEN ApplyFailMode ELSE LocalAnswer

\* resolve_outcome, the one way into a degraded session.
ResolveOutcome ==
  IF ResolveAnswer = "SoftFailRequiresOutcome" THEN "SoftFailDegraded"
  ELSE IF ResolveAnswer \in {"keys", "empty"} THEN "Resolved" ELSE ResolveAnswer

(***************************************************************************)
(* A caller: prefetch, then resolve.                                       *)
(***************************************************************************)

\* The discovery document's jwks_uri is used again while it is fresh.
KnownUri ==
  IF DISCOVERY_TTL > 0 /\ discovery # Nothing /\ time - discovery.inserted_at < DISCOVERY_TTL
  THEN discovery.uri ELSE Nothing
FirstFetch == IF KnownUri = Nothing THEN "discovery" ELSE "jwks"

Prefetch(c) ==
  /\ call[c].pc = "idle"
  /\ IF LocalAnswer # Nothing \/ OFFLINE
     THEN Step(c, [Idle EXCEPT !.pc = "resolve"])
     ELSE Step(c, [Idle EXCEPT !.pc = FirstFetch, !.sent = time, !.uri = KnownUri])
  /\ ResolveLocal
  /\ UNCHANGED <<time, origin, retired, discovery>>

Fetches == {"discovery", "jwks", "aitp-keys"}

\* What the server has when the request reaches it: the native endpoint the
\* current keys, a jwks_uri what was left there.
Served(c) ==
  CASE call[c].pc = "jwks" -> origin.left[call[c].uri]
    [] call[c].pc = "discovery" -> origin.uri
    [] OTHER -> origin.version

\* After a fetch that failed: discovery falls back to the native endpoint,
\* the others end the attempt.
Failed(c) ==
  IF call[c].pc = "discovery"
  THEN Step(c, [Idle EXCEPT !.pc = "aitp-keys", !.sent = time]) /\ UNCHANGED <<cache, negative>>
  ELSE Step(c, [Idle EXCEPT !.pc = "resolve"]) /\ StoreFailure

\* Mutant of SendRequest: the connection looks the host up again.
SendRequestUnpinned(c, dns, cert) ==
  /\ call[c].pc \in Fetches /\ call[c].fetched = Nothing
  /\ ResolveChecked(GUARD_MODE, ALLOW_LOOPBACK, dns, Nothing) = "ok" /\ TlsAccepts(TLS, cert)
  /\ \E again \in DnsAnswers \ {Nothing} :
       Step(c, [call[c] EXCEPT !.sent = time, !.fetched = Served(c), !.to = again])
  /\ UNCHANGED <<time, origin, retired, cache, negative, discovery>>

\* fetch_https_json up to the request: the host is looked up, and the client
\* pinned to the addresses that passed the guard.
SendRequest(c, dns, cert) ==
  /\ call[c].pc \in Fetches /\ call[c].fetched = Nothing
  /\ LET passed == ResolveChecked(GUARD_MODE, ALLOW_LOOPBACK, dns, Nothing) = "ok"
     IN  IF passed /\ TlsAccepts(TLS, cert)
         THEN /\ Step(c, [call[c] EXCEPT !.sent = time, !.fetched = Served(c), !.to = dns])
              /\ UNCHANGED <<cache, negative>>
         ELSE Failed(c)
  /\ UNCHANGED <<time, origin, retired, discovery>>

Arrived(c) == call[c].fetched # Nothing

\* A valid discovery document: the issuer matches, the jwks_uri is HTTPS.
DiscoveryArrives(c) ==
  /\ call[c].pc = "discovery" /\ Arrived(c)
  /\ discovery' = IF DISCOVERY_TTL > 0 THEN [uri |-> call[c].fetched, inserted_at |-> time]
                  ELSE discovery
  /\ Step(c, [Idle EXCEPT !.pc = "jwks", !.sent = time, !.uri = call[c].fetched])
  /\ UNCHANGED <<time, origin, retired, cache, negative>>

\* A key set that parses.
KeysArrive(c) ==
  /\ call[c].pc \in {"jwks", "aitp-keys"} /\ Arrived(c)
  /\ Store(call[c].fetched)
  /\ Step(c, [Idle EXCEPT !.pc = "resolve", !.sent = time, !.fetched = call[c].fetched])
  /\ UNCHANGED <<time, origin, retired, discovery>>

\* Any other end of a request: no answer in time, another status, too large,
\* not JSON, a bad document, a key that cannot be used.
FetchFails(c) ==
  /\ call[c].pc \in Fetches /\ Arrived(c)
  /\ Failed(c)
  /\ UNCHANGED <<time, origin, retired, discovery>>

Resolve(c) ==
  /\ call[c].pc = "resolve"
  /\ Step(c, Idle)
  /\ ResolveLocal
  /\ UNCHANGED <<time, origin, retired, discovery>>

\* invalidate_discovery_cache, as resolve_with_kid_hint calls it on a miss.
InvalidateDiscovery ==
  /\ discovery # Nothing /\ discovery' = Nothing
  /\ UNCHANGED <<time, origin, retired, cache, negative, call>>

\* The issuer publishes its next key set, in place or elsewhere.
Rotate(moved) ==
  /\ origin.version < Len(KeySets)
  /\ LET v == origin.version + 1
         u == IF moved THEN 3 - origin.uri ELSE origin.uri
     IN  origin' = [version |-> v, uri |-> u, left |-> [origin.left EXCEPT ![u] = v]]
  /\ retired' = [retired EXCEPT ![origin.version] = time]
  /\ UNCHANGED <<time, cache, negative, discovery, call>>

\* A request ends by its timeout. net_guard's lookup has none and ends by the
\* resolver's, which is assumed to be no longer.
Overdue(c) == call[c].pc \in Fetches /\ time >= call[c].sent + TIMEOUT
KrTick ==
  /\ time < MaxClock /\ \A c \in Callers : ~Overdue(c)
  /\ time' = time + 1
  /\ UNCHANGED <<origin, retired, cache, negative, discovery, call>>

Attempt(c) ==
  \/ \E dns \in DnsAnswers, cert \in Certificates : SendRequest(c, dns, cert)
  \/ DiscoveryArrives(c) \/ KeysArrive(c) \/ FetchFails(c)

KrNext ==
  \/ \E c \in Callers : Prefetch(c) \/ Attempt(c) \/ Resolve(c)
  \/ InvalidateDiscovery
  \/ \E moved \in BOOLEAN : Rotate(moved)
  \/ KrTick

KrSpec == KrInit /\ [][KrNext]_krVars

(***************************************************************************)
(* Properties.                                                             *)
(***************************************************************************)

\* Keys that verify a signature were the issuer's less long ago than the
\* caches and one attempt account for.
MaxAge == DISCOVERY_TTL + 3 * TIMEOUT + CACHE_TTL
KeysNotOutdated ==
  Cached /\ cache.keys # 0 /\ retired[cache.keys] # Nothing
    => time - retired[cache.keys] < MaxAge

\* A caller whose own prefetch brought keys finds keys while they are fresh,
\* although prefetches of others have failed or ended since.
OwnFetchServes ==
  \A c \in Callers :
    /\ call[c].pc = "resolve" /\ call[c].fetched # Nothing /\ time < call[c].sent + CACHE_TTL
    => ResolveOutcome = "Resolved" /\ Cached

\* Prefetches of one issuer run at the same time and end in any order. A late one
\* neither keeps outdated keys alive nor takes from a caller the keys it has just
\* fetched itself (store and store_failure, key_resolution.rs).
KeysSurviveRaces == KeysNotOutdated /\ OwnFetchServes

\* No request goes to an address the guard refuses, even when the name
\* resolves differently each time it is asked for.
OnlyPermittedAddresses ==
  \A c \in Callers : \A ip \in call[c].to : GUARD_MODE = "AllowAll" \/ Permitted(GUARD_MODE, ALLOW_LOOPBACK, ip)
=============================================================================
