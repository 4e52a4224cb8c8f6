# aitp-rs in TLA+

TLA+ models of the AITP reference implementation in Rust (`crates/aitp`,
`crates/aitp-experimental`, the bindings, the interop peer and the conformance runner): agents that
prove who they are, exchange signed trust tokens (TCTs) in a mutual handshake,
renew and delegate them, and refuse what is stale, replayed or more than was
granted. TLC checks the models on small instances; TLAPS proves for every instance
the handshake and its server, the stores on which freshness rests, admission,
revocation, key resolution, rate limits, delegation, renewal, session bundles, the
bindings' caches and the conformance runner's verdict.

## 1. The system

| Component | State | Operations | Concurrency and failure |
|---|---|---|---|
| Nonce store (`core/nonce_store.rs`) | shards (map and expiry heap under a mutex), atomics `outstanding`, `last_sweep`, `next_expiry` | `issue`, `consume`, `sweep` | threads; lock sections and atomics interleave; capacity |
| Message-id deny list (`handshake/admission/deny_list.rs`) | shards under mutexes, atomic `live` | `contains`, `insert`, `sweep` | threads; a lock dropped and retaken inside `insert` |
| Pinned-key admission (`handshake/admission/mod.rs`) | uses the two above and two rate limiters | `issue_challenge`, `admit` | concurrent, redelivered presentations; async stores that may refuse |
| Admission rate limiter (`handshake/admission/rate_limit.rs`) | token bucket per source, bounded table | `check`, `check_key_at` | clock readings taken before the lock |
| Handshake state machine (`handshake/state_machine.rs`) | an `Initiator` or `Responder` object: state, peer, nonces, peer's Manifest facts | `start`, `on_hello`, `on_hello_ack`, `on_commit`, `on_commit_ack` | lost, duplicated, misdelivered messages; clocks of two machines |
| TCTs (`tct/`) | none; a revocation view is passed in | build, verify, apply revocation, prove possession | expiry, soft-failing revocation |
| Manifests and envelopes (`manifest/`, `core/envelope.rs`, `envelope/`) | none | build, parse, verify | expiry, forged or altered documents |
| Handshake server (`transport/server.rs`) | session table, replay guard, sliding windows | HELLO, COMMIT and list routes, background sweeper | async handlers with awaits between read and write |
| Replay guard (`transport/replay_store.rs`) | message ids with an expiry | `check_and_record` | shared by all handlers |
| Revocation lists and fetcher (`transport/revocation*.rs`) | snapshot cache, per-issuer single flight | fetch, check | stale snapshots, failing fetches |
| Key resolution (`transport/key_resolution.rs`) | positive and negative caches | prefetch, resolve | concurrent prefetches, late answers, key rotation |
| HTTP clients (`transport/client.rs`, `retry.rs`, `client_config.rs`) | Manifest and discovery caches | fetch with backoff | timeouts, retries, names that resolve differently |
| Network guards (`net_guard.rs`, `tls_pinning.rs`, `source_ip.rs`) | none | classify, pin, find the client address | forwarded headers, rebinding |
| Facade (`facade.rs`) | TCT store | run a handshake, decide on a refresh | whoever answers; old manifests |
| Identity mechanisms (`handshake/pinned_key.rs`, `identity_oidc.rs`, `jwk.rs`, `spiffe.rs`) | none | make and verify proofs | a proof presented in another handshake |
| Keys and signers (`crypto/`) | the agent's key, or a remote backend | sign, normalise, verify | a backend that holds another key, fails or answers garbage |
| Delegation (`delegation/`, experimental `delegation/`) | none | build and verify hops and chains | hop limit, attenuation, revoked hops |
| Renewal (experimental `renewal/`) | nonce store | request, renew, verify the reply | revocation and repetition racing a renewal |
| Session bundles (experimental `session_bundle/`) | bundle store | build, store, verify | a server that checks nothing, other implementations |
| Bindings (`bindings/aitp-py`, `bindings/aitp-node`) | sessions, a cache of verified tokens | the calls of an application, in any order | repeated calls, answers handed in late |
| Conformance runner (`crates/aitp-conformance`) | adapter process, fixture state | run suites, gate, report | late answers, a process that dies |
| Interop peer and its clients (`crates/aitp-cli`: `serve.rs`, `enrol.rs`, `echo.rs`, `net.rs`) | enrolled keys (map and queue), two nonce stores, handshake routes | challenge, enrol, status, handshake, echo, refresh | concurrent requests, stale clock readings, restart |
| Default key file (`aitp-cli/src/main.rs`) | a file | find, read, create, write | commands started at once, or dying |

How they interact. A server hands each request an envelope that passed
`receive_envelope` (timestamp window, replay guard, rate limit), looks its
session up in the table and drives one `Responder`. The `Responder` verifies
the peer's Manifest and identity, verifies the token it is given against the
Manifest seen at HELLO and a revocation view, and issues its own. The facade does
the initiator's half over HTTP, with a Manifest fetched through the guarded client.
Admission is the other way in: a challenge from the nonce store, a presentation
that must pass nine steps, the nonce consumed and the message id put on the deny
list. Renewal, delegation and session bundles use the same token verifier, renewal
the same nonce store. The interop peer puts a pinned-key store filled by enrolment
behind the handshake server, and takes back the tokens it issued.

What makes them correct: a challenge, a session, a message id, a renewal nonce
counts once, whatever races; counters match what is held and never underflow; two
agents that finish agree on each other, the session and the tokens; no token
outlives the Manifest it came from or gives more than was passed on; what a cache
answers a fresh look would answer too; tables keep their bounds and give up entries
only for a reason. `PROJECT.json` lists, under "hazards", the lines where each could
go wrong.

## 2. Modules

| Module | Models | Notes |
|---|---|---|
| `NonceLedger` | the `NonceStore` trait's promise | one step per operation; a consume is answered by verifier, record and clock reading |
| `NonceStore` | `InMemoryNonceStore` | one action per lock section or atomic operation; implements `NonceLedger` with `live <- map` and the answers its calls are about to give |
| `NonceStoreProofs` | | theorems about `NonceStore` |
| `DenyList` | `InMemoryMessageIdDenyList` | one action per lock acquisition or atomic operation |
| `Admission` | `PinnedAdmission` | composes `NonceLedger` with a one-step deny list |
| `Handshake` | `Initiator`, `Responder` | objects of several agents and the set of all messages sent |
| `HandshakeServer` | `HandshakeServer`, `InMemoryReplayGuard` | one action per stretch of a handler between two awaits |
| `Revocation` | `ListRevoked`, `SignedEmptySnapshot`, `RevocationFetcher`, `PreparedRevocation` | one action per stretch of `prepare` between two awaits |
| `Checks` | | a verifier as a list of checks that return early |
| `Tokens` | `tct/`: `TctBuilder`, `verify_tct`, vouchers, `apply_revocation`, PoP | operators, no state |
| `Manifests` | `manifest/`, `core/envelope.rs`, `envelope/` | operators, no state |
| `Network` | `net_guard.rs`, `client_config.rs`, `tls_pinning.rs`, `retry.rs`, `source_ip.rs` | operators, no state |
| `Delegation` | both builders and both verifiers | agents sign tokens, all that was signed may be presented |
| `KeyResolution` | `KeyResolutionPolicy`, `JwksFetcher` | one action per request or lock section of a prefetch |
| `Identity` | pinned-key, OIDC and SPIFFE proofs | proofs made for one handshake, presented in any |
| `Signing` | `crypto/keys.rs`, `signer.rs`, `jws.rs`, AID tags | an agent with a local key or a remote backend |
| `Connect` | `ManifestFetcher`, `run_initiator_handshake` | composes `Manifests`, `Network`, `Tokens` |
| `Renewal` | `renewal/`, `TctStore` | handlers of the issuer between awaits, the holder, the network |
| `SessionBundle` | `session_bundle/` | coordinators, the bundle server, participants |
| `RateLimit` | token buckets; the server's sliding window | composes `Network`'s client address |
| `Bindings` | Python and Node sessions, `verifyTctCached` | composes `Tokens` and `Manifests` |
| `Conformance` | executor, subprocess adapter, gate, report, `rs_adapter` | the adapter's operations that keep state |
| `InteropPeer` | `serve.rs`, `enrol.rs`, `echo.rs`, the client's side in `net.rs` | composes `Manifests` and `Tokens`; one action per stretch of a request between two awaits |
| `KeyFile` | the default key of `main.rs` | one action per file operation |
| `HandshakeProofs`, `HandshakeServerProofs` | | theorems about the module each is named after |
| `ReplayProofs` | | theorems about `DenyList` and `Identity` |
| `AdmissionProofs` | | theorems about `Admission` and `InteropPeer` |
| `KeysProofs` | | theorems about `KeyFile`, `KeyResolution` and `Revocation` |
| `PeersProofs` | | theorems about `Delegation`, `RateLimit`, `Renewal`, `Bindings`, `Connect`, `Signing`, `SessionBundle` and `Conformance` |
| `VerifierProofs` | | lemmas about `Checks`, `Tokens` and `Manifests` that `AdmissionProofs`, `PeersProofs` and `ReplayProofs` rest on |
| `MC...` | | instances for TLC; `MCPeers` is about the nine from `KeyResolution` to `Conformance` |

A definition named `X...` whose comment says "Mutant of X" is a plausible bug,
not part of a specification: with X replaced by it, the property named in
`PROJECT.json` is violated.

**NonceStore.** `map` and `expiry` hold all shards together; a nonce's shard is
`ShardOf`. `pc[c]` is the section a call runs next and `args[c]` what it was
called with, its clock reading included: the code reads the clock once, and
the model lets time pass afterwards. `freed[c]` keeps the nonces a purge removed
and the call has not yet subtracted from `outstanding`; the code keeps their
number. A heap is a set of pairs: the same pair twice in a heap makes no
difference to a purge, and only hastens a compaction.

**NonceLedger.** `LedgerConsume` has the caller, the nonce, the verifier that asks, a clock
reading and the outcome, and `told` keeps all five until the call returns. `Consumed` needs a
record of that verifier which is in date by that reading, `Expired` one of that verifier
that is not, `Unknown` that it has none. The store's `told` follows from what a
call has after the shard lock of `consume`, so a store that lets anyone consume, or consumes
late, does not implement the ledger; both are mutants.

**DenyList.** `lock[s]` names the thread in shard s. `insert` purges, subtracts,
looks the id up, and when the list is full lets go of its lock, sweeps and
retakes it. The expiry heap always covers the map there (there is no removal
but by expiry), so only the map is kept.

**Admission.** The presentation's parsing, signature and pinning checks are
one flag `valid`; their order against the state changes is kept (gate, check,
consume, record). Rate limits and other refusals of `gate` change nothing, so a
task may give up there at any time; the limiter itself is in `RateLimit`.

**Handshake.** A nonce is the name of the object that drew it. A signature is
modelled by what it signs: only the owner of a key makes a message in its name.
`Lax` agents issue any token they like and stand for other implementations.
`Skew` gives each machine its clock. Failing a check moves an `Initiator` to
`Failed` where the code assigns it, and leaves the state alone where the code
returns early with `?`. A COMMIT's companion voucher is left out: it is optional, and the check that it
mirrors the token (`state_machine.rs:743`) only makes the code refuse more than the model does. Revocation is its outcome: clear, revoked, or a safe
subset under soft failure.

**HandshakeServer.** A handler yields at its awaits (prefetch of the peer's
Manifest or keys, revocation fetch), and there the request may fail or be
dropped (`Abandon`). The session leaves the table before the revocation fetch. The
sweeper runs in the second its ticker fires: the time bound it promises has no
other meaning. The sliding-window rate limit is a refusal after the id was
recorded (`RefuseEnvelope`); what it counts is in `RateLimit`.

**Revocation.** `queue[i]` is the async mutex of issuer i's slot: its holder, then
who waits, first come first served as in tokio. A call reads its clock before it
queues (`now`) and uses that reading after the wait, as the code does. Past lists
of a producer are signed data that a network may deliver at any later time, so
a fetch may get any of `Produced`; a fetch through a `RevocationProvider`
ends in the same ways. A handshake may be dropped with its connection while it
waits or fetches, which releases its place. The fail mode matters only when the
handshake asks, so it is a parameter of `Outcome`, and the properties quantify
over the modes in `FailModes`.

**Tokens, Manifests, Network.** A verifier is a sequence of pairs of a condition and
an error, in the order of the code, and its verdict is the first error. A document
is a record; what can be wrong with its syntax is a flaw or a flag, and a signature
is who made it over what.

**Delegation.** `signed` grows; the verifier may be given any token of it at any later
time, so the properties speak of all of them in every state. `Lax` agents sign any
hop that their key can sign, with any chain before it. `Entitled` is the
reference definition: the least set of pairs of an agent and a grant that holds what
the verifier granted and is closed under the unrevoked, unexpired hops. The chain and its hash are optional members, kept as sets of at most one. Under a
hop limit of 0 no chain is taken, and a token with a `jti` is taken for one.

**KeyResolution.** The issuer rotates its keys and moves its key set; a request gets
what is published when it arrives or an older copy from the old place. A caller has
the state of one prefetch: its lookup, the addresses it was pinned to, what it
fetched. Every lookup of the name may answer differently. `resolve_local` is one step; in the
code it takes the locks of the positive and the negative cache one after the other
(`key_resolution.rs:234`, `:247`), and a caller overtaken between the two sees a miss at worst.

**Identity, Signing.** Proofs and signatures are collected as they are made and the
verifiers are asked about all of them in every context, in descriptors of every
shape. A provider's JWKs are a sequence, as `verify_oidc` tries only the first of the token's `kid`
(or the first without one); a bundle's are a set, whose `kid`s `SpiffeBundle` keeps distinct. `Signing`'s backend may exchange its key, answer in DER, with a high S, with
something else, or fail.

**Connect.** Three requests of one handshake, each answered by anything the network
may hold: manifests published, altered or signed by another, envelopes under any
key. Fetches that fail for a passing reason are repeated after the jittered delay of
`retry.rs`. `Handshake` has the state machine behind the two messages.

**Renewal.** A handler reads the list and the clock, and records the nonce after an
await; requests may be repeated, replies mixed up. The holder's `TctStore` decides
when to ask.

**RateLimit.** Tokens are integers of a unit in place of `f64`. The sliding window is
keyed by the address `source_ip.rs` finds, under headers a client may write
itself. The proxies' ranges hold none of the clients: an address in a trusted range
is a proxy's, so the limiter looks behind it.

**InteropPeer.** `keys` and `order` are the map and the queue of `EnrolledKeys`; an entry
of the queue is current when its expiry is the one in the map, as in the code. A
request reads its clock, then consumes its nonce, then inserts. Which expired
records a nonce store drops at a call depends on its shards, so any subset may go.
A challenge names no key: `Signings` says who signs which, and in the run everyone signs
all of them, one holder for another peer. Tokens and answers are public. A session belongs to
the routes it was made on, and `Rebuild` and `Restart` end it, unless a COMMIT has taken it
(`CommitTake`): that one waits for its revocation fetch with the manifest it came in with, and
issues by a later clock (`CommitIssue`), within the request's deadline, or is dropped.

**KeyFile.** Any number of commands run; the file is absent, created and not written
in full, or holds a seed. Only `aitp enroll` creates it.

**Bindings.** The two bindings have the same sessions; a Python initiator meets a Node
responder. `wire` only grows, since nothing in the bindings refuses an old message.

**Conformance.** The runner and the reader thread's channel, in which the answer to a
request that timed out may still arrive. `Conforms` is the reference: the fixture
passes on an adapter of its own, with no fault. What was given a placeholder nobody can mint is kept in `unminted`,
and fails a fixture that got to its end. The preconditions of a fixture are part of it: one that is
refused skips it.

## 3. Runs

| Run | Instance | States | Shows |
|---|---|---|---|
| NonceStore | 2 threads, 3 nonces in 2 shards, capacity 2, 2 verifiers, 2 seconds (below) | 504,063 | the inductive invariant of the proofs, capacity, single use; implements the ledger: what each consume is told fits verifier, record and clock reading |
| NonceStoreRetryAfter | 2 threads, a nonce in each of 2 shards, capacity 1, up to 2 issues each | violation | see findings |
| DenyList | 2 threads, 3 ids in 2 shards, capacity 1, 2 seconds | 43,638 | an id is fresh for one call; exact counter and bounded overrun; calls return |
| Admission | 2 requests, 2 challenges, 4 presentations that share ids and nonces, one invalid; enrolment, echo and key file (below) | 498,685 | one admission per challenge, none for a twin, no challenge spent by a bad proof; `EnrolmentSound`, `EchoEarned`, `KeyFileKept` |
| Handshake | 2 initiators, 3 responders, 2 agents of which one is lax, skewed clocks, expiring Manifests, soft-failing revocation | 1,467,463 | agreement of both sides, reciprocal issuance; effective grants covered and tokens within Manifests (`HeldSound`) |
| HandshakeServer | 2 requests, 2 HELLOs and 2 COMMITs, one session slot, window 3, tolerance 1 | 531,335 | a session serves one COMMIT, an envelope is received once; cap and reclaim time (`TableBounded`); drops only for a reason |
| HandshakeServerReplay | window equal to tolerance | violation | see findings |
| Revocation | 2 handshakes, an issuer with a producer and a clock ahead, one with an empty list and no advertised URL, all fail modes | 102,342 | a revocation takes effect in bounded time, the snapshot fits the question, `prepare` returns |
| RevocationStaleness | `max_staleness` 1 | violation | see findings |
| Delegation | a verifier and 3 agents, one lax and one whose list fails soft; chains of 3 hops, one forged token, one revocation | 870,424 | nothing is conferred that was not passed on; the two verifiers agree, and verify what is built |
| DelegationRevokedHop | as above | violation | see findings |
| Peers | the components of `MCPeers`, one at a time (below) | 509,255 | thirteen properties, below |

`MCNonceStore` looks at the store in three ways, which `focus` tells apart. In "full" a nonce that
outlasts the run takes one of the two slots, and issues, consumes and sweeps of two others, one in
each shard, race for the second; each is issued once. In "twice" both threads issue and consume the same nonce,
twice at most, so that an issue finds its nonce in the map after it has reserved and gives the
slot back. In "heap" one thread issues one nonce twice beside another, and the heap of their shard is rebuilt
while a record is held. Where two threads run, one verifier issues and both consume: a second
issuer would only swap their names.

`MCPeers` puts nine independent specifications side by side. They share no state in
the code; `focus`, chosen in the initial state, says which one moves, so the
run is the union of eleven state spaces under one set of agents, nonces and bounds.
What it shows:

- `KeysSurviveRaces`: prefetches of one issuer end in any order; a late one neither
  keeps outdated keys alive nor takes from a caller the keys it has just fetched.
- `OnlyPermittedAddresses`: no request goes to an address the guard refuses, even
  when a name resolves differently each time.
- `IdentityExact`: each mechanism accepts the proof made for this handshake and no
  other; of two keys under one `kid`, the first.
- `SigningExact`: nothing leaves the agent that fails to verify, and a backend that
  has the agent's key is never refused.
- `ConnectSound`: the parts of the session `connect` returns are one peer's, from a
  manifest that peer published and that was in date.
- `NonceRenewsOnce`, `RenewalsSound`: a renewal nonce renews once while its token
  lives; a listed token is not renewed and nothing widens along a chain of renewals;
  what the holder accepts was made for this request.
- `BundleExact`: accepted bundles are sound and built ones are accepted.
- `RateHolds`, `ClientBounded`: no key gets more than burst and rate; no client more
  than its window, whatever headers it writes.
- `LatestHelloCompletes`, `CacheSound`: a session of the bindings completes the HELLO
  made last; a cached verification answers what a fresh one would.
- `VerdictEarned`: exit status 0 and the claims of a report stand for fixtures that
  pass on their own, whatever came late or died; and a clean run of conforming
  fixtures gets its 0.

`MCAdmission` does the same for the ways in of a pinned key: admission, enrolment (3
holders for 2 places, 4 challenges of which 3 fit; and 2 holders one after the other, 5
times, so that the queue outgrows twice the cap and is cut), echo (2 holders, one of which signs what
it likes, with COMMITs that wait, a refresh and a restart) and the key file (3 commands at a
time). In the echo part two requests are under way at a time only if both are at `/echo` with
one token, where they race for its challenges, and no COMMIT touches that store; while a COMMIT waits, the clock, the routes, the enrolments that lapse, new
HELLOs and echo challenges and a restart go on. The proofs have no such bound.

- `EnrolmentSound`: a key is trusted only on its own holder's signature of an outstanding
  challenge for this peer, whoever asked for it, and for the time of an enrolment; a
  challenge enrols one key, once, and is not lost to a bad request; the map keeps its cap, each key of it can be evicted, and the oldest goes
  first unless a key enrolled twice with one expiry.
- `EchoEarned`: what `/echo` confirms the peer issued itself to an enrolled holder,
  which answered a challenge for that token, in time and once; an enrolment that ends
  is outlived by one session, one request and one token at most, across restarts and
  refreshes: a COMMIT takes its session in time and issues after its revocation fetch.
- `KeyFileKept`: all commands that get the default key get the same one.

The bounds. Every race in these components is between two calls, with a third
party (a sweep, the clock, a revocation) that is an action of its own: two threads
and one place to fight for reach them all, and two shards are what a sweep needs to
be overtaken by an insert behind it. Lifetimes and times go one past each
comparison (`<`, `<=`) in the code. Three responders for two attempts let a
duplicated HELLO meet a parallel attempt. Three hops are the shortest chain with a
link that touches neither end; one forged token is enough because it may contain
any of the others. Two key sets and a clock of four seconds let a cached key set be
rotated, expire and be fetched late. Three holders for two places, with a fourth
enrolment for one that returns, are what an eviction of a superseded entry takes; with
lifetimes of 0 one tick is both a stale clock reading and an expiry. A request whose
challenge is gone when it arrives is not tried there, since it changes nothing.
`MaxTime`, `MaxIssues`, `MaxClock` and their kin only cap clocks and histories. Symmetry is over threads, tasks, sessions,
callers or nonces that are interchangeable, and never in a run that checks liveness.
`Handshake`, `Delegation` and `Peers` may stop (every object done, clock at its bound),
so those runs do not check deadlock; all others do.

Fairness. `DenyList` and `Revocation` have a liveness property. In `DenyList` a call
that started returns. It assumes weak fairness of each call's next step, which is
what a running thread gives. A `std` mutex is not fair, and the property does not
ask it to be: it says that every call returns if callers stop starting new ones.
In `Revocation` every `prepare` returns. The holder of a slot goes on (tokio's
mutex wakes its waiters in order) and a fetch ends: its requests by their timeout, the
lookup of the host by the resolver's own, since `net_guard.rs:252` sets none; a provider
supplied by the application has no timeout either and must return by itself. Nothing is assumed of the clock, of issuers or of clients.
Two properties bound a time by such a timeout, and so rest on an assumption the code does not
enforce: `KeysSurviveRaces` takes a DNS lookup of key resolution to end within `TIMEOUT`
(`Overdue`), again although `net_guard.rs:252` sets no limit; `EchoEarned` takes the timer
of `serve.rs:360`, which ends a request, to be punctual.
The reclaim time in `TableBounded` bounds something that must happen, and is checked
as an invariant.

Findings. Four places where a text says more than the code does; each is a run that
TLC shows violated.

1. `server.rs:411`: a replay window equal to the timestamp tolerance does not
   cover an envelope stamped ahead; more than twice the tolerance does
   (run HandshakeServer).
2. `revocation_fetch.rs:223`: a cache hit does not look at `max_staleness` again,
   so a snapshot is used until it is `max_staleness + cache_ttl` old
   (`RevocationTakesEffect` has the bound that holds).
3. Experimental `delegation/verifier.rs:374`: a chained delegation presented alone is
   looked up by its source token only, not by its own `jti`
   (`DelegationSound` says what holds).
4. `nonce_store.rs:287`: the comment before it says of a sweep's final `store` that "a
   concurrent issue may lower it again; that only makes it earlier". An issue that has
   inserted into a shard already scanned and lowered `next_expiry` before the store is
   overwritten, and Retry-After is late until the next sweep (run NonceStoreRetryAfter,
   `RetryAfterNeverLate`). No refused caller loses anything but time.

Observations made while modelling; the properties state what does hold.

- `deny_list.rs:188`: the capacity check is not a reservation; concurrent inserts in
  different shards exceed `capacity`, by at most one record per caller (`ListKept`).
- Experimental `renewal/issuer.rs:185`: a handler that read its clock while the token
  was alive and records the nonce after it expired may renew a second time;
  `NonceRenewsOnce` states this exception.
- `rate_limit.rs:243`: a refill under an older clock reading moves the bucket's time
  back, so the time in between is credited twice; `RateHolds` counts it.
- `client.rs:444`: a late fetch replaces a newer manifest in the cache.
- `server.rs:1407`: the id of an envelope is recorded before the rate limit, the
  documented order; a client that repeats a refused envelope verbatim is told
  `REPLAY_DETECTED`.
- `oidc.rs` of both bindings: `JwksProvider.remove` looks a URL up as it is written,
  `upsert` files it normalised.
- `serve.rs:846`: a queue entry is told from a later one of the same key by its expiry
  in seconds. A key that enrols twice within a second is therefore evicted before an
  older one, where `docs/interop-peer.md:117` says "at the cap the oldest enrolment goes
  first" and the test at `serve.rs:912` re-enrols a second later; and `retain` keeps all
  its entries, so the queue exceeds the `2 * cap` it is cut to (`serve.rs:850`).
  `EnrolmentSound` has the exception; without it TLC finds both at once.
- `main.rs:578`: a command that dies between creating the key file and writing it
  leaves an empty file, on which every later command fails until it is removed.
- `serve.rs:503`: of two enrolments of one key, the one that took the lock last counts,
  even if it read the clock first; the expiry then goes back.
- `serve.rs:237`: the comment on `rebuild` says that a handshake in flight across it
  fails and the client retries. One whose COMMIT has taken its session completes, under
  the manifest it came in with; `EchoEarned` has its time.
- `identity_oidc.rs:325`: of the keys under one `kid` only the first is tried, so a provider that
  lists two has the tokens of the second refused. `IdentityAccepted` asks for the first.
- `rs_adapter`: `begin_fixture` clears the admission and renewal nonces; revoked ids,
  seen messages, PoP state and sessions stay. The suites of the model share none.
- `adapter/subprocess.rs:73`: after one late answer every later request of the process
  fails on its id; a suite fails, and never passes wrongly (`VerdictEarned`).

## 4. Proofs

`NonceStoreProofs` proves, for any finite sets of threads and nonces, any number
of shards, any hash, capacity, slack, lifetimes and bounds, from
`ConstantAssumption` alone (finite sets, natural numbers, and `Never` later than
any expiry, as `i64::MAX` is):

- `StoreCorrect`: `Spec => []StoreInv`, the inductive invariant;
- `TypeCorrect`: well typed, and `outstanding` does not underflow;
- `CapacityHolds`: the counter is exact and at most `Capacity` records are held;
- `NonceSingleUse`: at most one `Consumed` per successful issue;
- `StoreImplementsLedger`: the concurrent store implements the atomic ledger.

The argument. Capacity is not inductive: what bounds the records is the counter,
and the counter is moved apart from the map. `CounterExact` accounts for every
state in between: `outstanding` is the records held, plus the calls that have
reserved and not yet inserted, plus what calls have removed and not yet
subtracted (`freed`). A `fetch_sub` therefore never goes below zero, since a call
subtracts no more than its own share. `CallOK` says what a call has at each
section (what it reserved, what it owes, where its sweep is); `HeapCoversMap`
says that a held record has its pair in the heap, which a purge needs in order
to find it; single use is `consumed + held <= issued` per nonce, where only an
insertion raises the right side and a match moves one unit from `held` to
`consumed`. For the refinement, a purge is an expiry, an insert an issue, a removal
on a match a consume, what a call has been told is what its program counter and arguments
say until it returns, and all other sections stutter. The stale clock of a slow call
is harmless in one direction only: what was expired at its reading is expired now. A rebuild of a heap loses no held record because it
keeps the pair of each.

`KeysProofs` proves of `Revocation`, for any sets of handshakes, issuers and tokens, any clock
offsets ahead and any policy, from its `ConstantAssumption`:

- `FetcherCorrect`: `Spec => []FetcherInv`, the inductive invariant;
- `RevocationInTime`: under a strict fail mode no token is found clear that was
  revoked more than `max_staleness + cache_ttl` ago, plus the issuer's clock offset;
- `DecisionFits`: a decision rests on an unexpired snapshot of the issuer asked about.

The argument. What a handshake decides on may have been fetched by another one,
so the invariant follows the snapshot: it is `Honest` (it omits no revocation
older than itself) from the moment it can be delivered and remains so, since a
later revocation has a later time; in the cache it was at most `max_staleness` old
when it was cached (`CacheOK`); a hit adds at most `cache_ttl` (`StatusOK`). The
bound is their sum. No fact about the mutex is needed: the slot's
entry carries all the proof asks for, and the queue matters to `PrepareReturns` alone.

`HandshakeProofs` (from `Handshake`'s assumptions; any agents, objects, grants, clock
skews, and any loss, duplication and reordering, since the set of messages only grows):

- `HandshakeCorrect`: `Spec => []HandshakeInv`;
- `ResponderAgrees`, `InitiatorAgrees`: a side that completed agrees with one object of
  its peer on names, nonces and tokens;
- `ResponderIssuesLast`: no responder issues before it holds a token, and one per attempt;
- `HeldIsSound`: what a side holds was offered, covers what it requires and ends with the
  issuer's Manifest, `Lax` issuers included.

Agreement is not inductive since COMMIT_ACK names no nonce of the responder. The
invariant ties every message to the object that sent it (`HellosSent` to
`CommitAcksSent`) and every object to the one it answers (`ResponderMeant`,
`InitiatorBound`): an initiator commits to one responder's nonce, only that responder
can take the COMMIT, so at most one COMMIT_ACK carries the initiator's nonce
(`OneCommitAck`). Nothing in it mentions time.

`HandshakeServerProofs` (any number of requests, envelopes and sessions, any lifetime,
window, tolerance, capacity and sweep period):

- `ServerCorrect`: `Spec => []ServerInv`;
- `SessionUsedOnce`: a session is good for one COMMIT (a request that took it out is
  counted with those that completed it; one cancelled in between loses it);
- `TableStaysBounded`: the table's size, and the time by which a lapsed session is gone;
  the invariant relates each entry to the sweeper's next run (`SweeperInTime`);
- `ReplaysBounded`: an envelope passes at most `2 * Tolerance / Window + 1` times, for
  every configuration; that is, at most three times in the default one of finding 1, where
  `Window = Tolerance`;
- `EnvelopeReceivedOnce`: once, if `Window > 2 * Tolerance`;
- `DropsAreJustified`: the action property `DroppedForAReason`.

Single reception is not inductive, as a guard entry may be swept while the timestamp is
still good. `ReceptionsApart` counts instead: with each reception the guard's entry, or the
clock once the entry is gone, has moved on by one window from the first moment the
timestamp is accepted. The bound and the threshold both follow from it.

`AdmissionProofs`, about admission (any number of requests, challenges and presentations):
`AdmissionCorrect` (`AdmissionInv`), `ChallengeAdmitsOnce` (`OneAdmissionPerChallenge`),
`NoTwinAdmitted` (`NoTwinInWindow`) and the action property `VerifiedSpends`
(`SpentOnlyByVerified`). A challenge's issues pay for its outstanding record, the request
between consume and record, and its admissions (`ClaimsPaid`). The record of an admitted
id outlives its window (`WindowCovered`), which holds only because a request between check
and record has passed the tolerance check at its own reading (`ChecksPassed`).

About the interop peer, also in `AdmissionProofs`, for any cap, any lifetimes and any
number of holders and requests: `EnrolmentKept` (`EnrolInv`) and `EnrolmentsSound`
(`EnrolmentSound`). `ChallengesFit` follows a challenge from the store to the request that
took it out and to the enrolment it made (`Spent`). What verifies was signed here by the
holder it names on the challenge it names, however the request was put together
(`SignedForChallenge`); that any holder may sign any challenge needs no care beyond it. `QueueFits` relates the map and the
queue through the history: a key has the expiry of its last enrolment, the queue is a
sub-sequence of the enrolments (`QueueOf`: an increasing map from its places to theirs),
and eviction and compaction only thin it (`ThinQueue`). That the oldest goes first and that
the queue is bounded needs that no key was enrolled twice with one expiry: else a
superseded entry looks current, and the invariant says either (`Twice`).
`EchoKept` (`EchoInv`, inductive together with `EnrolInv`) and `EchoesEarned`
(`EchoEarned`): a token goes back over the session it was issued in to an enrolment
(`OpenFits`, `IssuedFits`), which is where a lapsed key loses what it was granted; an answer
names a challenge that was given out, whoever put it together (`BodyFits`), and a slot is
for the token its challenge names (`SlotsFit`), so a consumed one is never found again; the
manifest is at most half its life past its refresh (`ManifestFits`), hence in date
(`OwnManifest`). Besides the constants' types it is assumed that tokens from elsewhere are
not signed by this peer or do not grant the echo, and that a manifest lives two seconds. A
waiting COMMIT is carried by the invariant too (`CommitFits`): its session was in time when
it was taken and `REQUEST_TIMEOUT` bounds the wait, which is where the third summand of the
bound comes from; its manifest may by then have been replaced, and need only be in date.

`ReplayProofs`, about the deny list (any number of threads, ids and shards): `ListCorrect` (`ListInv`),
`IdRecordedOnce` (`RecordsFreshId`), `ListStaysBounded` (`ListKept`). The counter equals
records plus debts minus insertions not yet counted (`Exact`). The bound on the overrun
is inductive only with the callers that found room and have not put their record
(`OverrunReserved`); that a put meets no record is what the lock gives (`LockFits`),
after a recheck on the path that had let go of it.

About the identity mechanisms, also in `ReplayProofs`, for any peers, keys and issuers:
`IdentityCorrect` (`IdInv`) and `IdentityIsExact` (`IdentityExact`). The invariant is short:
what was made is what a peer asked for, for a handshake it may ask for, and a token is as
its issuer makes it for that peer (`ProofFits`). The work is in the verifiers, each of
which is shown to say `"ok"` exactly when a condition holds (`PinnedMeans`, `OidcMeans`,
`JwtSvidMeans`, `X509Means`, `SpiffeMeans`, `BootMeans`). A signed tuple tells the mechanism
and the handshake (`InputTells`), and a subject its user or its workload (`NamesTell`).
`MintAssumption` says that the value for none is none of the others, that the provider's
URL is no trust domain, and that the authority's keys have a `kid`. An issuer signs ES256
with a key that is meant for it (`SigningKeys`); without that `build_descriptor`'s own
token would not verify, and the proof found the case. Nor would it if another key came first
under the same `kid`; acceptance therefore asks that the signing key be the first
(`SignedWithFirst`), and the theorem has no other condition on how `kid`s repeat.
`JwksAssumption` says that a key set is a sequence, and `IdentityAssumption` that a bundle's
`kid`s are distinct.

`KeysProofs`: `KeyFileSafe` (`KeyFileKept`; any number of commands: the file is unwritten
while its one creator is between create and write), `ResolutionCorrect` (`KrInv`),
`KeysStayFresh` (`KeysSurviveRaces`), `RequestsGuarded` (`OnlyPermittedAddresses`). The
invariant of key resolution keeps, for whatever a cache or a call in progress holds, how
long ago it was the issuer's: each request adds one timeout at most, each cache its
lifetime, and a store may be late by what its call has left.

`PeersProofs`: `RateCorrect` (`RateInv`), `BucketsHoldRate` (`RateHolds`): what a key has
been given plus what its bucket holds is at most its burst plus the rate over the bucket's
time (`mark`) and the time by which readings were overtaken; a forgotten bucket counts as
full, which is why forgetting full ones is harmless. `RenewalCorrect` (`RenewInv`),
`RenewedOnce` (`NonceRenewsOnce`), `RenewalsStaySound` (`RenewalsSound`): a nonce belongs
to the token it was presented with, since the proof of possession signs both, and the
store remembers it until that token has expired (`RenewalFits`); a handler past
verification read its clock within the Manifest's lifetime and the token off the list
(`HandlerFits`). `VerdictMeans`, `JoinHolds` and the lemmas after them say what an `"ok"`
of a list of checks means, and `BeforeMeans` what it means of the token verifier; every
verifier of the model is such a list. They are in `VerifierProofs`, for the interop peer's too.

About the bindings, also in `PeersProofs`: `SessionsCorrect` (`SessionInv`) and
`LatestCompletes` (`LatestHelloCompletes`), for any sequence of calls and messages handed
in: since a nonce tells one HELLO_ACK from all others, and an initiator makes at most one
COMMIT per HELLO (`InitiatorFits`), a COMMIT_ACK that echoes its nonce stems from the very
HELLO_ACK it committed to (`CommitAcksEarned`). `CacheCorrect` (`CacheInv`) and
`CacheAnswersFresh` (`CacheSound`), for any capacity: an entry says what its token says
and that token passed once; of the checks it passed, only those of the lifetime and of
the deny list depend on the time, and a hit repeats both (`PassesLater`).

About `connect`, also in `PeersProofs`: `ConnectCorrect` (`ConnectInv`) and
`ConnectIsSound` (`ConnectSound`), for any number of jobs, any retry policy, guard mode and
lookups. What answers is anyone, so nothing can be assumed of an answer; what a verifier
accepts of the published and the forged manifests is a published one (`OnlyPublished`: the
signature covers every other member and is by the agent the manifest names), and what it
accepts of a COMMIT_ACK is the peer's token for us (`CommitHolds`). `Fits` ties a job's
stage to what it holds, so each of the facade's answers is compared with the one before:
HELLO_ACK with the manifest, COMMIT_ACK with the key that HELLO_ACK left.

About the signer, also in `PeersProofs`: `SigningCorrect` (`SigningInv`) and
`SigningIsExact` (`SigningExact`), for any keys of either algorithm and any answers of
the backend. What was emitted verified as its target when it was emitted, and since the
agent's AID does not change it still does: `finalize` verifies before it lets a signature
out, whatever the backend did, which is all that safety rests on. That a backend with the
agent's key is always served needs the conversions of DER and of a high S.

About session bundles, also in `PeersProofs`: `BundlesCorrect` (`SbInv`) and `BundlesExact`
(`BundleExact`), for any agents, tokens and sessions and whatever is posted of a bundle. The
invariant gives the shape of each bundle built and stored (`MadeFits`, `StoredFits`) and
what is known of one that was accepted (`VerifiedFits`): the verifier recomputes the
earliest expiry (`MinExpMeans`) and checks each token against its entry, so nothing is
assumed of what the server holds. For the other half, tokens that are `SoundToken`, which
is what the participants check and the builder does not, pass every check until the first
of them ends, at which the bundle ends too (`SoundVerifies`, `BuiltVerify`).

About delegation, also in `PeersProofs`, for any number of agents, grants, tokens and
revocations and chains of any length: `DelegationCorrect` (`DelegationInv`),
`DelegationIsSound` (`DelegationSound`), `VerifiersDoAgree` (`VerifiersAgree`). The invariant
is local: a hop of an agent that keeps to the builders is within the scope and the life of
the one voucher or hop it was built from (`BuiltHop`), whatever chain it carries; a `Lax`
agent's hop is only of agents and tokens there are. What a verifier accepts is therefore
followed hop by hop through its chain, and a chain whose hops are live passes on what its
first voucher granted. `Entitled` closes under the hops as many times as there are agents:
a closure that is not complete after that many rounds would have given a new agent
something in each (`EntitledClosed`, by cardinality, which is why agents are assumed
finite). For the agreement, what the builders make passes each check of the chain verifier
unless a token ended, was listed or does not resolve (`Unimpeded`).

About the sliding windows, also in `PeersProofs`, for any clients, proxies, limits and headers:
`WindowCorrect` (`WindowInv`) and `ClientsAreBounded` (`ClientBounded`). The address that
`source_ip.rs` finds is the client's own (`NearestHop`, `ChargesItsOwn`): the walk from the nearest hop
outwards stops at the first address that is not a trusted proxy's, and a client's own is
written by the proxy behind whatever the client wrote itself. What a client got through is
then among the events its key still counts (`WindowFits`), which are at most the limit. An AID is
charged by the same table; the assumption says that AIDs and addresses are told apart.

About the conformance runner, also in `PeersProofs`, for any fixtures and flags and any
number of timeouts, late answers and deaths of the adapter: `ConformanceCorrect` (`CfInv`) and
`VerdictsAreEarned` (`VerdictEarned`). The invariant says how far the reference run of the
fixture has got (`GotTo`: what was concluded was answered as the reference answers and as the
fixture wants) and that the requests under way take the adapter from where it is to where the
reference will be (`PipeFits`), the requests nobody waits for any more included. Request
ids only grow, so a line with the awaited id is the answer to the call that is awaited, and
a late one is never taken for it. A result is then earned when it is given (`ResultFits`):
a pass by the fixture, anything else by the fixture or by a fault. One fact about the
fixtures is assumed, `FixturesAreIndependent`, and TLC evaluates it for the run's: a fixture passes
after those before it, cut short anywhere, exactly when it passes on an adapter of its own. The
adapter keeps revoked ids, message ids, challenges and sessions for its whole run, so
without that the verdict depends on the order of the fixtures.

Recursion over data. `Serving`, `StatesBefore`, `Entitled`, the nearest hop and the chains are
recursive functions. That one exists, and what it computes at each number, is shown by the
least number at which it would fail (`UpTo`, in `VerifierProofs`), for each function anew, since
the library's theorems on induction take an operator.

The constants' assumptions are those of the modules; they say that the sets are finite
where they are counted, that durations are natural numbers, and that the value for "none"
is none of the others. TLC evaluates them in every run.

Only model-checked: `CallsReturn` and `PrepareReturns`, liveness under fairness, which is
out of the prover's reach. Every other property of a passing run is a theorem.

## 5. What is not modelled

Signatures are idealised and encodings (base64url, JCS, DER, thumbprints) are left
out: TLC cannot say anything about bytes. Metrics and logs are left out.

- Self-attestations beyond what the token verifier does with one, and the context
  builders of `tct/verifier.rs`, which only collect arguments.
- `server_limits.rs`, which sets options of hyper and tower.
- The A2A bridge (one member of an agent card) and the offline commands of the command
  line (keygen, inspect, verify): no state of their own.
- Of the interop peer, the body cap, which ends a request before it changes anything, and its
  rate limits, which are those of `RateLimit`.
- The companion voucher of a COMMIT (`Handshake`), and in `KeyResolution` the moment between the
  two cache locks of `resolve_local`.
- Of the bindings, the wrappers of delegation, renewal and bundles, whose callees are
  modelled, and `JwksProvider`.
- Of the conformance adapter, placeholder minting and the stateless operations; the
  tools that mint fixtures.

What would come next: `HandshakeServer` composed with `Handshake`'s `Responder`; several key sets that do
not parse in `Identity`; fixtures that share ids in `Conformance`.
