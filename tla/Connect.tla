------------------------------ MODULE Connect -------------------------------
(***************************************************************************)
(* ManifestFetcher (crates/aitp/src/transport/client.rs) and               *)
(* run_initiator_handshake (crates/aitp/src/facade.rs): a job fetches the  *)
(* manifest behind a URL and, when it is a handshake, says HELLO and       *)
(* COMMIT to the endpoint the manifest names. What answers is whoever the  *)
(* network leads to: manifests may be old, forged or another agent's, and  *)
(* envelopes may be signed by any peer. Jobs that only fetch share one     *)
(* fetcher and its cache; a handshake has a fetcher of its own, which      *)
(* never retries. The state machine behind the two messages is that of     *)
(* module Handshake; here it is what the facade sees of it.                *)
(***************************************************************************)
EXTENDS Manifests, Network, Tokens

CONSTANTS
  Me,
  Jobs,                \* callers of the shared fetcher, and
  Handshakes,          \* the ones that run a handshake instead
  MAX_ATTEMPTS,        \* retry policy of the shared fetcher
  INSECURE_LOCALHOST,
  HOST_GUARD,          \* guard mode
  Lookups,             \* what a host may resolve to
  MANIFEST_TTL,
  MaxWall              \* bound of the model: last second of the clock

ASSUME ConnectAssumption ==
  /\ Me \in Agents /\ Handshakes \subseteq Jobs /\ {MAX_ATTEMPTS, MANIFEST_TTL, MaxWall} \subseteq Nat
  /\ INSECURE_LOCALHOST \in BOOLEAN

VARIABLES
  wall,     \* the clock
  entries,  \* the shared fetcher's cache: agent -> manifest or None
  job       \* what each job is doing

cnVars == <<wall, entries, job>>

OtherAgents == Agents \ {Me}
NoJob == [pc |-> "idle", attempt |-> 0, wakes |-> 0, manifest |-> None, at |-> 0,
          peer |-> None, peer_pk |-> None, cap |-> 0, session |-> None]

CnInit ==
  /\ wall = 0
  /\ entries = [a \in Agents |-> None]
  /\ job = [j \in Jobs |-> NoJob]

Become(j, r) == job' = [job EXCEPT ![j] = r]
Fails(j) == Become(j, [NoJob EXCEPT !.pc = "failed"])

(***************************************************************************)
(* What is out there.                                                      *)
(***************************************************************************)

\* The manifests an agent has published by now, one a second.
OfAgent(a, t) ==
  Built([hint |-> [kind |-> "pinned_key", subject |-> "s", issuer |-> None, public_key |-> a],
         handshake_endpoint |-> "https", anchors |-> << >>, identity_types |-> <<"pinned_key">>,
         offered |-> <<"g">>, required |-> None, ttl |-> MANIFEST_TTL], a, t, "c", None)
Published == {OfAgent(a, t) : a \in OtherAgents, t \in 0..wall}

\* Changed on the way, or signed by another agent.
Forged ==
  {[m EXCEPT !.expires_at = MaxWall + MANIFEST_TTL] : m \in Published}
    \cup {Signed(m, a) : m \in Published, a \in OtherAgents}

Doc(m) ==
  [json |-> TRUE, duplicate_key |-> FALSE, wrapped |-> FALSE, wrapper_members |-> {},
   manifest_key |-> TRUE, members |-> MANIFEST_MEMBERS, well_typed |-> TRUE, body |-> m]
Docs ==
  LET d == Doc(OfAgent(CHOOSE a \in OtherAgents : TRUE, 0))
  IN  {Doc(m) : m \in Published \cup Forged}
        \cup {[d EXCEPT !.duplicate_key = TRUE], [d EXCEPT !.manifest_key = FALSE],
              [d EXCEPT !.members = @ \cup {"unknown"}]}

Page(doc) ==
  [arrives |-> "ok", status |-> 200, json_type |-> TRUE, fits |-> TRUE, doc |-> doc]
Pages ==
  LET p == Page(CHOOSE d \in Docs : TRUE)
  IN  {Page(d) : d \in Docs}
        \cup {[p EXCEPT !.arrives = "Timeout"], [p EXCEPT !.arrives = "Network"],
              [p EXCEPT !.status = 404], [p EXCEPT !.status = 503],
              [p EXCEPT !.json_type = FALSE], [p EXCEPT !.fits = FALSE]}

(***************************************************************************)
(* ManifestFetcher.                                                        *)
(***************************************************************************)

\* fetch up to its retry loop; plain http to localhost skips the guard.
UrlVerdict(url, dns) ==
  IF url = "https" THEN ResolveChecked(HOST_GUARD, INSECURE_LOCALHOST, dns, None)
  ELSE IF url = "http-localhost" /\ INSECURE_LOCALHOST THEN "ok"
  ELSE "InsecureUrl"

Fetch(j, url, dns) ==
  /\ job[j].pc = "idle"
  /\ IF UrlVerdict(url, dns) = "ok"
     THEN Become(j, [NoJob EXCEPT !.pc = "attempt", !.attempt = 1])
     ELSE Fails(j)
  /\ UNCHANGED <<wall, entries>>

AttemptVerdict(p) ==
  Verdict(<<
    <<p.arrives = "ok", p.arrives>>,
    <<p.status \in 200..299, IF p.status >= 500 THEN "ServerError" ELSE "UpstreamStatus">>,
    <<p.json_type, "WrongContentType">>,
    <<p.fits, "OversizedResponse">>,
    Sub(CheckedJson(p.doc)),
    <<p.doc.manifest_key, "MalformedWrapper">>,
    Sub(ParseManifestWire(p.doc)),
    Sub(VerifyManifest(p.doc.body, wall, INSECURE_LOCALHOST, None)) >>)
IsTransient(verdict) == verdict \in {"Timeout", "Network", "ServerError"}
Policy(j) == RetryPolicy(IF j \in Handshakes THEN 1 ELSE MAX_ATTEMPTS, 1, 1, 1, 50)

InsertCache(m) == entries' = [entries EXCEPT ![m.aid] = m]

FetchAttempt(j, p) ==
  LET verdict == AttemptVerdict(p)
      m == p.doc.body
  IN  /\ job[j].pc = "attempt" /\ wall >= job[j].wakes
      /\ IF verdict = "ok"
         THEN /\ Become(j, [job[j] EXCEPT !.pc = "fetched", !.manifest = m, !.at = wall])
              /\ IF j \in Handshakes THEN UNCHANGED entries ELSE InsertCache(m)
         ELSE /\ IF IsTransient(verdict) /\ job[j].attempt < Policy(j).max_attempts
                 THEN \E delay \in JitteredDelayBefore(Policy(j), job[j].attempt + 1) :
                        Become(j, [job[j] EXCEPT !.attempt = @ + 1, !.wakes = wall + delay])
                 ELSE Fails(j)
              /\ UNCHANGED entries
      /\ UNCHANGED wall

CachedManifest(a) ==
  IF entries[a] # None /\ entries[a].expires_at > wall THEN entries[a] ELSE None

\* A caller takes the manifest of an agent from the cache.
UseCached(j, a) ==
  /\ job[j].pc = "idle" /\ j \notin Handshakes
  /\ CachedManifest(a) # None
  /\ Become(j, [NoJob EXCEPT !.pc = "fetched", !.manifest = CachedManifest(a), !.at = wall])
  /\ UNCHANGED <<wall, entries>>

\* maybe_replace_inline, with a manifest that some handshake verified.
ReplaceInline(m) ==
  /\ ~(entries[m.aid] # None /\ m.published_at <= entries[m.aid].published_at)
  /\ InsertCache(m)
  /\ UNCHANGED <<wall, job>>

(***************************************************************************)
(* run_initiator_handshake, from the manifest on.                          *)
(***************************************************************************)

\* The second lookup is that of the handshake endpoint (build_guarded_client);
\* its addresses serve both requests.
BuildGuardedClient(dns) == ResolveChecked(HOST_GUARD, INSECURE_LOCALHOST, dns, None)

\* IdentityMode::presented_type of a facade that presents a pinned key.
PresentedType == "pinned_key"

Hello(j, dns) ==
  LET m == job[j].manifest
  IN  /\ job[j].pc = "fetched" /\ j \in Handshakes
      /\ IF AcceptsIdentityType(m, PresentedType, None) /\ BuildGuardedClient(dns) = "ok"
         THEN Become(j, [job[j] EXCEPT !.pc = "hello", !.peer = m.aid])
         ELSE Fails(j)
      /\ UNCHANGED <<wall, entries>>

\* An answer of the endpoint: an HTTP response with an envelope in it.
Reply(env) == [status |-> 200, json_type |-> TRUE, fits |-> TRUE, env |-> env]
Sealed(by, sender, payload) ==
  LET e == UnsignedEnvelope(sender, "ack", payload, wall, None)
  IN  [e EXCEPT !.signature = [by |-> by, over |-> EnvelopeInput(e), well_formed |-> TRUE]]
Broken(r) ==
  {[r EXCEPT !.status = 403], [r EXCEPT !.json_type = FALSE], [r EXCEPT !.fits = FALSE],
   [r EXCEPT !.env.members = @ \cup {"unknown"}]}

\* read_aitp_response_body, validate_aitp_response_shape and
\* interpret_aitp_envelope_response.
ResponseVerdict(r) ==
  Verdict(<<
    <<r.fits, "Http">>,
    <<r.status < 400, "Protocol">>,
    <<r.json_type, "Http">>,
    Sub(ParseEnvelopeWire(r.env)) >>)

HelloAcks(j) ==
  LET acks == {Reply(Sealed(by, s, [manifest |-> m, pop_nonce_echo |-> k])) :
                 by \in OtherAgents, s \in OtherAgents, m \in Published, k \in Jobs}
  IN  acks \cup Broken(Reply(Sealed(job[j].peer, job[j].peer,
                                    [manifest |-> OfAgent(job[j].peer, 0), pop_nonce_echo |-> j])))

\* bootstrap_verify_peer, of which the identity proof is module Identity.
BootstrapVerifyPeer(env) ==
  /\ env.sender = env.payload.manifest.aid
  /\ VerifyManifest(env.payload.manifest, wall, INSECURE_LOCALHOST, None) = "ok"

\* Mutant of IntendedPeerAnswers: whoever answers becomes the peer.
IntendedPeerAnyone(j, env) == TRUE
IntendedPeerAnswers(j, env) ==
  env.sender = job[j].peer /\ env.payload.manifest.aid = job[j].peer

OnHelloAck(j, r) ==
  /\ job[j].pc = "hello"
  /\ IF /\ ResponseVerdict(r) = "ok"
        /\ VerifyEnvelopeSignature(r.env, r.env.sender)
        /\ IntendedPeerAnswers(j, r.env)
        /\ r.env.payload.pop_nonce_echo = j
        /\ BootstrapVerifyPeer(r.env)
     THEN Become(j, [job[j] EXCEPT !.pc = "commit", !.peer_pk = r.env.sender,
                                   !.cap = r.env.payload.manifest.expires_at])
     ELSE Fails(j)
  /\ UNCHANGED <<wall, entries>>

\* No step reads which id a token has, only what the issuer's list says of it.
AnyJti == CHOOSE x \in Jtis : TRUE

CommitAcks(j) ==
  LET tcts == {[typ |-> "tct", signer |-> by, flaw |-> "none", jti |-> x, iss |-> s, sub |-> Me,
                aud |-> Me, iat |-> wall, exp |-> e, grants |-> Grants \ (Spaced \cup {ATTESTATION_GRANT}),
                jkt |-> Me, ext |-> FALSE] :
                 by \in OtherAgents, s \in OtherAgents, x \in {AnyJti}, e \in {wall, wall + MANIFEST_TTL + 1}}
      pays == [tct : tcts, pop_nonce_echo : Jobs, pop : OtherAgents]
  IN  {Reply(Sealed(by, s, p)) : by \in OtherAgents, s \in OtherAgents, p \in pays}

\* on_commit_ack once the issuer's list is prepared; answer is what it says.
CommitVerdict(j, r, answer) ==
  LET ack == r.env.payload
      ctx == [issuer |-> job[j].peer, for |-> Me, now |-> wall, clock_skew |-> 0,
              cap |-> job[j].cap, revocation |-> "check"]
  IN  IF ResponseVerdict(r) # "ok" THEN "Http"
      ELSE Verdict(<<
        <<VerifyEnvelopeSignature(r.env, job[j].peer_pk), "Http">>,
        <<r.env.sender = job[j].peer, "InvalidEnvelope">>,
        <<ack.pop_nonce_echo = j, "NonceMismatch">>,
        <<ack.pop = job[j].peer_pk, "PopFailed">>,
        Sub(VerifyTct(ack.tct, ctx, answer).verdict) >>)

OnCommitAck(j, r, answer) ==
  /\ job[j].pc = "commit"
  /\ IF CommitVerdict(j, r, answer) = "ok"
     THEN Become(j, [job[j] EXCEPT !.pc = "done",
            !.session = [peer_aid |-> job[j].manifest.aid, peer_pubkey |-> job[j].peer_pk,
                         held_tct |-> r.env.payload.tct, pop |-> r.env.payload.pop]])
     ELSE Fails(j)
  /\ UNCHANGED <<wall, entries>>

CnTick ==
  /\ wall < MaxWall
  /\ wall' = wall + 1
  /\ UNCHANGED <<entries, job>>

CnNext ==
  \/ \E j \in Jobs, dns \in Lookups, url \in {"https", "http-localhost", "http"} : Fetch(j, url, dns)
  \/ \E j \in Jobs, p \in Pages : FetchAttempt(j, p)
  \/ \E j \in Jobs, a \in OtherAgents : UseCached(j, a)
  \/ \E j \in Jobs : job[j].pc = "fetched" /\ ReplaceInline(job[j].manifest)
  \/ \E j \in Jobs, dns \in Lookups : Hello(j, dns)
  \/ \E j \in Jobs : job[j].pc = "hello" /\ \E r \in HelloAcks(j) : OnHelloAck(j, r)
  \/ \E j \in Jobs : job[j].pc = "commit" /\
        \E r \in CommitAcks(j), x \in {"clear", "revoked", "unavailable"} :
           OnCommitAck(j, r, Answer(x))
  \/ CnTick

CnSpec == CnInit /\ [][CnNext]_cnVars

(***************************************************************************)
(* Properties.                                                             *)
(***************************************************************************)

\* The parts of a session the facade returns are of one peer, although they
\* come from four answers of the network: the agent of the manifest fetched
\* first is the one whose key it gives the caller, who issued the token for
\* us under that key, and who proved possession in COMMIT_ACK.
SessionBound ==
  \A j \in Jobs : job[j].pc = "done" =>
     LET s == job[j].session
     IN  /\ s.peer_pubkey = s.peer_aid /\ s.pop = s.peer_aid
         /\ s.held_tct.iss = s.peer_aid /\ s.held_tct.signer = s.peer_aid
         /\ s.held_tct.sub = Me

\* Every manifest in the cache was published by the agent it is filed under,
\* whichever origin served it; and the one a caller works with, fetched or
\* cached, was in date when the caller got it.
ManifestInDate ==
  /\ \A a \in Agents : entries[a] # None => entries[a].aid = a /\ entries[a] \in Published
  /\ \A j \in Jobs : job[j].manifest # None =>
        job[j].manifest \in Published /\ job[j].at <= job[j].manifest.expires_at

\* What connect hands its caller is one peer's, from a manifest that peer published and
\* that was in date: over retries, cached manifests and whoever answers.
ConnectSound == SessionBound /\ ManifestInDate
=============================================================================
