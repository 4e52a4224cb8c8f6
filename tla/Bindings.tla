------------------------------ MODULE Bindings ------------------------------
(***************************************************************************)
(* The language bindings (bindings/aitp-py, bindings/aitp-node): the       *)
(* objects an application holds and calls in whatever order it likes. A    *)
(* Python agent initiates and a Node agent responds; each binding has both *)
(* roles, in the same words. The bindings check neither the age of a       *)
(* message nor its replay: an application may hand in any message that was *)
(* ever made, so wire only grows. A call that raises changes nothing       *)
(* unless an action says so.                                               *)
(***************************************************************************)
EXTENDS Tokens, Manifests

CONSTANTS
  PyAgent, JsAgent,   \* the agents, by AID
  CAPS,               \* offered_caps of both, as a sequence
  REQUIRED_CAPS,      \* required_caps of both, as a set
  TTLS,               \* ttl_secs given to build_manifest
  IDENTITY_TYPE,      \* identity_type given to build_manifest
  PINNED_KEYS,        \* pinned_keys of each session: a function of the agent
  MAX_NONCES,         \* bound of the model: nonces drawn by the sessions
  BINDING_TCT_TTL,    \* DEFAULT_TCT_TTL
  RevokedLists,       \* revoked_jtis arguments, None when not given
  MAX_ENTRIES,        \* of the TctStore
  PresentedTokens,    \* tokens shown to the Node agent
  MaxBindingTime      \* bound of the model: last second of the clock

ASSUME BindingsAssumption ==
  /\ {PyAgent, JsAgent} \subseteq Agents /\ PyAgent # JsAgent
  /\ MAX_ENTRIES \in Nat \ {0} /\ BINDING_TCT_TTL \in Nat \ {0}
  /\ MaxBindingTime \in Nat \ {0} /\ MAX_NONCES \in Nat
  /\ PresentedTokens \subseteq Tct

VARIABLES
  bnow,         \* the system clock
  manifests,    \* the manifest each agent object holds
  initiator,    \* the Python InitiatorSession: manifest, inner
  responder,    \* the Node ResponderSession: manifest, inner
  wire,         \* every JSON text a session has returned
  latest,       \* history: the nonce of the HELLO returned last
  completed,    \* history: what the handshakes returned
  tctStore,     \* the Node TctStore: map, and order of insertion
  tctCall       \* history: the last verifyTctCached that succeeded

ssVars == <<manifests, initiator, responder, wire, latest, completed>>
tsVars == <<tctStore, tctCall>>
bdVars == <<bnow, ssVars, tsVars>>

Modes == {"fail_closed", "fail_open"}
Offers(m) == {m.offered[k] : k \in DOMAIN m.offered}
NoSession == [manifest |-> None, inner |-> None]

BdInit ==
  /\ bnow = 1
  /\ manifests = [a \in {PyAgent, JsAgent} |-> None]
  /\ initiator = NoSession /\ responder = NoSession
  /\ wire = {} /\ latest = None /\ completed = {}
  /\ tctStore = [map |-> <<>>, order |-> <<>>]
  /\ tctCall = None

(***************************************************************************)
(* helpers.rs.                                                             *)
(***************************************************************************)

\* binding_revocation and BindingRevocation: a deny list counts whatever the
\* mode; without one the answer is missing, unless the caller fails open.
BindingSource(revoked, mode) == IF revoked = None /\ mode = "fail_open" THEN "fail_open" ELSE "check"
JtiStatus(revoked, mode, jti) ==
  CASE revoked = None -> Answer(IF mode = "fail_open" THEN "clear" ELSE "unavailable")
    [] OTHER -> Answer(IF jti \in revoked THEN "revoked" ELSE "clear")

\* ttl_window: a negative lifetime ends before it starts.
TtlWindow(ttl) == IF ttl >= 0 THEN [from |-> bnow, ttl |-> ttl] ELSE [from |-> bnow + ttl, ttl |-> 0]

(***************************************************************************)
(* agent.rs.                                                               *)
(***************************************************************************)
BuildManifest(a, ttl) ==
  LET w == TtlWindow(ttl)
      hint == [kind |-> IDENTITY_TYPE, subject |-> "agent",
               issuer |-> IF IDENTITY_TYPE = "oidc" THEN "https" ELSE None,
               public_key |-> IF IDENTITY_TYPE = "oidc" THEN None ELSE a]
  IN  /\ ValidateIdentityHint(hint, None)
      /\ manifests' = [manifests EXCEPT ![a] =
           Built([hint |-> hint, handshake_endpoint |-> "https", offered |-> CAPS,
                  anchors |-> IF IDENTITY_TYPE = "oidc" THEN <<"https">> ELSE <<>>,
                  identity_types |-> <<IDENTITY_TYPE>>, required |-> None, ttl |-> w.ttl],
                 a, w.from, "challenge", None)]
      /\ UNCHANGED <<bnow, initiator, responder, wire, latest, completed, tsVars>>

\* A session keeps the manifest the agent had when it was made.
NewSession ==
  /\ manifests[PyAgent] # None
  /\ initiator' = [manifest |-> manifests[PyAgent], inner |-> None]
  /\ UNCHANGED <<bnow, manifests, responder, wire, latest, completed, tsVars>>

NewResponder ==
  /\ manifests[JsAgent] # None
  /\ responder' = [manifest |-> manifests[JsAgent], inner |-> None]
  /\ UNCHANGED <<bnow, manifests, initiator, wire, latest, completed, tsVars>>

(***************************************************************************)
(* session.rs. What the core's Initiator and Responder check is in module  *)
(* Handshake; here it is what the calls of a session make of it.           *)
(***************************************************************************)
\* Nonces and token ids are only compared: which unused one is drawn is all
\* the same.
FreshNonces == {Cardinality({m \in wire : m.type \in {"hello", "hello_ack"}}) + 1} \cap 1..MAX_NONCES
FreshJtis ==
  LET unused == Jtis \ {m.tct.jti : m \in {x \in wire : x.type \in {"commit", "commit_ack"}}}
  IN  IF unused = {} THEN {} ELSE {CHOOSE j \in unused : TRUE}

\* presented_identity: an OIDC agent needs the callable that mints its token.
Presents(s, minter) == s.manifest.hint.kind # "oidc" \/ minter

\* bootstrap_verify_peer and apply_peer_policy under make_peer_config.
PeerVerified(s, m) ==
  /\ VerifyManifest(m.manifest, bnow, FALSE, None) = "ok"
  /\ m.to = s.manifest.aid
  /\ s.manifest.hint.kind = "pinned_key" => m.manifest.aid \in PINNED_KEYS[s.manifest.aid]
  /\ AcceptsIdentityType(s.manifest, m.manifest.hint.kind, None)

\* issue_tct_for_peer: never past our own manifest, and not once it is out.
Issued(s, peer, requested, jti) ==
  LET exp == Least(bnow + BINDING_TCT_TTL, s.manifest.expires_at)
      b == [subject |-> peer, audience |-> peer, subject_pubkey |-> peer, jti |-> jti,
            grants |-> requested \cap Offers(s.manifest), ttl |-> exp - bnow,
            mint_voucher |-> FALSE, ext |-> FALSE, attestation |-> FALSE]
  IN  IF exp > bnow /\ DraftVerdict(s.manifest.aid, b) = "ok"
      THEN {BuiltTct(s.manifest.aid, b, bnow)} ELSE {}

\* verify_received_tct.
ReceivedTct(s, t, revoked, mode) ==
  LET v == VerifyTct(t, [issuer |-> s.inner.peer, for |-> s.manifest.aid, now |-> bnow, clock_skew |-> 0,
                         cap |-> s.inner.cap, revocation |-> BindingSource(revoked, mode)],
                     JtiStatus(revoked, mode, t.jti))
  IN  v.verdict = "ok" /\ t.grants \subseteq s.inner.offered /\ REQUIRED_CAPS \subseteq v.grants

Inner(state, nonce, m) ==
  [state |-> state, nonce |-> nonce, peer |-> m.manifest.aid, peerNonce |-> m.nonce,
   cap |-> m.manifest.expires_at, offered |-> Offers(m.manifest), requested |-> m.requested]

\* Mutant of BuildHello: a session that has begun keeps its Initiator.
BuildHelloKeepsInner(peerManifest, requested, minter, nonce) ==
  /\ initiator.manifest # None
  /\ VerifyManifest(peerManifest, bnow, FALSE, None) = "ok"
  /\ AcceptsIdentityType(peerManifest, initiator.manifest.hint.kind, None)
  /\ Presents(initiator, minter)
  /\ IF initiator.inner = None
     THEN initiator' = [initiator EXCEPT !.inner =
            [state |-> "AwaitingHelloAck", nonce |-> nonce, peer |-> peerManifest.aid]]
     ELSE UNCHANGED initiator
  /\ wire' = wire \cup {[type |-> "hello", manifest |-> initiator.manifest, to |-> peerManifest.aid,
                         nonce |-> nonce, requested |-> requested]}
  /\ latest' = nonce
  /\ UNCHANGED <<bnow, manifests, responder, completed, tsVars>>

\* Every call starts over: the Initiator of an earlier HELLO is dropped.
BuildHello(peerManifest, requested, minter, nonce) ==
  /\ initiator.manifest # None
  /\ VerifyManifest(peerManifest, bnow, FALSE, None) = "ok"
  /\ AcceptsIdentityType(peerManifest, initiator.manifest.hint.kind, None)
  /\ Presents(initiator, minter)
  /\ initiator' = [initiator EXCEPT !.inner =
        [state |-> "AwaitingHelloAck", nonce |-> nonce, peer |-> peerManifest.aid]]
  /\ wire' = wire \cup {[type |-> "hello", manifest |-> initiator.manifest, to |-> peerManifest.aid,
                         nonce |-> nonce, requested |-> requested]}
  /\ latest' = nonce
  /\ UNCHANGED <<bnow, manifests, responder, completed, tsVars>>

\* on_hello_ack: an answer to something else ends the attempt; a token that
\* cannot be issued leaves it as it was.
ProcessHelloAck(m, jti) ==
  LET i == initiator.inner
      forUs == m.manifest.aid = i.peer /\ m.echo = i.nonce /\ PeerVerified(initiator, m)
  IN  /\ i # None /\ i.state = "AwaitingHelloAck"
      /\ IF forUs
         THEN \E t \in Issued(initiator, i.peer, m.requested, jti) :
                /\ initiator' = [initiator EXCEPT !.inner = Inner("AwaitingCommitAck", i.nonce, m)]
                /\ wire' = wire \cup {[type |-> "commit", from |-> PyAgent, echo |-> m.nonce,
                                       pop |-> m.nonce, tct |-> t]}
         ELSE initiator' = [initiator EXCEPT !.inner.state = "Failed"] /\ UNCHANGED wire
      /\ UNCHANGED <<bnow, manifests, responder, latest, completed, tsVars>>

\* on_commit_ack: what a deny list or a bad token stops can be called again.
Complete(m, revoked, mode) ==
  LET i == initiator.inner
  IN  /\ i # None /\ i.state = "AwaitingCommitAck"
      /\ IF m.from = i.peer /\ m.echo = i.nonce
         THEN /\ m.pop = i.nonce /\ ReceivedTct(initiator, m.tct, revoked, mode)
              /\ initiator' = [initiator EXCEPT !.inner.state = "Done"]
              /\ completed' = completed \cup
                   {[by |-> PyAgent, nonces |-> <<i.nonce, i.peerNonce>>, latest |-> latest]}
         ELSE initiator' = [initiator EXCEPT !.inner.state = "Failed"] /\ UNCHANGED completed
      /\ UNCHANGED <<bnow, manifests, responder, wire, latest, tsVars>>

\* Each HELLO that is accepted replaces the Responder of the one before; the
\* grants asked for are the ones the peer's manifest offers.
ProcessHello(m, minter, nonce) ==
  /\ responder.manifest # None
  /\ Presents(responder, minter) /\ PeerVerified(responder, m)
  /\ responder' = [responder EXCEPT !.inner = Inner("AwaitingCommit", nonce, m)]
  /\ wire' = wire \cup {[type |-> "hello_ack", manifest |-> responder.manifest, to |-> m.manifest.aid,
                         nonce |-> nonce, echo |-> m.nonce, requested |-> Offers(m.manifest)]}
  /\ UNCHANGED <<bnow, manifests, initiator, latest, completed, tsVars>>

ProcessCommit(m, revoked, mode, jti) ==
  LET r == responder.inner
  IN  /\ r # None /\ r.state = "AwaitingCommit"
      /\ IF m.from = r.peer /\ m.echo = r.nonce
         THEN /\ m.pop = r.nonce /\ ReceivedTct(responder, m.tct, revoked, mode)
              /\ \E t \in Issued(responder, r.peer, r.requested, jti) :
                   wire' = wire \cup {[type |-> "commit_ack", from |-> JsAgent, echo |-> r.peerNonce,
                                       pop |-> r.peerNonce, tct |-> t]}
              /\ responder' = [responder EXCEPT !.inner.state = "Done"]
              /\ completed' = completed \cup
                   {[by |-> JsAgent, nonces |-> <<r.peerNonce, r.nonce>>, latest |-> latest]}
         ELSE responder' = [responder EXCEPT !.inner.state = "Failed"] /\ UNCHANGED <<wire, completed>>
      /\ UNCHANGED <<bnow, manifests, initiator, latest, tsVars>>

(***************************************************************************)
(* tct.rs and pop.rs. A call has the token, the grant, the audience        *)
(* expected (None: our own), revoked_jtis, the mode and a PoP exchange     *)
(* (None, or the challenge and the response).                              *)
(***************************************************************************)

\* pop_audience: a PoP pins the audience to the holder; both is an error.
Audience(c) == CASE c.pop # None -> c.token.sub [] c.audience # None -> c.audience [] OTHER -> JsAgent

\* verify_tct_with: the issuer is whoever the token names.
VerifyTctWith(c, now) ==
  LET v == VerifyTct(c.token, [issuer |-> c.token.iss, for |-> Audience(c), now |-> now, clock_skew |-> 0,
                               cap |-> None, revocation |-> BindingSource(c.revoked, c.mode)],
                     JtiStatus(c.revoked, c.mode, c.token.jti))
  IN  v.verdict = "ok" /\ c.grant \in c.token.grants

FinishPop(c, now) ==
  c.pop = None \/ VerifyPopResponse(c.pop.challenge, c.pop.response, c.token, now) = "ok"

\* Mutant of CacheHit: a hit is not looked up in the deny list again.
CacheHitUnrevoked(c) ==
  /\ c.token \in DOMAIN tctStore.map
  /\ LET e == tctStore.map[c.token]
     IN  e.audience = Audience(c) /\ e.expires_at > bnow /\ c.grant \in e.grants

\* The part of verify_tct_cached_inner that answers from the store.
CacheHit(c) ==
  /\ c.token \in DOMAIN tctStore.map
  /\ LET e == tctStore.map[c.token]
     IN  /\ JtiStatus(c.revoked, c.mode, e.jti) = Answer("clear")
         /\ e.audience = Audience(c) /\ e.expires_at > bnow /\ c.grant \in e.grants

\* TctStore::insert: the oldest go, and a refreshed entry keeps its place.
InsertTct(t) ==
  LET e == [grants |-> t.grants, expires_at |-> t.exp, jti |-> t.jti, audience |-> t.aud]
      map == [x \in DOMAIN tctStore.map \cup {t} |-> IF x = t THEN e ELSE tctStore.map[x]]
      order == IF t \in DOMAIN tctStore.map THEN tctStore.order ELSE Append(tctStore.order, t)
      over == Cardinality(DOMAIN map) - MAX_ENTRIES
  IN  IF over <= 0 THEN [map |-> map, order |-> order]
      ELSE [map |-> [x \in DOMAIN map \ {order[k] : k \in 1..over} |-> map[x]],
            order |-> SubSeq(order, over + 1, Len(order))]

\* The PoP is looked at last, once the store has the token.
VerifyTctCached(c) ==
  /\ c.audience = None \/ c.pop = None
  /\ CacheHit(c) \/ VerifyTctWith(c, bnow)
  /\ tctStore' = IF CacheHit(c) THEN tctStore ELSE InsertTct(c.token)
  /\ tctCall' = IF FinishPop(c, bnow) THEN [call |-> c, now |-> bnow] ELSE None
  /\ UNCHANGED <<bnow, ssVars>>

ClearTcts ==
  /\ tctStore' = [map |-> <<>>, order |-> <<>>]
  /\ UNCHANGED <<bnow, ssVars, tctCall>>

\* new_pop_challenge for a token, and sign_pop_response by an agent.
PopExchange(t, holder, expires_at) ==
  LET challenge == [tct_jti |-> t.jti, nonce |-> "pop", expires_at |-> expires_at]
  IN  [challenge |-> challenge, response |-> SignPopResponse(challenge, holder)]

BdTick ==
  /\ bnow < MaxBindingTime
  /\ bnow' = bnow + 1
  /\ UNCHANGED <<ssVars, tsVars>>

\* Each token with every set of arguments; a PoP may be another's, or late.
TctCalls ==
  UNION {[token : {t}, grant : Grants, audience : {None, PyAgent}, revoked : RevokedLists, mode : Modes,
          pop : {None} \cup {PopExchange(t, h, e) : h \in {t.sub, t.iss}, e \in {1, MaxBindingTime}}] :
           t \in PresentedTokens}

Of(type) == {m \in wire : m.type = type}
SessionNext ==
  \/ \E a \in {PyAgent, JsAgent}, ttl \in TTLS : BuildManifest(a, ttl)
  \/ NewSession
  \/ NewResponder
  \/ \E n \in FreshNonces, minter \in BOOLEAN :
        \/ manifests[JsAgent] # None
           /\ BuildHello(manifests[JsAgent], Offers(manifests[JsAgent]), minter, n)
        \/ \E m \in Of("hello") : ProcessHello(m, minter, n)
  \/ \E j \in FreshJtis :
        \/ \E m \in Of("hello_ack") : ProcessHelloAck(m, j)
        \/ \E m \in Of("commit"), rv \in RevokedLists, mode \in Modes : ProcessCommit(m, rv, mode, j)
  \/ \E m \in Of("commit_ack"), rv \in RevokedLists, mode \in Modes : Complete(m, rv, mode)
  \/ BdTick

StoreNext ==
  \/ \E c \in TctCalls : VerifyTctCached(c)
  \/ ClearTcts
  \/ BdTick

BdSpec == BdInit /\ [][SessionNext \/ StoreNext]_bdVars

(***************************************************************************)
(* Properties.                                                             *)
(***************************************************************************)

\* An application that lost an answer calls build_hello() again and may then
\* hand in answers to either HELLO. What complete() returns belongs to the
\* HELLO made last, and to a handshake the responder has completed too.
LatestHelloCompletes ==
  \A c \in completed : c.by = PyAgent =>
     /\ c.nonces[1] = c.latest
     /\ \E d \in completed : d.by = JsAgent /\ d.nonces = c.nonces

\* Whatever the store holds, whoever put it there and however old it is, a
\* verifyTctCached that succeeds is one that verifyTct would answer the same
\* at that moment, with the same deny list, audience, grant and PoP.
CacheSound ==
  tctCall # None => VerifyTctWith(tctCall.call, tctCall.now) /\ FinishPop(tctCall.call, tctCall.now)
=============================================================================
