------------------------------ MODULE Identity ------------------------------
(***************************************************************************)
(* Identity mechanisms of a handshake: pinned keys, OIDC tokens            *)
(* (crates/aitp/src/handshake/) and SPIFFE SVIDs (crates/aitp-experimental *)
(* /src/spiffe.rs). Agents, an OpenID provider and a SPIFFE authority make *)
(* proofs for handshakes; whatever was made may be put into a descriptor   *)
(* of any shape and presented in any handshake.                            *)
(***************************************************************************)
EXTENDS Checks, FiniteSets

CONSTANTS
  Peers,         \* agents, each named by its AID and holding its key
  Wild,          \* peers that sign proofs for handshakes that are not theirs
  Messages,      \* message ids
  PopNonces,
  Pinned,        \* peers in the local trust store
  SubjectBinding,\* "Unchecked" or "SenderAid"
  Anchors,       \* trusted issuers
  Provider,      \* the OpenID provider's issuer URL
  Domain,        \* the SPIFFE trust domain with a configured bundle
  JwksOf,        \* what an issuer publishes: a sequence of JWKs
  Authorities,   \* the bundle's jwt-svid keys
  CaRoots,       \* the bundle's x509-svid certificates
  IatTolerance,  \* iat_tolerance
  MaxProofs,     \* bound of the model: proofs made
  MaxNow,        \* bound of the model: last second of the clock
  Nil

ASSUME IdentityAssumption ==
  /\ Wild \subseteq Peers /\ Pinned \subseteq Peers
  /\ SubjectBinding \in {"Unchecked", "SenderAid"}
  /\ {MaxProofs, MaxNow, IatTolerance} \subseteq Nat
  \* SpiffeBundle::from_jwk_set refuses a jwt-svid kid given twice.
  /\ \A k, l \in Authorities : k.kid = l.kid => k = l

VARIABLES
  proofs,    \* made so far
  now

idVars == <<proofs, now>>

\* A handshake message from sender to receiver.
Contexts ==
  {c \in [sender : Peers, receiver : Peers, message_id : Messages, pop_nonce : PopNonces] :
     c.sender # c.receiver}

(***************************************************************************)
(* jwk.rs. A JWK has a kid (or Nil), an alg it is pinned to (or Nil), a    *)
(* type of key material, and the length of its members as bits.            *)
(***************************************************************************)
TypeOfAlg ==
  [EdDSA |-> "Ed25519", ES256 |-> "P256", ES384 |-> "P384", ES512 |-> "P521",
   RS256 |-> "Rsa", RS384 |-> "Rsa", RS512 |-> "Rsa",
   PS256 |-> "Rsa", PS384 |-> "Rsa", PS512 |-> "Rsa"]
Fits(alg, type) == alg \in DOMAIN TypeOfAlg /\ TypeOfAlg[alg] = type

MIN_RSA_MODULUS_BITS == 2048

FromJwkJson(k) ==
  Verdict(<<
    <<k.type # Nil, "Malformed">>,
    <<\E alg \in DOMAIN TypeOfAlg : TypeOfAlg[alg] = k.type, "Unsupported">>,
    <<k.bits > 0, "Malformed">>,
    <<k.alg = Nil \/ Fits(k.alg, k.type), "Unsupported">> >>)

\* The JWKs of a set, which is a sequence: parse_jwks keeps its order.
JwksIn(keys) == {keys[i] : i \in DOMAIN keys}

\* An issuer publishes a sequence of JWKs.
ASSUME JwksAssumption == \A i \in DOMAIN JwksOf : JwksOf[i] \in Seq(JwksIn(JwksOf[i]))

\* parse_jwks: one key it cannot use and the whole set is refused.
ParseJwks(keys) ==
  IF \E k \in JwksIn(keys) : k.type = "Rsa" /\ k.bits < MIN_RSA_MODULUS_BITS THEN "UnsupportedJwk"
  ELSE IF \E k \in JwksIn(keys) : FromJwkJson(k) # "ok"
       THEN FromJwkJson(CHOOSE k \in JwksIn(keys) : FromJwkJson(k) # "ok")
       ELSE "ok"

VerifyJwsSignature(k, jwt) ==
  Verdict(<<
    <<Fits(jwt.alg, k.type) /\ k.alg \in {Nil, jwt.alg}, "AlgMismatch">>,
    <<jwt.key = k.id, "SignatureInvalid">> >>)

(***************************************************************************)
(* pinned_key.rs. A signature is over a tuple that starts with its domain. *)
(***************************************************************************)
ProofInput(domain, c) == <<domain, c.sender, c.receiver, c.message_id, c.pop_nonce>>

\* PinnedKeyStore::is_trusted.
IsTrusted(aid) == aid \in Pinned

\* The public key is compared with the sender's AID byte by byte.
ResolvePinnedKey(d, c) ==
  <<<<d.kind = "pinned_key", "Identity">>,
    <<d.issuer = Nil, "Identity">>,
    <<SubjectBinding = "Unchecked" \/ d.subject = c.sender, "Identity">>,
    <<d.public_key = c.sender, "Identity">>,
    <<IsTrusted(c.sender), "Identity">>>>

CheckPinnedKeyProof(d, c) ==
  <<<<d.proof.form = "signature", "Identity">>,
    <<d.proof.key = c.sender /\ d.proof.input = ProofInput("aitp-pinned-key-v1", c), "Identity">>>>

VerifyPinnedKey(d, c) == Verdict(ResolvePinnedKey(d, c) \o CheckPinnedKeyProof(d, c))

(***************************************************************************)
(* identity_oidc.rs.                                                       *)
(***************************************************************************)

\* Mutant of SelectKey: a later key of the same kid replaces an earlier one,
\* as in a map from kid to key.
SelectKeyLast(kid, candidates) ==
  LET named == {i \in DOMAIN candidates : candidates[i].kid = kid}
  IN  IF named # {} THEN {candidates[i] : i \in {i \in named : \A j \in named : j <= i}}
      ELSE IF kid = Nil /\ Len(candidates) = 1 THEN {candidates[1]} ELSE {}

\* The first key with the header's kid, or the first without one when the
\* header names none; failing that, the only key there is. Others with the
\* same kid are not tried. No key or one, as a set.
SelectKey(kid, candidates) ==
  LET named == {i \in DOMAIN candidates : candidates[i].kid = kid}
      first == {i \in named : \A j \in named : i <= j}
  IN  IF named # {} THEN {candidates[i] : i \in first}
      ELSE IF kid = Nil /\ Len(candidates) = 1 THEN {candidates[1]} ELSE {}

WithinToleranceOf(t, at) == t - at <= IatTolerance /\ at - t <= IatTolerance

\* Mutant of ClaimChecks: a token for another handshake will do.
ClaimChecksNoNonce(jwt, d, c) ==
  <<<<c.receiver \in jwt.aud, "Identity">>,
    <<jwt.sub = d.subject, "Identity">>,
    <<jwt.exp > now, "Identity">>,
    <<WithinToleranceOf(jwt.iat, now), "Identity">>,
    <<jwt.jkt = c.sender, "Identity">>>>

\* The claims both kinds of JWT must have: for whom, when, which handshake,
\* whose key.
ClaimChecks(jwt, d, c) ==
  <<<<c.receiver \in jwt.aud, "Identity">>,
    <<jwt.sub = d.subject, "Identity">>,
    <<jwt.exp > now, "Identity">>,
    <<WithinToleranceOf(jwt.iat, now), "Identity">>,
    <<jwt.nonce = c.pop_nonce, "Identity">>,
    <<jwt.jkt = c.sender, "Identity">>>>

\* What the resolver hands out: a set that did not parse was never stored.
IssuerKeys(issuer) ==
  IF issuer \in DOMAIN JwksOf /\ ParseJwks(JwksOf[issuer]) = "ok" THEN JwksOf[issuer] ELSE << >>

VerifyOidc(d, c) ==
  LET jwt == d.proof
      candidates == IssuerKeys(d.issuer)
      key == IF jwt.form = "jwt" THEN SelectKey(jwt.kid, candidates) ELSE {}
  IN  Verdict(<<
        <<d.public_key = Nil, "Identity">>,
        <<d.issuer # Nil, "Identity">>,
        <<d.issuer \in Anchors, "IncompatibleTrustAnchors">>,
        <<jwt.form = "jwt", "Identity">>,
        <<candidates # << >>, "KeyResolutionFailed">>,
        <<key # {}, "Identity">>,
        <<\E k \in key : VerifyJwsSignature(k, jwt) = "ok", "Identity">>>>
      \o (IF jwt.form # "jwt" THEN << >>
          ELSE <<<<jwt.iss = d.issuer, "Identity">>>> \o ClaimChecks(jwt, d, c)))

(***************************************************************************)
(* spiffe.rs. A subject is a trust domain and a path, <<domain, path>>.    *)
(***************************************************************************)
JWT_SVID_ALGS == DOMAIN TypeOfAlg \ {"EdDSA"}

VerifyJwtSvid(d, c) ==
  LET jwt == d.proof
  IN  IF jwt.form # "jwt" THEN "Rejected"
      ELSE Verdict(<<
             <<jwt.alg \in JWT_SVID_ALGS, "Rejected">>,
             <<jwt.kid # Nil, "Rejected">>,
             <<\E k \in Authorities : k.kid = jwt.kid /\ VerifyJwsSignature(k, jwt) = "ok",
               "Rejected">>,
             <<Cardinality(jwt.aud) = 1, "Rejected">>>>
           \o ClaimChecks(jwt, d, c))

\* check_leaf: one URI name, no authority to sign certificates.
CheckLeaf(leaf, subject) ==
  <<<<leaf.uris = {subject}, "Rejected">>,
    <<~leaf.ca /\ leaf.digital_signature /\ ~leaf.key_cert_sign, "Rejected">>,
    <<leaf.type \in {"Ed25519", "P256"}, "Rejected">>>>

VerifyX509Svid(d, c) ==
  LET leaf == d.x5c
  IN  Verdict(CheckLeaf(leaf, d.subject) \o <<
        <<leaf.root \in CaRoots /\ leaf.not_after >= now, "Rejected">>,
        <<d.proof.form = "signature", "Rejected">>,
        <<d.proof.form = "signature" =>
            d.proof.key = leaf.key /\ d.proof.input = ProofInput("aitp-spiffe-x509-v1", c),
          "Rejected">> >>)

VerifySpiffe(d, c) ==
  Verdict(<<
    <<d.kind = "spiffe", "Rejected">>,
    <<d.issuer = Nil /\ d.public_key = Nil, "Rejected">>,
    <<d.svid_type # Nil, "Rejected">>,
    <<d.subject \notin Peers, "Rejected">>,      \* spiffe_id_trust_domain
    <<(d.svid_type = "x509-svid") <=> (d.x5c # Nil), "Rejected">>,
    <<d.subject \notin Peers => d.subject[1] = Domain, "Rejected">>,
    <<IF d.svid_type = "x509-svid" THEN CaRoots # {} ELSE Authorities # {}, "Rejected">>>>
  \o <<Sub(IF d.svid_type = "x509-svid"
           THEN IF d.x5c = Nil THEN "Rejected" ELSE VerifyX509Svid(d, c)
           ELSE VerifyJwtSvid(d, c))>>)

\* IdentityVerifier: the verifier that handles a kind.
VerifyByKind(d, c) ==
  CASE d.kind = "pinned_key" -> VerifyPinnedKey(d, c)
    [] d.kind = "oidc" -> VerifyOidc(d, c)
    [] OTHER -> VerifySpiffe(d, c)

\* bootstrap_verify_peer: the descriptor is the one the Manifest announces,
\* and goes to the verifier of its kind.
BootstrapIdentity(d, hint, c) ==
  Verdict(<<
    <<d.subject = hint.subject, "Identity">>,
    <<d.kind = hint.kind, "Identity">>,
    <<d.kind = "spiffe" \/ (d.svid_type = Nil /\ d.x5c = Nil), "Identity">>,
    <<d.kind = "oidc" => d.issuer = hint.issuer, "Identity">>,
    Sub(VerifyByKind(d, c)) >>)

(***************************************************************************)
(* Making proofs. by and context are history: who asked for the proof, and *)
(* for which handshake.                                                    *)
(***************************************************************************)
Descriptor(kind, issuer, subject, svid_type, x5c, public_key, proof) ==
  [kind |-> kind, issuer |-> issuer, subject |-> subject, svid_type |-> svid_type,
   x5c |-> x5c, public_key |-> public_key, proof |-> proof]

User(p) == <<"user", p>>          \* p's subject at the provider
Workload(p) == <<Domain, p>>      \* p's SPIFFE id
Leaf(p) ==
  [uris |-> {Workload(p)}, ca |-> FALSE, digital_signature |-> TRUE, key_cert_sign |-> FALSE,
   type |-> "P256", root |-> "ca", not_after |-> MaxNow, key |-> p, owner |-> p]

\* The value for none is nothing else, and an SVID's subject is no AID.
ASSUME MintAssumption ==
  /\ Nil \notin {Provider, "jwt-svid", "x509-svid"} /\ Domain # Provider
  /\ \A p \in Peers : Leaf(p) # Nil /\ Workload(p) \notin Peers
  /\ \A k \in Authorities : k.kid # Nil

\* sign_pinned_key_proof and its X.509 counterpart; here a workload uses the
\* key of its AID for its certificate too.
SignedProof(p, domain, c) ==
  [form |-> "signature", key |-> p, input |-> ProofInput(domain, c), by |-> p, context |-> c]

\* What an issuer puts into a token: the subject and key of the peer that
\* asks, with the audience and nonce it asks for.
MintedJwt(p, iss, key, sub, aud, c) ==
  [form |-> "jwt", alg |-> "ES256", kid |-> key.kid, key |-> key.id, iss |-> iss, sub |-> sub,
   aud |-> aud, iat |-> now, exp |-> now + IatTolerance + 1, nonce |-> c.pop_nonce, jkt |-> p,
   by |-> p, context |-> c]

\* The keys of a set that an issuer signs ES256 with.
SigningKeys(keys) == {k \in keys : Fits("ES256", k.type) /\ k.alg \in {Nil, "ES256"}}

IdInit == proofs = {} /\ now = 0

\* Handshakes peer p makes proofs for.
Own(p) == {c \in Contexts : c.sender = p \/ p \in Wild}

MakeProof(p, c) ==
  /\ Cardinality(proofs) < MaxProofs /\ c \in Own(p)
  /\ \E proof \in
       {SignedProof(p, domain, c) : domain \in {"aitp-pinned-key-v1", "aitp-spiffe-x509-v1"}}
       \cup {MintedJwt(p, Provider, k, User(p), aud, c) :
               k \in SigningKeys(JwksIn(JwksOf[Provider])), aud \in {{c.receiver}, {c.receiver, c.sender}}}
       \cup {MintedJwt(p, Domain, k, Workload(p), {c.receiver}, c) : k \in SigningKeys(Authorities)} :
         proofs' = proofs \cup {proof}
  /\ UNCHANGED now

IdTick == now < MaxNow /\ now' = now + 1 /\ UNCHANGED proofs

IdNext == (\E p \in Peers, c \in Contexts : MakeProof(p, c)) \/ IdTick
IdSpec == IdInit /\ [][IdNext]_idVars

(***************************************************************************)
(* Properties.                                                             *)
(***************************************************************************)
\* The descriptors a proof can be presented in, of the shape of their kind.
Presented(proof) ==
  {Descriptor("pinned_key", Nil, p, Nil, Nil, q, proof) : p \in Peers, q \in Peers}
  \cup {Descriptor("oidc", Provider, User(p), Nil, Nil, Nil, proof) : p \in Peers}
  \cup {Descriptor("spiffe", Nil, Workload(p), "jwt-svid", Nil, Nil, proof) : p \in Peers}
  \cup {Descriptor("spiffe", Nil, Workload(p), "x509-svid", Leaf(q), Nil, proof) :
          p \in Peers, q \in Peers}
HintsFor(d) == {[kind |-> d.kind, subject |-> d.subject, issuer |-> d.issuer]}

\* A descriptor that verifies carries a proof made for this handshake, by
\* the holder of the sender's key or of the identity it names: a proof is
\* good for no other receiver, nonce, sender or mechanism.
IdentityBound ==
  \A proof \in proofs, c \in Contexts :
    \A d \in Presented(proof) :
      (\E hint \in HintsFor(d) : BootstrapIdentity(d, hint, c) = "ok") =>
        /\ proof.context.receiver = c.receiver \/ proof.by \in Wild \/ c.receiver \in proof.aud
        /\ proof.context.pop_nonce = c.pop_nonce
        /\ d.kind = "pinned_key" => proof.by = c.sender /\ proof.context = c
        /\ d.kind = "oidc" => d.subject = User(proof.by) /\ c.sender = proof.by
        /\ d.kind = "spiffe" => d.subject = Workload(proof.by)
        /\ proof.by \notin Wild => proof.by = c.sender

\* The key that signed a token is the first the provider lists under its
\* kid, or without one for a token that names none.
SignedWithFirst(proof) ==
  \E i \in DOMAIN JwksOf[Provider] :
    LET k == JwksOf[Provider][i]
    IN  /\ k \in SigningKeys(JwksIn(JwksOf[Provider])) /\ k.kid = proof.kid /\ k.id = proof.key
        /\ \A j \in DOMAIN JwksOf[Provider] : JwksOf[Provider][j].kid = proof.kid => i <= j

\* What build_descriptor presents for its own handshake is accepted, as
\* long as the proof is in date and the receiver trusts its source, whose
\* keys it could fetch: of those with one kid a verifier tries the first.
BuildDescriptor(proof) ==
  IF proof.form = "signature"
  THEN IF proof.input[1] = "aitp-pinned-key-v1"
       THEN Descriptor("pinned_key", Nil, proof.by, Nil, Nil, proof.by, proof)
       ELSE Descriptor("spiffe", Nil, Workload(proof.by), "x509-svid", Leaf(proof.by), Nil, proof)
  ELSE IF proof.iss = Provider
       THEN Descriptor("oidc", Provider, User(proof.by), Nil, Nil, Nil, proof)
       ELSE Descriptor("spiffe", Nil, Workload(proof.by), "jwt-svid", Nil, Nil, proof)
IdentityAccepted ==
  \A proof \in proofs :
    LET d == BuildDescriptor(proof)
    IN  (/\ proof.by = proof.context.sender
         /\ d.kind = "pinned_key" => proof.by \in Pinned
         /\ d.kind = "oidc" =>
              Provider \in Anchors /\ IssuerKeys(Provider) = JwksOf[Provider] /\ SignedWithFirst(proof)
         /\ d.x5c # Nil => d.x5c.root \in CaRoots
         /\ proof.form = "jwt" => proof.exp > now)
        => \A hint \in HintsFor(d) : BootstrapIdentity(d, hint, proof.context) = "ok"

\* The verifiers of the three mechanisms accept the proof made for this
\* handshake and no other, although proofs travel and are presented in every
\* shape and context.
IdentityExact == IdentityBound /\ IdentityAccepted
=============================================================================
