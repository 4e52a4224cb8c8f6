----------------------------- MODULE Manifests ------------------------------
(***************************************************************************)
(* Agent Manifests and signed envelopes (crates/aitp/src/manifest,         *)
(* core/envelope.rs, envelope/mod.rs): how they are built, parsed and      *)
(* verified. A URL is its class: "https", "http-localhost", "http" or      *)
(* "malformed". A signature is the key that made it and what it covers, a  *)
(* member that is absent is the parameter none. The signature of a         *)
(* manifest covers every member but itself.                                *)
(***************************************************************************)
EXTENDS Checks, FiniteSets

PROTOCOL_VERSION == "aitp/0.3"
Unsigned(m) == [x \in DOMAIN m \ {"signature"} |-> m[x]]
AllUnique(list) == Cardinality({list[k] : k \in DOMAIN list}) = Len(list)

(***************************************************************************)
(* JSON that comes in: [json, duplicate_key, members, ...].                *)
(***************************************************************************)

\* CheckedJson: a duplicate key is refused before a value is built.
CheckedJson(doc) == IF doc.json /\ ~doc.duplicate_key THEN "ok" ELSE "MalformedJson"
CheckMembers(doc, allowed) == doc.members \subseteq allowed

(***************************************************************************)
(* verifier.rs.                                                            *)
(***************************************************************************)
IsHttpsUri(u) == u = "https"
IsUri(u) == u # "malformed"
IsCapabilityList(caps) == (\A k \in DOMAIN caps : caps[k] # "") /\ AllUnique(caps)

HintCheck(hint, none) ==
  CASE hint.kind = "oidc" -> hint.issuer # none /\ hint.public_key = none
    [] hint.kind = "pinned_key" -> hint.public_key # none
    [] OTHER -> hint.issuer = none /\ hint.public_key = none

CheckGrammar(m, insecure_localhost, none) ==
  Verdict(<<
    <<IsHttpsUri(m.handshake_endpoint) \/ (insecure_localhost /\ m.handshake_endpoint = "http-localhost"),
      "Malformed">>,
    <<(\A k \in DOMAIN m.anchors : IsUri(m.anchors[k])) /\ AllUnique(m.anchors), "Malformed">>,
    <<IsCapabilityList(m.offered), "Malformed">>,
    <<m.required = none \/ IsCapabilityList(m.required), "Malformed">>,
    <<m.identity_types = none \/ AllUnique(m.identity_types), "Malformed">>,
    <<m.published_at >= 0 /\ m.expires_at >= 1, "Malformed">>,
    <<m.hint.subject # "" /\ (m.hint.issuer = none \/ IsUri(m.hint.issuer)), "Malformed">>,
    <<HintCheck(m.hint, none), "IdentityHintMalformed">> >>)

VerifyManifest(m, now, insecure_localhost, none) ==
  Verdict(<<
    <<m.version = PROTOCOL_VERSION, "VersionUnknown">>,
    Sub(CheckGrammar(m, insecure_localhost, none)),
    <<m.expires_at >= now, "Expired">>,
    <<m.pop.by = m.aid /\ m.pop.over = m.pop.challenge, "PopFailed">>,
    <<m.signature.by = m.aid /\ m.signature.over = Unsigned(m), "SignatureInvalid">> >>)

\* parse_manifest_wire, of a document with or without the wrapper.
MANIFEST_MEMBERS ==
  {"version", "aid", "display_name", "hint", "handshake_endpoint", "anchors", "offered",
   "required", "identity_types", "signature_algorithms", "pop", "published_at",
   "expires_at", "extensions", "signature"}
ParseManifestWire(doc) ==
  Verdict(<<
    <<~doc.wrapped \/ doc.wrapper_members = {"manifest"}, "UnknownField">>,
    <<doc.body.version = PROTOCOL_VERSION, "VersionUnknown">>,
    <<CheckMembers(doc, MANIFEST_MEMBERS), "UnknownField">>,
    <<doc.well_typed, "Malformed">> >>)

\* check_identity_type_compatibility: a manifest that lists none takes OIDC.
AcceptsIdentityType(m, kind, none) ==
  IF m.identity_types = none THEN kind = "oidc"
  ELSE \E k \in DOMAIN m.identity_types : m.identity_types[k] = kind

(***************************************************************************)
(* builder.rs. The signatures are the signer's, over what the draft says.  *)
(***************************************************************************)
ValidateIdentityHint(hint, none) == HintCheck(hint, none)

Signed(m, signer) == [m EXCEPT !.signature = [by |-> signer, over |-> Unsigned(m)]]
Built(b, signer, now, challenge, none) ==
  Signed([version |-> PROTOCOL_VERSION, aid |-> signer, hint |-> b.hint,
          handshake_endpoint |-> b.handshake_endpoint, anchors |-> b.anchors,
          identity_types |-> b.identity_types, offered |-> b.offered, required |-> b.required,
          pop |-> [challenge |-> challenge, by |-> signer, over |-> challenge],
          published_at |-> now, expires_at |-> now + b.ttl, signature |-> none], signer)

(***************************************************************************)
(* Envelopes. The signature covers every member but itself, under a tag    *)
(* that no other signed document starts with.                              *)
(***************************************************************************)
ENVELOPE_MEMBERS ==
  {"version", "message_type", "message_id", "timestamp", "sender", "payload", "extensions", "signature"}

UnsignedStructure(env) ==
  Verdict(<< <<env.payload_object, "PayloadNotObject">>, <<env.timestamp >= 0, "NegativeTimestamp">> >>)

\* check_envelope_structure.
EnvelopeStructure(env) ==
  Verdict(<<Sub(UnsignedStructure(env)), <<env.signature.well_formed, "SignatureFormat">> >>)

ParseEnvelopeWire(env) ==
  Verdict(<<
    <<env.version = PROTOCOL_VERSION, "UnknownVersion">>,
    <<CheckMembers(env, ENVELOPE_MEMBERS), "UnknownField">>,
    <<env.well_typed, "Malformed">>,
    Sub(EnvelopeStructure(env)) >>)

\* envelope_signing_digest.
EnvelopeInput(env) == <<"aitp-envelope-v2", Unsigned(env)>>

EnvelopeDigest(signer, env) ==
  Verdict(<<
    <<env.version = PROTOCOL_VERSION, "UnsupportedVersion">>,
    <<env.v4, "MessageId">>,
    Sub(UnsignedStructure(env)),
    <<env.sender = signer, "SenderMismatch">> >>)
\* sign_prepared_envelope.
SignedEnvelope(signer, env, none) ==
  IF EnvelopeDigest(signer, env) # "ok" THEN none
  ELSE [env EXCEPT !.signature = [by |-> signer, over |-> EnvelopeInput(env), well_formed |-> TRUE]]

VerifyEnvelopeSignature(env, key) ==
  env.signature.by = key /\ env.signature.over = EnvelopeInput(env)

\* AitpEnvelope::unsigned.
UnsignedEnvelope(sender, type, payload, now, none) ==
  [version |-> PROTOCOL_VERSION, message_type |-> type, v4 |-> TRUE, timestamp |-> now,
   sender |-> sender, payload |-> payload, payload_object |-> TRUE, well_typed |-> TRUE,
   members |-> ENVELOPE_MEMBERS \ {"extensions"}, signature |-> none]
=============================================================================
