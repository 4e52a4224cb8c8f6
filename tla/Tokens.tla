------------------------------- MODULE Tokens -------------------------------
(***************************************************************************)
(* Trust Context Tokens, grant vouchers and self-attestations: what        *)
(* TctBuilder makes and what the verifiers of crates/aitp/src/tct/ accept. *)
(* A token is a record: typ is its JWS header, signer the key that signed  *)
(* it, flaw the first thing wrong with the payload's syntax, if any, and   *)
(* jkt the agent whose key cnf.jkt names.                                  *)
(***************************************************************************)
EXTENDS Checks, FiniteSets

CONSTANTS
  Agents,             \* AIDs
  Grants,             \* capabilities
  Spaced,             \* the ones with whitespace in them
  ATTESTATION_GRANT,  \* the marker of a self-attestation
  Jtis,
  None

ASSUME TokenAssumption ==
  /\ Spaced \subseteq Grants /\ ATTESTATION_GRANT \in Grants \ Spaced
  /\ None \notin Agents \cup Grants \cup Jtis \cup Nat

\* Duplicate keys, a member outside the schema, an id that is no UUID v4, a
\* member missing or of the wrong type, another protocol version.
Flaws == {"none", "duplicate", "member", "id", "type", "version"}

Tct ==
  [typ : {"tct"}, signer : Agents, flaw : Flaws, jti : Jtis, iss : Agents, sub : Agents,
   aud : Agents, iat : Nat, exp : Nat, grants : SUBSET Grants, jkt : Agents, ext : BOOLEAN]

(***************************************************************************)
(* TctBuilder. A call b has the fields subject, audience, subject_pubkey   *)
(* (None when unset), grants, ttl, mint_voucher, jti, ext and attestation. *)
(***************************************************************************)

\* self_attestation overrides the subject, the grants and the voucher.
Attesting(me, b) ==
  IF b.attestation
  THEN [b EXCEPT !.subject = me, !.audience = me, !.subject_pubkey = me,
                 !.grants = {ATTESTATION_GRANT}, !.mint_voucher = FALSE]
  ELSE b

DraftVerdict(me, b) ==
  LET d == Attesting(me, b)
  IN  Verdict(<<
        <<b.attestation => b.ext, "MissingField">>,
        <<b.attestation \/ ATTESTATION_GRANT \notin b.grants, "AttestationMarker">>,
        <<None \notin {d.subject, d.audience, d.subject_pubkey}, "MissingField">>,
        <<d.grants # {}, "EmptyGrants">>,
        <<d.grants \cap Spaced = {}, "GrantWhitespace">>,
        <<d.subject = d.audience, "AudienceMismatch">>,
        <<d.subject # me \/ d.attestation, "SelfIssued">>,
        <<d.subject_pubkey = d.subject, "CnfMalformed">>,
        <<d.jti \in Jtis, "JtiNotV4">> >>)

\* The TCT that draft and sign_compact make, when the verdict is ok.
BuiltTct(me, b, now) ==
  LET d == Attesting(me, b)
  IN  [typ |-> "tct", signer |-> me, flaw |-> "none", jti |-> d.jti, iss |-> me,
       sub |-> d.subject, aud |-> d.audience, iat |-> now, exp |-> now + d.ttl,
       grants |-> d.grants, jkt |-> d.subject_pubkey, ext |-> d.ext]

\* The voucher minted beside it, for the subject to delegate from.
BuiltVouchers(me, b, now) ==
  LET d == Attesting(me, b)
  IN  IF d.mint_voucher
      THEN {[typ |-> "voucher", signer |-> me, flaw |-> "none", iss |-> me, sub |-> d.subject,
             grants |-> d.grants, iat |-> now, exp |-> now + d.ttl, src_jti |-> d.jti]}
      ELSE {}

(***************************************************************************)
(* Revocation of an artifact. A source is "fail_open", "self_attestation"  *)
(* or "check"; a check answers "clear", "revoked", "unavailable" or, when  *)
(* it fails soft, the grants that are safe without an answer.              *)
(***************************************************************************)
Answer(kind) == [kind |-> kind, safe |-> {}]
SafeSubset(safe) == [kind |-> "soft", safe |-> safe]

ApplyRevocation(source, status, grants) ==
  LET left == IF source = "check" /\ status.kind = "soft" THEN grants \cap status.safe ELSE grants
      v == Verdict(<<
             <<source # "self_attestation", "RevocationUnavailable">>,
             <<source = "fail_open" \/ status.kind # "unavailable", "RevocationUnavailable">>,
             <<source = "fail_open" \/ status.kind # "revoked", "Revoked">>,
             <<left # {} \/ status.kind # "soft", "SafeSubsetEmpty">> >>)
  IN  [verdict |-> v, grants |-> IF v = "ok" THEN left ELSE {}]

(***************************************************************************)
(* Verification.                                                           *)
(***************************************************************************)

\* The payload is looked at before the signature, for the sake of the error.
PeekChecks(t, typ) ==
  <<<<t.typ = typ, "Crypto">>,
    <<t.flaw # "duplicate", "ClaimsMalformed">>,
    <<t.flaw # "member", "UnknownField">>,
    <<t.flaw # "id", "JtiNotV4">>>>

\* jws::verify_compact under the issuer's key, then the typed claims.
SignedChecks(t, issuer) ==
  <<<<t.signer = issuer, "Crypto">>,
    <<t.flaw # "type", "ClaimsMalformed">>,
    <<t.flaw # "version", "VersionUnknown">>,
    <<t.iss = issuer, "IssuerMismatch">>>>

LifetimeChecks(t, c) ==
  <<<<t.exp >= c.now - c.clock_skew, "Expired">>,
    <<t.iat <= c.now + c.clock_skew, "Expired">>,
    <<c.cap = None \/ t.exp <= c.cap, "ExpiresAfterManifest">>>>

\* CoreChecks::verify, with the checks of the caller in the middle.
CoreVerdict(t, c, context) ==
  Verdict(PeekChecks(t, "tct") \o SignedChecks(t, c.issuer) \o context
          \o LifetimeChecks(t, c)
          \o <<<<t.grants # {}, "EmptyGrants">>, <<t.jkt = t.sub, "CnfMalformed">>>>)

\* verify_tct_before_revocation.
BeforeRevocation(t, c) ==
  CoreVerdict(t, c,
    <<<<t.aud = c.for, "AudienceMismatch">>,
      <<t.aud = t.sub, "AudienceMismatch">>,
      <<t.iss # t.sub, "SelfIssued">>,
      <<ATTESTATION_GRANT \notin t.grants, "AttestationMarker">>>>)

IsSelfAttestation(t) == t.sub = t.iss /\ t.aud = t.iss /\ t.grants = {ATTESTATION_GRANT}

\* check_revocation: a self-attestation needs no list when so configured.
CheckRevocation(t, c, status) ==
  IF c.revocation = "self_attestation" /\ IsSelfAttestation(t)
  THEN [verdict |-> "ok", grants |-> t.grants]
  ELSE ApplyRevocation(c.revocation, status, t.grants)

VerifyTct(t, c, status) ==
  LET before == BeforeRevocation(t, c)
  IN  IF before # "ok" THEN [verdict |-> before, grants |-> {}]
      ELSE CheckRevocation(t, c, status)

\* verify_voucher looks at no lifetime; its callers do.
VerifyVoucher(v, issuer) ==
  Verdict(PeekChecks(v, "voucher") \o SignedChecks(v, issuer)
          \o <<<<v.grants # {}, "EmptyGrants">>>>)

(***************************************************************************)
(* Proof of possession: the holder signs a challenge for a token.          *)
(***************************************************************************)
SignPopResponse(challenge, holder) ==
  [tct_jti |-> challenge.tct_jti, nonce_echo |-> challenge.nonce,
   signer |-> holder, signed |-> challenge.nonce]

VerifyPopResponse(challenge, r, t, now) ==
  Verdict(<<
    <<r.tct_jti = challenge.tct_jti /\ r.tct_jti = t.jti, "PopJtiMismatch">>,
    <<r.nonce_echo = challenge.nonce, "PopNonceMismatch">>,
    <<now <= challenge.expires_at, "PopChallengeExpired">>,
    <<t.jkt = t.sub, "CnfMalformed">>,
    <<r.signer = t.sub /\ r.signed = challenge.nonce, "PopFailed">> >>)
=============================================================================
