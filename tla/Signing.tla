------------------------------ MODULE Signing -------------------------------
(***************************************************************************)
(* Keys, signatures and compact JWS (crates/aitp/src/crypto/{keys,signer,  *)
(* jws}.rs, core/aid.rs), and an agent whose key is in a remote backend: a *)
(* KMS that may be given another key, answer in DER, with a high S, with   *)
(* garbage, or fail. A signature is a record of who made it over what; a   *)
(* SHA-256 digest is the pair <<"sha256", m>>.                             *)
(***************************************************************************)
EXTENDS Checks

CONSTANTS
  KmsKeys,         \* keys the backend may hold: [alg, id]
  KeyHolders,      \* AIDs an agent may have, and the key it has in memory
                   \* or Unset: [aid, local]
  MAX_LEN,         \* message limit of the backend, or Unset
  Documents,       \* canonical documents that are signed by their digest
  Claims,          \* claim sets that are signed as compact JWS
  Unset

\* A key is a point or a string of one of the two algorithms.
ASSUME SigningAssumption ==
  \A k \in KmsKeys \cup ({h.local : h \in KeyHolders} \ {Unset}) :
     k \in [alg : {"ed25519", "p256"}, id : {k.id}]

VARIABLES
  agent,           \* one of KeyHolders
  kms,             \* the key the backend holds
  asked,           \* requests that wait for the backend: targets
  emitted          \* signatures given out: [target, raw]

sgVars == <<agent, kms, asked, emitted>>

Sha(m) == <<"sha256", m>>
Self == agent.aid
SIGNATURE_LEN == 64

(***************************************************************************)
(* aid.rs. An identifier that is untagged is Ed25519.                      *)
(***************************************************************************)
AidAlgorithm(aid) == IF aid.tag = "p256" THEN "p256" ELSE "ed25519"

\* s: [prefix, identifier]; identifier: [len, base64url, decodes, point].
ParseAid(s) ==
  LET p256 == s.prefix = "aid:pubkey:p256:"
  IN  Verdict(<<
        <<s.prefix # "", "MissingScheme">>,
        <<s.prefix \in {"aid:pubkey:", "aid:pubkey:ed25519:", "aid:pubkey:p256:"}, "UnsupportedMethod">>,
        <<s.identifier.len = (IF p256 THEN 44 ELSE 43), "WrongLength">>,
        <<s.identifier.base64url /\ s.identifier.decodes, "InvalidChars">>,
        <<p256 => s.identifier.point \in {2, 3}, "InvalidChars">> >>)

\* The string a key's AID is written as.
Printed(aid) ==
  [prefix |-> CASE aid.tag = "p256" -> "aid:pubkey:p256:"
                [] aid.tag = "ed25519" -> "aid:pubkey:ed25519:"
                [] OTHER -> "aid:pubkey:",
   identifier |-> [len |-> IF aid.tag = "p256" THEN 44 ELSE 43, base64url |-> TRUE,
                   decodes |-> TRUE, point |-> 2]]

\* AitpVerifyingKey::from_aid, and to_aid, which is untagged for Ed25519.
VerifyingKey(aid) == [alg |-> AidAlgorithm(aid), id |-> aid.id]
ToAid(key) == [tag |-> IF key.alg = "p256" THEN "p256" ELSE "none", id |-> key.id]

(***************************************************************************)
(* keys.rs. A raw signature: [by, over, s, len]; s is "low" or "high", of  *)
(* which an ECDSA signature has either and the other one can be computed.  *)
(***************************************************************************)
Made(key, over) == [by |-> key, over |-> over, s |-> "low", len |-> SIGNATURE_LEN]

VerifyEd25519(key, message, raw) ==
  raw.len = SIGNATURE_LEN /\ raw.by = key /\ raw.over = message
VerifyP256Prehash(key, digest, raw) ==
  raw.len = SIGNATURE_LEN /\ raw.s = "low" /\ raw.by = key /\ raw.over = digest

VerifyRaw(key, message, raw) ==
  IF key.alg = "ed25519" THEN VerifyEd25519(key, message, raw)
  ELSE VerifyP256Prehash(key, Sha(message), raw)

\* verify_raw_jose takes a high S, which other issuers' tokens may have.
VerifyRawJose(key, message, raw) ==
  IF key.alg = "ed25519" THEN VerifyEd25519(key, message, raw)
  ELSE raw.len = SIGNATURE_LEN /\ raw.by = key /\ raw.over = Sha(message)

\* A wire signature is tagged with its algorithm, which has to be the key's.
WireSignature(alg, raw) == [tag |-> IF alg = "p256" THEN "p256" ELSE "none", raw |-> raw]
SignatureAlgorithm(sig) == IF sig.tag = "p256" THEN "p256" ELSE "ed25519"
VerifyJcs(key, digest, sig) ==
  /\ SignatureAlgorithm(sig) = key.alg
  /\ IF key.alg = "ed25519" THEN VerifyEd25519(key, digest, sig.raw)
     ELSE VerifyP256Prehash(key, digest, sig.raw)

(***************************************************************************)
(* signer.rs. A target of kind "jcs" is a digest, of kind "jws" the        *)
(* signing input of a token.                                               *)
(***************************************************************************)
P256Digest(t) == IF t.kind = "jcs" THEN t.data ELSE Sha(t.data)
SignLocal(key, t) == Made(key, IF key.alg = "p256" THEN P256Digest(t) ELSE t.data)

\* The request the backend gets: the message for Ed25519, 32 bytes for P-256.
RequestLen(alg, t) == IF alg = "p256" \/ t.kind = "jcs" THEN 32 ELSE t.len
RequestedBytes(alg, t) == IF alg = "p256" THEN P256Digest(t) ELSE t.data
TooLarge(alg, t) == MAX_LEN # Unset /\ RequestLen(alg, t) > MAX_LEN

LocalKeyServes == agent.local # Unset /\ ToAid(agent.local) = Self

\* p256_backend_to_low_s.
Normalized(answer) == [answer.raw EXCEPT !.s = "low"]

VerifiesAs(t, raw) ==
  IF t.kind = "jcs" THEN VerifyJcs(VerifyingKey(Self), t.data, WireSignature(AidAlgorithm(Self), raw))
  ELSE VerifyRaw(VerifyingKey(Self), t.data, raw)

\* Mutant of Finalize: what the backend returned goes out unverified.
FinalizeUnverified(t, answer) ==
  LET p256 == AidAlgorithm(Self) = "p256"
  IN  [raw |-> IF p256 THEN Normalized(answer) ELSE answer.raw,
       verdict |-> IF answer.raw.len # SIGNATURE_LEN \/ (answer.form = "der" /\ ~p256)
                   THEN "MalformedSignature" ELSE "ok"]

\* finalize: the backend's answer in the one form that is emitted, and only
\* if it verifies under the agent's AID.
Finalize(t, answer) ==
  LET p256 == AidAlgorithm(Self) = "p256"
      raw == IF p256 THEN Normalized(answer) ELSE answer.raw
  IN  [raw |-> raw,
       verdict |-> Verdict(<<
         <<answer.raw.len = SIGNATURE_LEN /\ (answer.form = "der" => p256), "MalformedSignature">>,
         <<VerifiesAs(t, raw), "VerificationFailed">> >>)]

\* check_public_key, at start-up.
CheckPublicKey == IF kms = VerifyingKey(Self) THEN "ok" ELSE "KeyMismatch"

(***************************************************************************)
(* jws.rs. A token: [segments, header, payload, sig]; a header [typ, alg,  *)
(* members].                                                               *)
(***************************************************************************)
JoseAlg(alg) == IF alg = "p256" THEN "ES256" ELSE "EdDSA"
CompactInput(aid, typ, claims) == <<JoseAlg(AidAlgorithm(aid)), typ, claims>>

TokenTypes == {"aitp-tct+jwt", "aitp-grant+jwt", "aitp-delegation+jwt"}

SignedCompact(aid, typ, claims, raw) ==
  [segments |-> 3, members |-> {"alg", "typ"}, alg |-> JoseAlg(AidAlgorithm(aid)), typ |-> typ,
   claims |-> claims, object |-> TRUE, raw |-> raw]

VerifyCompact(aid, typ, token) ==
  Verdict(<<
    <<token.segments = 3 /\ token.members = {"alg", "typ"}, "JwsMalformed">>,
    <<token.typ = typ, "TypMismatch">>,
    <<token.alg = JoseAlg(AidAlgorithm(aid)), "AlgMismatch">>,
    <<VerifyRaw(VerifyingKey(aid), <<token.alg, token.typ, token.claims>>, token.raw), "SignatureInvalid">>,
    <<token.object, "JwsMalformed">> >>)

(***************************************************************************)
(* The agent.                                                              *)
(***************************************************************************)
Targets ==
  {[kind |-> "jcs", data |-> Sha(<<"document", d>>), len |-> 32] : d \in Documents} \cup
  {[kind |-> "jws", data |-> CompactInput(Self, typ, c), len |-> 200] :
     typ \in TokenTypes, c \in Claims}

SgInit == agent \in KeyHolders /\ kms \in KmsKeys /\ asked = {} /\ emitted = {}

\* sign_target up to the await: a local key signs at once.
SignTarget(t) ==
  /\ IF LocalKeyServes
     THEN emitted' = emitted \cup {[target |-> t, raw |-> SignLocal(agent.local, t)]} /\ UNCHANGED asked
     ELSE ~TooLarge(AidAlgorithm(Self), t) /\ asked' = asked \cup {t} /\ UNCHANGED emitted
  /\ UNCHANGED <<agent, kms>>

\* What a backend that works returns: its algorithm's form, any S.
Answers(t) ==
  {[form |-> f, raw |-> [Made(kms, RequestedBytes(AidAlgorithm(Self), t)) EXCEPT !.s = s]] :
     f \in (IF kms.alg = "p256" THEN {"raw", "der"} ELSE {"raw"}),
     s \in (IF kms.alg = "p256" THEN {"low", "high"} ELSE {"low"})}

\* And one that does not: another message's signature, a truncated one.
BadAnswers(t) ==
  {[form |-> "raw", raw |-> Made(kms, Unset)],
   [form |-> "raw", raw |-> [Made(kms, RequestedBytes(AidAlgorithm(Self), t)) EXCEPT !.len = 63]],
   [form |-> "der", raw |-> Made(kms, Unset)]}

Answered(t) ==
  /\ t \in asked
  /\ \E answer \in Answers(t) \cup BadAnswers(t) :
       LET final == Finalize(t, answer)
       IN  emitted' = IF final.verdict = "ok" THEN emitted \cup {[target |-> t, raw |-> final.raw]}
                      ELSE emitted
  /\ asked' = asked \ {t}
  /\ UNCHANGED <<agent, kms>>

BackendFails(t) == t \in asked /\ asked' = asked \ {t} /\ UNCHANGED <<agent, kms, emitted>>

\* The backend's key is replaced under the agent.
Replace == kms' \in KmsKeys \ {kms} /\ UNCHANGED <<agent, asked, emitted>>

SgNext ==
  \/ \E t \in Targets : SignTarget(t) \/ Answered(t) \/ BackendFails(t)
  \/ Replace

SgSpec == SgInit /\ [][SgNext]_sgVars

(***************************************************************************)
(* Properties.                                                             *)
(***************************************************************************)

\* Whatever a backend returns and whenever its key is replaced, what the
\* agent emits verifies under the AID it prints as what was to be signed, a
\* JWS under its own type only, here and in any JOSE library; an ECDSA
\* signature has no second form that verifies.
EmittedVerifies ==
  \A e \in emitted :
    /\ ParseAid(Printed(Self)) = "ok"
    /\ VerifiesAs(e.target, e.raw)
    /\ AidAlgorithm(Self) = "p256" => ~VerifiesAs(e.target, [e.raw EXCEPT !.s = "high"])
    /\ e.target.kind = "jws" => VerifyRawJose(VerifyingKey(Self), e.target.data, e.raw)
    /\ e.target.kind = "jws" =>
         \A typ \in TokenTypes :
           VerifyCompact(Self, typ, SignedCompact(Self, e.target.data[2], e.target.data[3], e.raw)) = "ok"
             <=> typ = e.target.data[2]

\* A backend that holds the agent's key and answers as it may, in DER or
\* with a high S, is never refused.
BackendServes ==
  CheckPublicKey = "ok" =>
    \A t \in asked : \A answer \in Answers(t) : Finalize(t, answer).verdict = "ok"

\* An external signer can make the agent emit nothing that fails to verify, and one that
\* holds the agent's key and answers within its freedom is always served.
SigningExact == EmittedVerifies /\ BackendServes
=============================================================================
