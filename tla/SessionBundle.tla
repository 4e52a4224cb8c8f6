--------------------------- MODULE SessionBundle ----------------------------
(***************************************************************************)
(* Session trust bundles (crates/aitp-experimental/src/session_bundle):    *)
(* the TCTs a coordinator issued to the participants of a session, under   *)
(* one signature, left at a server that checks no signature and keeps the  *)
(* last bundle it was sent under a session id. A participant fetches one   *)
(* and verifies it against the coordinator's manifest and a revocation     *)
(* list. The coordinator may be another implementation of the protocol: it *)
(* may sign bundles that the builder would not make.                       *)
(***************************************************************************)
EXTENDS Manifests, Tokens

CONSTANTS
  Coordinators,
  TokenPool,           \* the TCTs there are, of any issuer
  SessionIds,
  MAX_PARTICIPANTS,    \* bounds of the model: entries of a bundle, and
  MaxBundleTime        \* the last second of the clock

ASSUME BundleAssumption ==
  /\ Coordinators \subseteq Agents /\ TokenPool \subseteq Tct
  /\ MAX_PARTICIPANTS \in Nat /\ MaxBundleTime \in Nat \ {0}

VARIABLES
  btime,      \* the clock
  denied,     \* jtis on the revocation list the participants use
  made,       \* history: the bundles the builder returned
  stored,     \* the server: session id -> bundle, or None
  verified    \* history: [by, at, bundle, denied, outcome]

sbVars == <<btime, denied, made, stored, verified>>

SbInit ==
  /\ btime = 0
  /\ denied = {} /\ made = {} /\ verified = {}
  /\ stored = [s \in SessionIds |-> None]

Entries == {[aid |-> a, tct |-> t] : a \in {t.aud : t \in TokenPool}, t \in TokenPool}
EntryLists == UNION {[1..k -> Entries] : k \in 0..MAX_PARTICIPANTS}

MinExp(entries) ==
  LET exps == {entries[k].tct.exp : k \in DOMAIN entries}
  IN  CHOOSE e \in exps : \A f \in exps : e <= f

\* bundle_signing_bytes: all members but the signature.
BundleSigningBytes(b) == Unsigned(b)
SealedBundle(b, by) == [b EXCEPT !.signature = [by |-> by, over |-> BundleSigningBytes(b)]]

(***************************************************************************)
(* builder.rs.                                                             *)
(***************************************************************************)
BundleDraftVerdict(coordinator, entries) ==
  Verdict(<<
    <<entries # << >>, "EmptyParticipants">>,
    <<\A k \in DOMAIN entries : entries[k].tct.flaw \notin {"duplicate", "member", "type"}, "UnknownField">>,
    <<\A k \in DOMAIN entries : entries[k].tct.iss = coordinator, "CoordinatorIssuerMismatch">>,
    <<\A k \in DOMAIN entries : entries[k].tct.aud = entries[k].aid, "AudienceMismatch">> >>)

BuiltBundle(coordinator, s, entries) ==
  SealedBundle(
    [version |-> PROTOCOL_VERSION, session_id |-> s, coordinator |-> coordinator, issued_at |-> btime,
     expires_at |-> MinExp(entries), participants |-> entries, signature |-> None], coordinator)

Build(coordinator, s, entries) ==
  /\ BundleDraftVerdict(coordinator, entries) = "ok"
  /\ made' = made \cup {BuiltBundle(coordinator, s, entries)}
  /\ UNCHANGED <<btime, denied, stored, verified>>

(***************************************************************************)
(* server.rs and wire.rs.                                                  *)
(***************************************************************************)
SESSION_BUNDLE_MEMBERS ==
  {"version", "session_id", "coordinator", "issued_at", "expires_at", "participants",
   "extensions", "signature"}

\* parse_session_bundle_envelope.
BundleWireVerdict(doc) ==
  Verdict(<<
    Sub(CheckedJson(doc)),
    <<doc.wrapped, "WireFormInvalid">>,
    <<doc.wrapper_members = {"session_bundle"}, "WireFormInvalid">>,
    <<CheckMembers(doc, SESSION_BUNDLE_MEMBERS), "UnknownField">>,
    <<doc.well_typed, "WireFormInvalid">> >>)

\* What may be posted: a bundle as it was made, one changed on the way, one
\* whose coordinator signed something else.
Altered(b) ==
  {[b EXCEPT !.expires_at = @ + 1], [b EXCEPT !.participants = Tail(@)]}
    \cup {SealedBundle([b EXCEPT !.expires_at = @ + 1], b.coordinator),
          SealedBundle([b EXCEPT !.participants = Tail(@)], b.coordinator)}
    \cup {SealedBundle([b EXCEPT !.coordinator = c], d) : c, d \in Coordinators}
BundleDoc(b) ==
  [json |-> TRUE, duplicate_key |-> FALSE, wrapped |-> TRUE, wrapper_members |-> {"session_bundle"},
   members |-> SESSION_BUNDLE_MEMBERS \ {"extensions"}, well_typed |-> TRUE, body |-> b]
Posts ==
  UNION {{BundleDoc(x) : x \in {b} \cup Altered(b)} \cup {[BundleDoc(b) EXCEPT !.wrapped = FALSE]} : b \in made}

StoreBundle(doc) ==
  /\ BundleWireVerdict(doc) = "ok"
  /\ stored' = [stored EXCEPT ![doc.body.session_id] = doc.body]
  /\ UNCHANGED <<btime, denied, made, verified>>

(***************************************************************************)
(* verifier.rs.                                                            *)
(***************************************************************************)

\* The coordinator's manifest, as the participant knows it.
CoordinatorManifest(c) ==
  Built([hint |-> [kind |-> "pinned_key", subject |-> "s", issuer |-> None, public_key |-> c],
         handshake_endpoint |-> "https", anchors |-> << >>, identity_types |-> <<"pinned_key">>,
         offered |-> << >>, required |-> None, ttl |-> MaxBundleTime], c, 0, "c", None)

\* Mutant of ExpiryWindowHolds: the stated expiry is believed.
ExpiryWindowAny(b) == TRUE
ExpiryWindowHolds(b) == b.participants = << >> \/ MinExp(b.participants) = b.expires_at

ParticipantVerdict(b, e, cap) ==
  LET v == VerifyTct(e.tct, [issuer |-> b.coordinator, for |-> e.aid, now |-> btime, clock_skew |-> 0,
                             cap |-> cap, revocation |-> "fail_open"], Answer("clear")).verdict
  IN  IF v = "IssuerMismatch" THEN "CoordinatorIssuerMismatch" ELSE v

\* verify_session_bundle; manifest is None for UnverifiedAidDangerous.
BundleVerdict(b, me, manifest) ==
  LET entries == [k \in DOMAIN b.participants |->
                    Sub(ParticipantVerdict(b, b.participants[k],
                          IF manifest = None THEN None ELSE manifest.expires_at))]
  IN  Verdict(<<
        <<b.version = PROTOCOL_VERSION, "VersionMismatch">>,
        <<b.expires_at >= btime, "Expired">>,
        <<ExpiryWindowHolds(b), "ExpiryWindowInvariant">>,
        <<b.participants # << >>, "EmptyParticipants">>,
        <<manifest = None \/ VerifyManifest(manifest, btime, FALSE, None) = "ok", "CoordinatorManifest">>,
        <<manifest = None \/ manifest.aid = b.coordinator, "CoordinatorManifestMismatch">>,
        <<b.signature.by = b.coordinator /\ b.signature.over = BundleSigningBytes(b), "InvalidSignature">> >>
      \o entries
      \o <<<<\E k \in DOMAIN b.participants : b.participants[k].aid = me, "NotMember">> >>)

Active(b) == {k \in DOMAIN b.participants : b.participants[k].tct.jti \notin denied}
Outcome(b) ==
  [active |-> {b.participants[k].aid : k \in Active(b)},
   dropped |-> {b.participants[k].aid : k \in DOMAIN b.participants \ Active(b)}]

\* A participant fetches the bundle of a session and verifies it.
FetchBundle(me, s, manifest) ==
  /\ stored[s] # None
  /\ BundleVerdict(stored[s], me, manifest) = "ok"
  /\ verified' = verified \cup
       {[by |-> me, at |-> btime, bundle |-> stored[s], outcome |-> Outcome(stored[s]), denied |-> denied]}
  /\ UNCHANGED <<btime, denied, made, stored>>

DenyParticipant(t) ==
  /\ denied' = denied \cup {t.jti}
  /\ UNCHANGED <<btime, made, stored, verified>>

SbTick ==
  /\ btime < MaxBundleTime
  /\ btime' = btime + 1
  /\ UNCHANGED <<denied, made, stored, verified>>

\* One bundle is built and one verified in a behaviour; it may be sent, and
\* altered, any number of times in between.
SbNext ==
  \/ /\ made = {}
     /\ \E c \in Coordinators, s \in SessionIds, entries \in EntryLists : Build(c, s, entries)
  \/ \E doc \in Posts : StoreBundle(doc)
  \/ /\ verified = {}
     /\ \E me \in {t.aud : t \in TokenPool}, s \in SessionIds,
           m \in {None} \cup {CoordinatorManifest(c) : c \in Coordinators} : FetchBundle(me, s, m)
  \/ \E t \in TokenPool : denied = {} /\ DenyParticipant(t)
  \/ SbTick

SbSpec == SbInit /\ [][SbNext]_sbVars

(***************************************************************************)
(* Properties.                                                             *)
(***************************************************************************)

\* Whatever was left at the server, a bundle that a participant accepts names
\* it, carries one coordinator's signature over exactly these participants,
\* and for every participant it calls active a token of that coordinator for
\* that participant, which is not revoked and lasts as long as the bundle
\* says; the bundle itself had not ended.
BundleSound ==
  \A v \in verified :
     LET b == v.bundle
     IN  /\ b.signature = [by |-> b.coordinator, over |-> BundleSigningBytes(b)]
         /\ v.at <= b.expires_at
         /\ \E k \in DOMAIN b.participants : b.participants[k].aid = v.by
         /\ \A a \in v.outcome.active : \E k \in DOMAIN b.participants :
               LET t == b.participants[k].tct
               IN  /\ b.participants[k].aid = a /\ t.sub = a /\ t.iss = b.coordinator
                   /\ t.signer = b.coordinator /\ t.jti \notin v.denied
                   /\ b.expires_at <= t.exp

\* A token its issuer made for another agent, that is in date and ends no
\* later than the issuer's manifest.
SoundToken(t) ==
  /\ t.flaw = "none" /\ t.signer = t.iss /\ t.iss # t.sub /\ t.aud = t.sub /\ t.jkt = t.sub
  /\ t.grants # {} /\ ATTESTATION_GRANT \notin t.grants
  /\ t.iat <= btime /\ btime <= t.exp /\ t.exp <= CoordinatorManifest(t.iss).expires_at

\* What the builder makes of sound tokens, every participant can verify as
\* long as all of them last: builder and verifier agree on the expiry.
BuiltBundleVerifies ==
  \A b \in made :
     (\A k \in DOMAIN b.participants : SoundToken(b.participants[k].tct))
     => \A k \in DOMAIN b.participants :
          BundleVerdict(b, b.participants[k].aid, CoordinatorManifest(b.coordinator)) = "ok"

\* Builder, server and verifier of session bundles agree: accepted bundles are sound and
\* built ones are accepted.
BundleExact == BundleSound /\ BuiltBundleVerifies
=============================================================================
