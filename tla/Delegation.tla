----------------------------- MODULE Delegation -----------------------------
(***************************************************************************)
(* Delegation of what a TCT grants: single-hop (crates/aitp/src/           *)
(* delegation/) and in chains (crates/aitp-experimental/src/delegation/).  *)
(* Agents sign tokens, the builders' or, if they are Lax, any that their   *)
(* key can sign; whatever was signed may be presented to the verifier,     *)
(* who issued the vouchers, at any later time.                             *)
(***************************************************************************)
EXTENDS Tokens

CONSTANTS
  Verifier,      \* the grantor: aud of every hop, issuer of every voucher
  Lax,           \* agents that sign what they like
  ManifestExp,   \* when the Manifest the verifier has of an agent expires
  MAX_HOPS,      \* max_delegation_hops
  Soft,          \* agents whose deny list cannot be had, which fails soft
  SafeGrants,    \* and leaves these
  Grantees,      \* agents the verifier grants something
  OfferSets,     \* what it grants
  Scopes,        \* scopes a delegator asks for
  ClaimedScopes, \* scopes a lax agent writes
  GrantTtls,     \* ttl it gives a TCT
  Ttls,          \* ttl a delegator gives a hop
  Forgeries,     \* bound of the model: tokens signed by lax agents
  MaxHops,       \* bound of the model: delegations signed at all
  MaxRevocations,\* bound of the model: revocations
  MaxTime        \* bound of the model: last second of the clock

\* A voucher that the verifier signs; an absent one is told from it.
Vouched ==
  [typ : {"voucher"}, signer : {Verifier}, flaw : {"none"}, iss : {Verifier}, sub : Grantees,
   grants : SUBSET Grants, iat : Nat, exp : Nat, src_jti : Jtis]

ASSUME DelegationAssumption ==
  /\ None \notin Vouched
  /\ IsFiniteSet(Agents) /\ Verifier \in Agents /\ Lax \subseteq Agents \ {Verifier}
  /\ ManifestExp \in [Agents -> Nat \cup {None}]
  /\ Soft \subseteq Agents /\ Grantees \subseteq Agents \ {Verifier}
  /\ {OfferSets, Scopes, ClaimedScopes} \subseteq SUBSET SUBSET Grants /\ SafeGrants \subseteq Grants
  /\ {MAX_HOPS, Forgeries, MaxHops, MaxRevocations, MaxTime} \subseteq Nat /\ Ttls \cup GrantTtls \subseteq Nat

VARIABLES
  signed,    \* every token signed so far
  revoked,   \* pairs of an issuer and a jti on that issuer's deny list
  clock

vars == <<signed, revoked, clock>>

Init == signed = {} /\ revoked = {} /\ clock = 0

Vouchers == {t \in signed : t.typ = "voucher"}
Hops == {t \in signed : t.typ = "delegation"}
TakenJtis ==
  {t.jti : t \in {u \in signed : u.typ \in {"tct", "delegation"}}}
\* A random UUID: any that is not in use.
NewJtis ==
  LET unused == Jtis \ TakenJtis
  IN  IF unused = {} THEN {} ELSE {CHOOSE j \in unused : TRUE}

(***************************************************************************)
(* Builders. chain is a sequence of tokens, in a set of its own that is    *)
(* empty when the claim is absent; chain_hash, likewise, is modelled by    *)
(* the sequence it commits to.                                             *)
(***************************************************************************)
Hop(me, sub, aud, scope, exp, voucher, jti, chain, hash) ==
  [typ |-> "delegation", signer |-> me, flaw |-> "none", iss |-> me, sub |-> sub, aud |-> aud,
   scope |-> scope, exp |-> exp, jkt |-> sub, voucher |-> voucher, jti |-> jti,
   chain |-> chain, chain_hash |-> hash]

\* draft of either builder: what bounds the new hop is the voucher or the
\* hop it extends.
Drafts(me, sub, aud, allowed, max_exp, voucher, jti, chain) ==
  {Hop(me, sub, aud, scope, Least(clock + ttl, max_exp), voucher, jti, chain, chain) :
     scope \in {s \in Scopes : s # {} /\ s \subseteq allowed}, ttl \in Ttls}

\* DelegationBuilder::new takes a voucher that names the issuer.
Delegate(me, sub, v) ==
  /\ v.sub = me /\ sub # me
  /\ \E t \in Drafts(me, sub, v.iss, v.grants, v.exp, v, None, {}) : signed' = signed \cup {t}
  /\ UNCHANGED <<revoked, clock>>

\* ChainedDelegationBuilder::new, with the jti that makes it extensible.
DelegateChained(me, sub, v, jti) ==
  /\ v.sub = me /\ sub # me
  /\ \E t \in Drafts(me, sub, v.iss, v.grants, v.exp, v, jti, {}) : signed' = signed \cup {t}
  /\ UNCHANGED <<revoked, clock>>

ChainOf(t) == IF t.chain = {} THEN << >> ELSE CHOOSE s \in t.chain : TRUE

\* ChainedDelegationBuilder::extending.
Extend(me, sub, prior, jti) ==
  /\ prior.sub = me /\ prior.jti # None /\ sub # me
  /\ \E t \in Drafts(me, sub, prior.aud, prior.scope, prior.exp, None, jti,
                     {Append(ChainOf(prior), prior)}) : signed' = signed \cup {t}
  /\ UNCHANGED <<revoked, clock>>

(***************************************************************************)
(* Verification.                                                           *)
(***************************************************************************)

\* resolve_verified_manifest: a Manifest that is there and in date.
Resolves(a) == ManifestExp[a] # None /\ ManifestExp[a] >= clock

\* peek_claims and verify_hop_jws, the same in both verifiers.
HopJws(t) ==
  <<<<t.typ = "delegation", "Crypto">>,
    <<t.flaw # "duplicate", "ClaimsMalformed">>,
    <<t.flaw # "member", "UnknownField">>,
    <<t.flaw # "id", "JtiNotV4">>,
    <<t.flaw # "type", "ClaimsMalformed">>,
    <<Resolves(t.iss), "KeyResolutionFailed">>,
    <<t.signer = t.iss, "InvalidSignature">>,
    <<t.flaw # "version", "VersionUnknown">>>>

HopClaims(t) ==
  <<<<t.aud = Verifier, "AudienceMismatch">>,
    <<t.iss # t.sub, "SelfDelegation">>,
    <<t.scope # {}, "EmptyScope">>,
    <<t.jkt = t.sub, "CnfMalformed">>>>

\* verify_root_voucher; a token without one gets as far as InvalidVoucher.
RootVoucher(t) ==
  IF t.voucher = None THEN <<<<FALSE, "InvalidVoucher">>>>
  ELSE LET v == VerifyVoucher(t.voucher, Verifier)
       IN  <<<<v = "ok", IF v \in {"Crypto", "VersionUnknown", "UnknownField"} THEN v
                         ELSE "InvalidVoucher">>,
             <<t.voucher.sub = t.iss, "InvalidVoucher">>,
             <<t.voucher.exp >= clock, "Expired">>,
             <<t.exp <= t.voucher.exp, "Expired">>,
             <<t.scope \subseteq t.voucher.grants, "ScopeExceeded">>>>

\* What the revocation hooks say of an artifact.
Status(issuer, jti) ==
  IF issuer \in Soft THEN SafeSubset(SafeGrants)
  ELSE Answer(IF <<issuer, jti>> \in revoked THEN "revoked" ELSE "clear")

\* delegation_revocation.
AfterRevocation(issuer, jti, scope) ==
  LET r == ApplyRevocation("check", Status(issuer, jti), scope)
  IN  [r EXCEPT !.verdict = IF @ = "Revoked" THEN "SourceTctRevoked" ELSE @]

Refused(verdict) == [verdict |-> verdict, grants |-> {}]

SingleHop(t) ==
  HopJws(t)
  \o <<<<t.aud = Verifier, "AudienceMismatch">>, <<t.exp >= clock, "Expired">>>>
  \o RootVoucher(t) \o HopClaims(t)

\* Mutant of VerifyDelegation: a jti without a chain is let through.
VerifyDelegationJti(t) ==
  LET v == Verdict(<<<<t.chain = {}, "MultihopNotSupported">>>> \o SingleHop(t))
  IN  IF v # "ok" THEN Refused(v)
      ELSE AfterRevocation(Verifier, t.voucher.src_jti, t.scope)

\* verify_delegation of the stable crate refuses what only chains have.
VerifyDelegation(t) ==
  LET v == Verdict(
             <<<<t.typ = "delegation", "Crypto">>,
               <<t.flaw # "duplicate", "ClaimsMalformed">>,
               <<t.flaw # "member", "UnknownField">>,
               <<t.chain = {}, "MultihopNotSupported">>,
               <<t.jti = None /\ t.chain_hash = {}, "ClaimsMalformed">>>>
             \o SingleHop(t))
  IN  IF v # "ok" THEN Refused(v)
      ELSE AfterRevocation(Verifier, t.voucher.src_jti, t.scope)

\* verify_single_hop of the experimental crate: a hop without a chain.
VerifyChainedSingle(t) ==
  LET v == Verdict(<<<<MAX_HOPS > 0 \/ t.chain = {}, "MultihopNotSupported">>,
                     <<MAX_HOPS > 0 \/ t.jti = None, "ClaimsMalformed">>>> \o SingleHop(t))
  IN  IF v # "ok" THEN Refused(v)
      ELSE AfterRevocation(Verifier, t.voucher.src_jti, t.scope)

\* Mutant of Continues: a later hop need not come from the delegatee.
ContinuesFromAnyone(hops, i) ==
  <<<<hops[i].voucher = None, "InvalidVoucher">>,
    <<hops[i].exp <= hops[i - 1].exp, "Expired">>,
    <<hops[i].scope \subseteq hops[i - 1].scope, "ScopeExceeded">>>>

\* A later hop carries on where the one before it ended.
Continues(hops, i) ==
  <<<<hops[i].voucher = None, "InvalidVoucher">>,
    <<hops[i].iss = hops[i - 1].sub, "InvalidVoucher">>,
    <<hops[i].exp <= hops[i - 1].exp, "Expired">>,
    <<hops[i].scope \subseteq hops[i - 1].scope, "ScopeExceeded">>>>

\* An entry minted as a chain carries exactly what comes before it.
PrefixChecks(hops, i) ==
  <<<<i = Len(hops) \/ hops[i].chain = {}
      \/ (hops[i].chain = {SubSeq(hops, 1, i - 1)} /\ hops[i].chain_hash = hops[i].chain),
      "InvalidVoucher">>>>

\* One turn of verify_multi_hop's loop, oldest hop first.
HopVerdict(hops, i) ==
  LET h == hops[i]
  IN  Verdict(HopJws(h) \o HopClaims(h)
        \o <<<<h.jti # None, "InvalidVoucher">>,
             <<\A k \in 1..(i - 1) : hops[k].jti # h.jti, "InvalidVoucher">>,
             <<h.exp >= clock, "Expired">>>>
        \o (IF i = 1 THEN RootVoucher(h) ELSE Continues(hops, i))
        \o PrefixChecks(hops, i))

\* The source TCT, then every hop against the deny list of its issuer, each
\* on what the lookup before it has left.
ChainRevocation(hops) ==
  LET left[k \in 0..Len(hops)] ==
        IF k = 0 THEN AfterRevocation(Verifier, hops[1].voucher.src_jti, hops[Len(hops)].scope)
        ELSE IF left[k - 1].verdict # "ok" THEN left[k - 1]
        ELSE AfterRevocation(hops[k].iss, hops[k].jti, left[k - 1].grants)
  IN  left[Len(hops)]

VerifyMultiHop(t) ==
  LET hops == Append(ChainOf(t), t)
      v == Verdict(<<<<Len(ChainOf(t)) + 2 <= MAX_HOPS, "HopLimitExceeded">>,
                     <<t.chain_hash = {ChainOf(t)}, "ChainHashMismatch">>>>
                   \o [i \in DOMAIN hops |-> Sub(HopVerdict(hops, i))])
  IN  IF v # "ok" THEN Refused(v) ELSE ChainRevocation(hops)

\* verify_chained_delegation.
VerifyChained(t) ==
  IF ChainOf(t) = << >> THEN VerifyChainedSingle(t)
  ELSE IF MAX_HOPS = 0 THEN Refused("MultihopNotSupported") ELSE VerifyMultiHop(t)

(***************************************************************************)
(* The agents.                                                             *)
(***************************************************************************)

\* The verifier grants: TctBuilder::build with its voucher.
Grant(sub, grants, ttl, jti) ==
  LET b == [subject |-> sub, audience |-> sub, subject_pubkey |-> sub, grants |-> grants,
            ttl |-> ttl, mint_voucher |-> TRUE, jti |-> jti, ext |-> FALSE, attestation |-> FALSE]
  IN  /\ DraftVerdict(Verifier, b) = "ok"
      /\ signed' = signed \cup {BuiltTct(Verifier, b, clock)} \cup BuiltVouchers(Verifier, b, clock)
      /\ UNCHANGED <<revoked, clock>>

\* Chains a lax agent may write: of tokens there are, empty, or none at
\* all.
Chains ==
  {{}, {<< >>}} \cup {{<<s>>} : s \in Hops}
       \cup ({{<<s, t>>} : s \in Hops, t \in Hops} \ {{<<s, s>>} : s \in Hops})

\* A lax agent signs a hop with its own key, in its own name or a grantee's.
Forge(l, sub) ==
  /\ Cardinality({t \in Hops : t.signer \in Lax}) < Forgeries
  /\ \E iss \in {l} \cup Grantees, scope \in ClaimedScopes,
        v \in {None} \cup Vouchers, jti \in {None} \cup TakenJtis \cup NewJtis, chain \in Chains :
        signed' = signed \cup
          {[Hop(l, sub, Verifier, scope, clock, v, jti, chain, chain) EXCEPT !.iss = iss]}
  /\ UNCHANGED <<revoked, clock>>

\* An issuer puts something it signed on its deny list.
RevokeArtifact(t) ==
  /\ Cardinality(revoked) < MaxRevocations
  /\ t.typ \in {"tct", "delegation"} /\ t.jti # None /\ <<t.signer, t.jti>> \notin revoked
  /\ revoked' = revoked \cup {<<t.signer, t.jti>>}
  /\ UNCHANGED <<signed, clock>>

Tick == clock < MaxTime /\ clock' = clock + 1 /\ UNCHANGED <<signed, revoked>>

\* An agent other than the verifier delegates to another.
Sign ==
  /\ Cardinality(Hops) < MaxHops
  /\ \/ \E me \in Agents \ Lax, sub \in Agents \ {Verifier}, v \in Vouchers :
            Delegate(me, sub, v) \/ \E jti \in NewJtis : DelegateChained(me, sub, v, jti)
     \/ \E me \in Agents \ Lax, sub \in Agents \ {Verifier}, p \in Hops, jti \in NewJtis :
            Extend(me, sub, p, jti)
     \/ \E l \in Lax, sub \in Agents : Forge(l, sub)

Next ==
  \/ \E sub \in Grantees, grants \in OfferSets, ttl \in GrantTtls, jti \in NewJtis :
       Vouchers = {} /\ Grant(sub, grants, ttl, jti)
  \/ Sign
  \/ \E t \in signed : RevokeArtifact(t)
  \/ Tick

Spec == Init /\ [][Next]_vars

(***************************************************************************)
(* Properties.                                                             *)
(***************************************************************************)

\* What agents may do at the verifier, whatever a verifier computes: what
\* it granted them, and what was passed on by the signature of someone who
\* could do it, while nothing on the way is out of date or revoked.
InDate(t) == t.exp >= clock
Listed(issuer, jti) == issuer \notin Soft /\ <<issuer, jti>> \in revoked
Granted ==
  UNION {{<<v.sub, g>> : g \in v.grants} :
           v \in {u \in Vouchers : /\ u.signer = Verifier /\ InDate(u)
                                   /\ ~Listed(Verifier, u.src_jti)}}
PassedOn(able, hops) ==
  able \cup UNION {{<<h.sub, g>> : g \in {x \in h.scope : <<h.signer, x>> \in able}} : h \in hops}
Entitled ==
  LET live == {h \in Hops : InDate(h) /\ ~Listed(h.signer, h.jti)}
      able[n \in 0..Cardinality(Agents)] ==
        IF n = 0 THEN Granted ELSE PassedOn(able[n - 1], live)
  IN  able[Cardinality(Agents)]

Confers(t, answer) == {<<t.sub, g>> : g \in answer.grants}

\* No token, however it was put together or by whom, gives its subject a
\* grant that the verifier did not give and a chain of signatures did not
\* pass on. A hop presented alone is not looked up by its own jti.
DelegationSound ==
  \A t \in Hops :
     LET chained == VerifyChained(t)
         single == VerifyDelegation(t)
     IN  /\ chained.verdict = "ok" =>
              Confers(t, chained) \subseteq Entitled \cup PassedOn(Granted, {t})
         /\ single.verdict = "ok" => Confers(t, single) \subseteq PassedOn(Granted, {t})

\* "`revoked_jtis` is applied to the root voucher's `src_jti` and to every
\* hop's `jti`": a delegation whose issuer has revoked it confers nothing.
RevokedHopConfersNothing ==
  \A t \in Hops :
     LET chained == VerifyChained(t)
     IN  chained.verdict = "ok" => Confers(t, chained) \subseteq Entitled

\* What the builders build the verifier of chains accepts, unless something
\* expired, was revoked or cannot be looked up, or the chain is too long or
\* not opted into; and the verifier of single hops agrees with it on what
\* both take.
Honest(t) ==
  LET hops == Append(ChainOf(t), t)
  IN  \A k \in DOMAIN hops : hops[k].signer \notin Lax
Unimpeded(t) ==
  LET hops == Append(ChainOf(t), t)
      first == hops[1].voucher
  IN  /\ IF Len(hops) = 1 THEN MAX_HOPS > 0 \/ t.jti = None ELSE Len(hops) + 1 <= MAX_HOPS
      /\ InDate(first)
      /\ \A k \in DOMAIN hops : InDate(hops[k]) /\ Resolves(hops[k].iss)
      /\ ~Listed(Verifier, first.src_jti)
      /\ \A k \in DOMAIN hops : ~Listed(hops[k].iss, hops[k].jti)
VerifiersAgree ==
  /\ \A t \in Hops :
       Honest(t) /\ Unimpeded(t) => VerifyChained(t).verdict \in {"ok", "SafeSubsetEmpty"}
  /\ \A t \in Hops :
       VerifyDelegation(t).verdict = "ok" <=>
         /\ VerifyChained(t).verdict = "ok"
         /\ t.chain = {} /\ t.jti = None /\ t.chain_hash = {}
=============================================================================
