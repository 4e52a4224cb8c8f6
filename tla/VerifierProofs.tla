--------------------------- MODULE VerifierProofs ---------------------------
(***************************************************************************)
(* What a verifier's "ok" says. Every verifier of the code is modelled as  *)
(* a list of checks (module Checks): what a verdict says of each of them,  *)
(* and what the token verifier, the manifest builder and the envelopes     *)
(* make of that. The proofs about the parties cite these lemmas.           *)
(***************************************************************************)
EXTENDS Tokens, Manifests, FiniteSetTheorems, NaturalsInduction, WellFoundedInduction,
        SequenceTheorems, TLAPS

\* A list of checks that finds nothing wrong has found every condition true.
LEMMA VerdictHolds ==
  ASSUME NEW n \in Nat, NEW S, DOMAIN S = 1..n, \A k \in 1..n : S[k][2] # "ok" \/ S[k][1],
         Verdict(S) = "ok"
  PROVE  \A k \in 1..n : S[k][1]
<1> DEFINE failed == {k \in DOMAIN S : ~S[k][1]}
<1>1. failed = {} \/ S[CHOOSE k \in failed : \A l \in failed : k <= l][2] = "ok"
  BY DEF Verdict
<1>2. ASSUME failed # {} PROVE \E k \in failed : \A l \in failed : k <= l
  <2>1. failed \in SUBSET Nat
    OBVIOUS
  <2> HIDE DEF failed
  <2>2. \E k \in failed : \A l \in failed : <<l, k>> \notin OpToRel(<, Nat)
    BY <1>2, <2>1, NatLessThanWellFounded, WFMin
  <2>3. PICK k \in failed : \A l \in failed : <<l, k>> \notin OpToRel(<, Nat)
    BY <2>2
  <2>4. \A l \in failed : ~(l < k)
    BY <2>1, <2>3 DEF OpToRel
  <2> QED
    BY <2>1, <2>4
<1>3. failed # {} => (CHOOSE k \in failed : \A l \in failed : k <= l) \in failed
  BY <1>2
<1>4. \A k \in failed : S[k][2] # "ok"
  OBVIOUS
<1>5. failed = {}
  BY <1>1, <1>3, <1>4
<1> QED
  BY <1>5

\* The condition of a check.
LEMMA ConditionOf ==
  ASSUME NEW p, NEW e, (<<p, e>>)[1]
  PROVE  p
OBVIOUS

\* A check whose condition holds.
LEMMA ConditionIs ==
  ASSUME NEW p, NEW e, p
  PROVE  (<<p, e>>)[1]
OBVIOUS

\* A tuple is a sequence over the set of its members.
LEMMA TupleSeq ==
  ASSUME NEW X, NEW a \in X, NEW b \in X
  PROVE  /\ <<a, b>> \in Seq(X)
         /\ \A c \in X : <<a, b, c>> \in Seq(X)
         /\ \A c, d \in X : <<a, b, c, d>> \in Seq(X)
OBVIOUS

\* All conditions of a list of checks.
AllHold(S) == \A k \in DOMAIN S : S[k][1]

\* A list whose errors are errors has the verdict ok only if all hold.
LEMMA VerdictMeans ==
  ASSUME NEW X, NEW S \in Seq(X), \A x \in X : x[2] # "ok" \/ x[1]
  PROVE  Verdict(S) = "ok" <=> AllHold(S)
<1>1. DOMAIN S = 1..Len(S) /\ Len(S) \in Nat /\ \A k \in 1..Len(S) : S[k] \in X
  OBVIOUS
<1>2. Verdict(S) = "ok" => AllHold(S)
  BY <1>1, VerdictHolds DEF AllHold
<1>3. AllHold(S) => {k \in DOMAIN S : ~S[k][1]} = {}
  BY DEF AllHold
<1>4. AllHold(S) => Verdict(S) = "ok"
  BY <1>3 DEF Verdict
<1> QED
  BY <1>2, <1>4

\* A list of checks made of two holds if both do.
LEMMA JoinHolds ==
  ASSUME NEW X, NEW A \in Seq(X), NEW B \in Seq(X)
  PROVE  A \o B \in Seq(X) /\ (AllHold(A \o B) <=> AllHold(A) /\ AllHold(B))
<1>1. A \o B \in Seq(X) /\ Len(A \o B) = Len(A) + Len(B)
      /\ \A i \in 1..(Len(A) + Len(B)) : (A \o B)[i] = IF i <= Len(A) THEN A[i] ELSE B[i - Len(A)]
  BY ConcatProperties
<1>2. PICK S \in Seq(X) : S = A \o B
  BY <1>1
<1>3. /\ DOMAIN S = 1..(Len(A) + Len(B)) /\ DOMAIN A = 1..Len(A) /\ DOMAIN B = 1..Len(B)
      /\ Len(A) \in Nat /\ Len(B) \in Nat
  BY <1>1, <1>2
<1>4. ASSUME AllHold(S), NEW k \in DOMAIN A PROVE A[k][1]
  <2>1. k \in DOMAIN S /\ S[k] = A[k]
    BY <1>1, <1>2, <1>3
  <2> QED
    BY <1>4, <2>1 DEF AllHold
<1>5. ASSUME AllHold(S), NEW k \in DOMAIN B PROVE B[k][1]
  <2>1. PICK j : j = Len(A) + k
    OBVIOUS
  <2>2. j \in 1..(Len(A) + Len(B)) /\ ~(j <= Len(A)) /\ j - Len(A) = k
    BY <1>3, <2>1
  <2>3. j \in DOMAIN S /\ S[j] = B[k]
    BY <1>1, <1>2, <1>3, <2>2
  <2> QED
    BY <1>5, <2>3 DEF AllHold
<1>6. ASSUME AllHold(A), AllHold(B), NEW k \in DOMAIN S PROVE S[k][1]
  <2>1. CASE k <= Len(A)
    <3>1. k \in DOMAIN A /\ S[k] = A[k]
      BY <1>1, <1>2, <1>3, <2>1
    <3> QED
      BY <1>6, <3>1 DEF AllHold
  <2>2. CASE ~(k <= Len(A))
    <3>1. PICK j : j = k - Len(A)
      OBVIOUS
    <3>2. j \in 1..Len(B)
      BY <1>3, <2>2, <3>1
    <3>3. j \in DOMAIN B /\ S[k] = B[j]
      BY <1>1, <1>2, <1>3, <2>2, <3>1, <3>2
    <3> QED
      BY <1>6, <3>3 DEF AllHold
  <2> QED
    BY <2>1, <2>2
<1> QED
  BY <1>1, <1>2, <1>4, <1>5, <1>6 DEF AllHold

\* The checks of verify_tct_before_revocation that are its own, and the last
\* ones of CoreChecks::verify.
ContextChecks(t, for) ==
  <<<<t.aud = for, "AudienceMismatch">>,
    <<t.aud = t.sub, "AudienceMismatch">>,
    <<t.iss # t.sub, "SelfIssued">>,
    <<ATTESTATION_GRANT \notin t.grants, "AttestationMarker">>>>
LastChecks(t) == <<<<t.grants # {}, "EmptyGrants">>, <<t.jkt = t.sub, "CnfMalformed">>>>

\* verify_tct_before_revocation passes if each of its lists does; only the
\* lifetime is a matter of the time.
LEMMA BeforeMeans ==
  ASSUME NEW t, NEW c
  PROVE  BeforeRevocation(t, c) = "ok" <=>
           /\ AllHold(PeekChecks(t, "tct")) /\ AllHold(SignedChecks(t, c.issuer))
           /\ AllHold(ContextChecks(t, c.for)) /\ AllHold(LifetimeChecks(t, c)) /\ AllHold(LastChecks(t))
<1> DEFINE P == PeekChecks(t, "tct")
           G == SignedChecks(t, c.issuer)
           K == ContextChecks(t, c.for)
           L == LifetimeChecks(t, c)
           R == LastChecks(t)
           X == {P[1], P[2], P[3], P[4], G[1], G[2], G[3], G[4], K[1], K[2], K[3], K[4],
                 L[1], L[2], L[3], R[1], R[2]}
<1>1. BeforeRevocation(t, c) = Verdict((((P \o G) \o K) \o L) \o R)
  BY DEF BeforeRevocation, CoreVerdict, ContextChecks, LastChecks
<1>2. /\ P = <<P[1], P[2], P[3], P[4]>> /\ G = <<G[1], G[2], G[3], G[4]>> /\ K = <<K[1], K[2], K[3], K[4]>>
      /\ L = <<L[1], L[2], L[3]>> /\ R = <<R[1], R[2]>>
  BY DEF PeekChecks, SignedChecks, ContextChecks, LifetimeChecks, LastChecks
<1>3. \A k \in 1..4 : P[k][2] # "ok" /\ G[k][2] # "ok" /\ K[k][2] # "ok"
  BY DEF PeekChecks, SignedChecks, ContextChecks
<1>4. L[1][2] # "ok" /\ L[2][2] # "ok" /\ L[3][2] # "ok" /\ R[1][2] # "ok" /\ R[2][2] # "ok"
  BY DEF LifetimeChecks, LastChecks
<1> HIDE DEF P, G, K, L, R
<1>5. \A x \in X : x[2] # "ok" \/ x[1]
  BY <1>3, <1>4
<1>6. P \in Seq(X) /\ G \in Seq(X) /\ K \in Seq(X) /\ L \in Seq(X) /\ R \in Seq(X)
  <2>1. /\ {P[1], P[2], P[3], P[4]} \subseteq X /\ {G[1], G[2], G[3], G[4]} \subseteq X
        /\ {K[1], K[2], K[3], K[4]} \subseteq X /\ {L[1], L[2], L[3]} \subseteq X /\ {R[1], R[2]} \subseteq X
    OBVIOUS
  <2> HIDE DEF X
  <2>2. /\ <<P[1], P[2], P[3], P[4]>> \in Seq(X) /\ <<G[1], G[2], G[3], G[4]>> \in Seq(X)
        /\ <<K[1], K[2], K[3], K[4]>> \in Seq(X)
    BY <2>1, TupleSeq
  <2>3. <<L[1], L[2], L[3]>> \in Seq(X) /\ <<R[1], R[2]>> \in Seq(X)
    BY <2>1, TupleSeq
  <2> QED
    BY <1>2, <2>2, <2>3, Zenon
<1> HIDE DEF X
<1>7. PICK A \in Seq(X) : A = P \o G /\ (AllHold(A) <=> AllHold(P) /\ AllHold(G))
  BY <1>6, JoinHolds
<1>8. PICK B \in Seq(X) : B = A \o K /\ (AllHold(B) <=> AllHold(A) /\ AllHold(K))
  BY <1>6, JoinHolds
<1>9. PICK C \in Seq(X) : C = B \o L /\ (AllHold(C) <=> AllHold(B) /\ AllHold(L))
  BY <1>6, JoinHolds
<1>10. PICK D \in Seq(X) : D = C \o R /\ (AllHold(D) <=> AllHold(C) /\ AllHold(R))
  BY <1>6, JoinHolds
<1>11. BeforeRevocation(t, c) = "ok" <=> AllHold(D)
  BY <1>1, <1>5, <1>7, <1>8, <1>9, <1>10, VerdictMeans
<1>12. BeforeRevocation(t, c) = "ok" <=>
         AllHold(P) /\ AllHold(G) /\ AllHold(K) /\ AllHold(L) /\ AllHold(R)
  BY <1>7, <1>8, <1>9, <1>10, <1>11
<1> QED
  BY <1>12 DEF P, G, K, L, R

\* The lifetime: what the checks say of it.
LEMMA LifetimeMeans ==
  ASSUME NEW t, NEW c
  PROVE  AllHold(LifetimeChecks(t, c)) <=>
           /\ t.exp >= c.now - c.clock_skew /\ t.iat <= c.now + c.clock_skew
           /\ c.cap = None \/ t.exp <= c.cap
<1> DEFINE x == <<t.exp >= c.now - c.clock_skew, "Expired">>
           y == <<t.iat <= c.now + c.clock_skew, "Expired">>
           z == <<c.cap = None \/ t.exp <= c.cap, "ExpiresAfterManifest">>
<1>1. LifetimeChecks(t, c) = <<x, y, z>>
  BY DEF LifetimeChecks
<1>2. /\ x[1] <=> t.exp >= c.now - c.clock_skew
      /\ y[1] <=> t.iat <= c.now + c.clock_skew
      /\ z[1] <=> (c.cap = None \/ t.exp <= c.cap)
  BY ConditionOf, ConditionIs
<1> HIDE DEF x, y, z
<1>3. AllHold(<<x, y, z>>) <=> x[1] /\ y[1] /\ z[1]
  <2>1. PICK S : S = <<x, y, z>>
    OBVIOUS
  <2>2. DOMAIN S = 1..3 /\ S[1] = x /\ S[2] = y /\ S[3] = z
    BY <2>1
  <2>3. \A k \in DOMAIN S : k = 1 \/ k = 2 \/ k = 3
    BY <2>2
  <2> QED
    BY <2>1, <2>2, <2>3 DEF AllHold
<1> QED
  BY <1>1, <1>2, <1>3

\* A token that passes is for the audience it names, its subject.
LEMMA AudienceMeans ==
  ASSUME NEW t, NEW for, AllHold(ContextChecks(t, for))
  PROVE  t.aud = for /\ t.aud = t.sub
<1>1. /\ DOMAIN ContextChecks(t, for) = 1..4
      /\ ContextChecks(t, for)[1] = <<t.aud = for, "AudienceMismatch">>
      /\ ContextChecks(t, for)[2] = <<t.aud = t.sub, "AudienceMismatch">>
  BY DEF ContextChecks
<1>2. (<<t.aud = for, "AudienceMismatch">>)[1] /\ (<<t.aud = t.sub, "AudienceMismatch">>)[1]
  BY <1>1 DEF AllHold
<1> QED
  BY <1>2, ConditionOf

\* verify_tct: a token that passes has not expired, nor does it outlive the
\* manifest.
LEMMA TctInDate ==
  ASSUME NEW t, NEW c, NEW status, VerifyTct(t, c, status).verdict = "ok"
  PROVE  t.exp >= c.now - c.clock_skew /\ (c.cap = None \/ t.exp <= c.cap)
<1>1. BeforeRevocation(t, c) = "ok"
  BY DEF VerifyTct
<1> QED
  BY <1>1, BeforeMeans, LifetimeMeans

\* A check whose error is one, or that has a verdict of its own.
Fine(check) == check[2] # "ok" \/ check[1]

\* A check that has a verdict of its own is fine.
LEMMA SubFine ==
  ASSUME NEW v
  PROVE  Fine(Sub(v)) /\ (Sub(v)[1] => v = "ok")
<1>1. Sub(v) = <<v = "ok", v>>
  BY DEF Sub
<1>2. CASE v = "ok"
  <2>1. (<<v = "ok", v>>)[1]
    BY <1>2
  <2> QED
    BY <1>1, <1>2, <2>1 DEF Fine
<1>3. CASE v # "ok"
  <2>1. (<<v = "ok", v>>)[2] = v
    OBVIOUS
  <2>2. (<<v = "ok", v>>)[1] => v = "ok"
    BY ConditionOf
  <2> QED
    BY <1>1, <1>3, <2>1, <2>2 DEF Fine
<1> QED
  BY <1>2, <1>3

\* Two checks that find nothing wrong have found their conditions true.
LEMMA TwoHold ==
  ASSUME NEW a, NEW b, Fine(a), Fine(b), Verdict(<<a, b>>) = "ok"
  PROVE  a[1] /\ b[1]
<1>1. PICK S : S = <<a, b>>
  OBVIOUS
<1>2. DOMAIN S = 1..2 /\ S[1] = a /\ S[2] = b
  BY <1>1
<1>3. \A k \in 1..2 : S[k][2] # "ok" \/ S[k][1]
  BY <1>2 DEF Fine
<1>4. \A k \in 1..2 : S[k][1]
  BY <1>1, <1>2, <1>3, VerdictHolds
<1> QED
  BY <1>2, <1>4

\* Four checks that find nothing wrong have found their conditions true.
LEMMA FourHold ==
  ASSUME NEW a, NEW b, NEW c, NEW d, Fine(a), Fine(b), Fine(c), Fine(d),
         Verdict(<<a, b, c, d>>) = "ok"
  PROVE  a[1] /\ b[1] /\ c[1] /\ d[1]
<1>1. PICK S : S = <<a, b, c, d>>
  OBVIOUS
<1>2. DOMAIN S = 1..4 /\ S[1] = a /\ S[2] = b /\ S[3] = c /\ S[4] = d
  BY <1>1
<1>3. \A k \in 1..4 : S[k][2] # "ok" \/ S[k][1]
  BY <1>2 DEF Fine
<1>4. \A k \in 1..4 : S[k][1]
  BY <1>1, <1>2, <1>3, VerdictHolds
<1> QED
  BY <1>2, <1>4

\* Five, likewise.
LEMMA FiveHold ==
  ASSUME NEW a, NEW b, NEW c, NEW d, NEW e, Fine(a), Fine(b), Fine(c), Fine(d), Fine(e),
         Verdict(<<a, b, c, d, e>>) = "ok"
  PROVE  a[1] /\ b[1] /\ c[1] /\ d[1] /\ e[1]
<1>1. PICK S : S = <<a, b, c, d, e>>
  OBVIOUS
<1>2. DOMAIN S = 1..5 /\ S[1] = a /\ S[2] = b /\ S[3] = c /\ S[4] = d /\ S[5] = e
  BY <1>1
<1>3. \A k \in 1..5 : S[k][2] # "ok" \/ S[k][1]
  BY <1>2 DEF Fine
<1>4. \A k \in 1..5 : S[k][1]
  BY <1>1, <1>2, <1>3, VerdictHolds
<1> QED
  BY <1>2, <1>4

\* apply_revocation: a list that answers "revoked", or none, refuses.
LEMMA CheckedClear ==
  ASSUME NEW source, source = "check", NEW status, NEW grants,
         ApplyRevocation(source, status, grants).verdict = "ok"
  PROVE  status.kind # "unavailable" /\ status.kind # "revoked"
<1>1. PICK left : ApplyRevocation(source, status, grants).verdict = Verdict(<<
        <<source # "self_attestation", "RevocationUnavailable">>,
        <<source = "fail_open" \/ status.kind # "unavailable", "RevocationUnavailable">>,
        <<source = "fail_open" \/ status.kind # "revoked", "Revoked">>,
        <<left # {} \/ status.kind # "soft", "SafeSubsetEmpty">> >>)
  BY DEF ApplyRevocation
<1> DEFINE a == <<source # "self_attestation", "RevocationUnavailable">>
           b == <<source = "fail_open" \/ status.kind # "unavailable", "RevocationUnavailable">>
           c == <<source = "fail_open" \/ status.kind # "revoked", "Revoked">>
           d == <<left # {} \/ status.kind # "soft", "SafeSubsetEmpty">>
<1>2. Verdict(<<a, b, c, d>>) = "ok"
  BY <1>1
<1>3. Fine(a) /\ Fine(b) /\ Fine(c) /\ Fine(d)
  BY DEF Fine
<1> HIDE DEF a, b, c, d
<1>4. b[1] /\ c[1]
  BY <1>2, <1>3, FourHold
<1>5. source = "fail_open" \/ status.kind # "unavailable"
  BY <1>4, ConditionOf DEF b
<1>6. source = "fail_open" \/ status.kind # "revoked"
  BY <1>4, ConditionOf DEF c
<1> QED
  BY <1>5, <1>6

\* jws::verify_compact is called with the issuer's key.
LEMMA SignedMeans ==
  ASSUME NEW t, NEW issuer, AllHold(SignedChecks(t, issuer))
  PROVE  t.signer = issuer /\ t.iss = issuer
<1>1. /\ DOMAIN SignedChecks(t, issuer) = 1..4
      /\ SignedChecks(t, issuer)[1] = <<t.signer = issuer, "Crypto">>
      /\ SignedChecks(t, issuer)[4] = <<t.iss = issuer, "IssuerMismatch">>
  BY DEF SignedChecks
<1>2. (<<t.signer = issuer, "Crypto">>)[1] /\ (<<t.iss = issuer, "IssuerMismatch">>)[1]
  BY <1>1 DEF AllHold
<1> QED
  BY <1>2, ConditionOf

\* Eight checks that find nothing wrong have found their conditions true.
LEMMA EightHold ==
  ASSUME NEW a, NEW b, NEW c, NEW d, NEW e, NEW f, NEW g, NEW h,
         Fine(a), Fine(b), Fine(c), Fine(d), Fine(e), Fine(f), Fine(g), Fine(h),
         Verdict(<<a, b, c, d, e, f, g, h>>) = "ok"
  PROVE  a[1] /\ b[1] /\ c[1] /\ d[1] /\ e[1] /\ f[1] /\ g[1] /\ h[1]
<1>1. PICK S : S = <<a, b, c, d, e, f, g, h>>
  OBVIOUS
<1>2. /\ DOMAIN S = 1..8 /\ S[1] = a /\ S[2] = b /\ S[3] = c /\ S[4] = d
      /\ S[5] = e /\ S[6] = f /\ S[7] = g /\ S[8] = h
  BY <1>1
<1>3. \A k \in 1..8 : S[k][2] # "ok" \/ S[k][1]
  BY <1>2 DEF Fine
<1>4. \A k \in 1..8 : S[k][1]
  BY <1>1, <1>2, <1>3, VerdictHolds
<1> QED
  BY <1>2, <1>4

\* Two checks that pass.
LEMMA TwoOk ==
  ASSUME NEW a, NEW b, a[1], b[1]
  PROVE  Verdict(<<a, b>>) = "ok"
<1>1. PICK S : S = <<a, b>>
  OBVIOUS
<1>2. DOMAIN S = 1..2 /\ S[1] = a /\ S[2] = b
  BY <1>1
<1>3. {k \in DOMAIN S : ~S[k][1]} = {}
  BY <1>2
<1> QED
  BY <1>1, <1>3 DEF Verdict

\* Checks whose conditions hold find nothing wrong: five of them, and eight.
LEMMA FiveOk ==
  ASSUME NEW a, NEW b, NEW c, NEW d, NEW e, a[1], b[1], c[1], d[1], e[1]
  PROVE  Verdict(<<a, b, c, d, e>>) = "ok"
<1>1. PICK S : S = <<a, b, c, d, e>>
  OBVIOUS
<1>2. DOMAIN S = 1..5 /\ S[1] = a /\ S[2] = b /\ S[3] = c /\ S[4] = d /\ S[5] = e
  BY <1>1
<1>3. {k \in DOMAIN S : ~S[k][1]} = {}
  BY <1>2
<1> QED
  BY <1>1, <1>3 DEF Verdict

\* Likewise.
LEMMA EightOk ==
  ASSUME NEW a, NEW b, NEW c, NEW d, NEW e, NEW f, NEW g, NEW h,
         a[1], b[1], c[1], d[1], e[1], f[1], g[1], h[1]
  PROVE  Verdict(<<a, b, c, d, e, f, g, h>>) = "ok"
<1>1. PICK S : S = <<a, b, c, d, e, f, g, h>>
  OBVIOUS
<1>2. /\ DOMAIN S = 1..8 /\ S[1] = a /\ S[2] = b /\ S[3] = c /\ S[4] = d
      /\ S[5] = e /\ S[6] = f /\ S[7] = g /\ S[8] = h
  BY <1>1
<1>3. {k \in DOMAIN S : ~S[k][1]} = {}
  BY <1>2
<1> QED
  BY <1>1, <1>3 DEF Verdict

\* sign_prepared_envelope signs what AitpEnvelope::unsigned makes.
LEMMA EnvelopeMade ==
  ASSUME NEW signer, NEW type, NEW payload, NEW now \in Nat, NEW none, NEW e,
         e = SignedEnvelope(signer, UnsignedEnvelope(signer, type, payload, now, none), none)
  PROVE  /\ e.message_type = type /\ e.payload = payload /\ e.sender = signer
         /\ \A x : [e EXCEPT !.sender = x].payload = payload
<1>1. PICK u : u = [version |-> PROTOCOL_VERSION, message_type |-> type, v4 |-> TRUE, timestamp |-> now,
                    sender |-> signer, payload |-> payload, payload_object |-> TRUE, well_typed |-> TRUE,
                    members |-> ENVELOPE_MEMBERS \ {"extensions"}, signature |-> none]
  OBVIOUS
<1>2. u = UnsignedEnvelope(signer, type, payload, now, none)
  BY <1>1 DEF UnsignedEnvelope
<1>3. UnsignedStructure(u) = "ok"
  <2>1. PICK S : S = << <<u.payload_object, "PayloadNotObject">>, <<u.timestamp >= 0, "NegativeTimestamp">> >>
    OBVIOUS
  <2>2. S[1][1] /\ S[2][1] /\ DOMAIN S = 1..2
    <3>1. u.payload_object = TRUE /\ u.timestamp >= 0
      BY <1>1
    <3>2. S[1] = <<u.payload_object, "PayloadNotObject">>
      BY <2>1
    <3>3. S[2] = <<u.timestamp >= 0, "NegativeTimestamp">>
      BY <2>1
    <3>4. S[1][1] = TRUE
      BY <3>1, <3>2
    <3>5. S[2][1]
      BY <3>1, <3>3, ConditionIs
    <3> QED
      BY <2>1, <3>4, <3>5
  <2>3. {k \in DOMAIN S : ~S[k][1]} = {}
    BY <2>2
  <2> QED
    BY <2>1, <2>3 DEF UnsignedStructure, Verdict
<1>4. EnvelopeDigest(signer, u) = "ok"
  <2>1. PICK S : S = << <<u.version = PROTOCOL_VERSION, "UnsupportedVersion">>, <<u.v4, "MessageId">>,
                        Sub(UnsignedStructure(u)), <<u.sender = signer, "SenderMismatch">> >>
    OBVIOUS
  <2>2. S[1][1] /\ S[2][1] /\ S[3][1] /\ S[4][1] /\ DOMAIN S = 1..4
    <3>1. u.version = PROTOCOL_VERSION /\ u.v4 = TRUE /\ u.sender = signer
      BY <1>1
    <3>2. /\ S[1] = <<u.version = PROTOCOL_VERSION, "UnsupportedVersion">> /\ S[2] = <<u.v4, "MessageId">>
          /\ S[3] = <<UnsignedStructure(u) = "ok", UnsignedStructure(u)>>
          /\ S[4] = <<u.sender = signer, "SenderMismatch">>
      BY <2>1 DEF Sub
    <3>3. S[1][1] /\ S[2][1]
      <4>1. S[2][1] = TRUE
        BY <3>1, <3>2
      <4>2. S[1][1]
        BY <3>1, <3>2, ConditionIs
      <4> QED
        BY <4>1, <4>2
    <3>4. S[3][1] /\ S[4][1]
      BY <1>3, <3>1, <3>2, ConditionIs
    <3> QED
      BY <2>1, <3>3, <3>4
  <2>3. {k \in DOMAIN S : ~S[k][1]} = {}
    BY <2>2
  <2> QED
    BY <2>1, <2>3 DEF EnvelopeDigest, Verdict
<1>5. PICK sig : e = [u EXCEPT !.signature = sig]
  BY <1>2, <1>4 DEF SignedEnvelope
<1>6. e = [version |-> PROTOCOL_VERSION, message_type |-> type, v4 |-> TRUE, timestamp |-> now,
           sender |-> signer, payload |-> payload, payload_object |-> TRUE, well_typed |-> TRUE,
           members |-> ENVELOPE_MEMBERS \ {"extensions"}, signature |-> sig]
  BY <1>1, <1>5
<1> QED
  BY <1>6

\* The payload of a token that says what it should, of the right type, passes
\* the first look.
LEMMA PeekPasses ==
  ASSUME NEW t, NEW typ, t.typ = typ, t.flaw = "none"
  PROVE  AllHold(PeekChecks(t, typ))
<1>1. PICK S : S = PeekChecks(t, typ)
  OBVIOUS
<1>2. /\ DOMAIN S = 1..4 /\ S[1] = <<t.typ = typ, "Crypto">>
      /\ S[2] = <<t.flaw # "duplicate", "ClaimsMalformed">>
      /\ S[3] = <<t.flaw # "member", "UnknownField">> /\ S[4] = <<t.flaw # "id", "JtiNotV4">>
  BY <1>1 DEF PeekChecks
<1>3. S[1][1] /\ S[2][1] /\ S[3][1] /\ S[4][1]
  BY <1>2, ConditionIs
<1>4. \A k \in DOMAIN S : k = 1 \/ k = 2 \/ k = 3 \/ k = 4
  BY <1>2
<1> QED
  BY <1>1, <1>3, <1>4 DEF AllHold

\* So does its signature, if its issuer made it.
LEMMA SignedPasses ==
  ASSUME NEW t, NEW issuer, t.signer = issuer, t.iss = issuer, t.flaw = "none"
  PROVE  AllHold(SignedChecks(t, issuer))
<1>1. PICK S : S = SignedChecks(t, issuer)
  OBVIOUS
<1>2. /\ DOMAIN S = 1..4 /\ S[1] = <<t.signer = issuer, "Crypto">>
      /\ S[2] = <<t.flaw # "type", "ClaimsMalformed">>
      /\ S[3] = <<t.flaw # "version", "VersionUnknown">> /\ S[4] = <<t.iss = issuer, "IssuerMismatch">>
  BY <1>1 DEF SignedChecks
<1>3. S[1][1] /\ S[2][1] /\ S[3][1] /\ S[4][1]
  BY <1>2, ConditionIs
<1>4. \A k \in DOMAIN S : k = 1 \/ k = 2 \/ k = 3 \/ k = 4
  BY <1>2
<1> QED
  BY <1>1, <1>3, <1>4 DEF AllHold

\* So do its claims, for its subject, if that is another agent.
LEMMA ClaimsPass ==
  ASSUME NEW t, NEW for, t.aud = for, t.aud = t.sub, t.iss # t.sub, ATTESTATION_GRANT \notin t.grants,
         t.grants # {}, t.jkt = t.sub
  PROVE  AllHold(ContextChecks(t, for)) /\ AllHold(LastChecks(t))
<1>1. PICK S, R : S = ContextChecks(t, for) /\ R = LastChecks(t)
  OBVIOUS
<1> DEFINE a == <<t.aud = for, "AudienceMismatch">>
           b == <<t.aud = t.sub, "AudienceMismatch">>
           c == <<t.iss # t.sub, "SelfIssued">>
           d == <<ATTESTATION_GRANT \notin t.grants, "AttestationMarker">>
<1>7. S = <<a, b, c, d>>
  BY <1>1 DEF ContextChecks
<1>8. a[1] /\ b[1] /\ c[1] /\ d[1]
  BY ConditionIs
<1> HIDE DEF a, b, c, d
<1>2. DOMAIN S = 1..4 /\ S[1] = a /\ S[2] = b /\ S[3] = c /\ S[4] = d
  BY <1>7
<1>3. DOMAIN R = 1..2 /\ R[1] = <<t.grants # {}, "EmptyGrants">> /\ R[2] = <<t.jkt = t.sub, "CnfMalformed">>
  BY <1>1 DEF LastChecks
<1>4. R[1][1] /\ R[2][1]
  BY <1>3, ConditionIs
<1>5. \A k \in DOMAIN S : k = 1 \/ k = 2 \/ k = 3 \/ k = 4
  BY <1>2
<1>6. \A k \in DOMAIN R : k = 1 \/ k = 2
  BY <1>3
<1> QED
  BY <1>1, <1>2, <1>4, <1>5, <1>6, <1>8 DEF AllHold

\* apply_revocation: no list is asked, or a list that is clear answers.
LEMMA FailOpenPasses ==
  ASSUME NEW grants
  PROVE  ApplyRevocation("fail_open", Answer("clear"), grants).verdict = "ok"
<1>1. PICK status : status = Answer("clear")
  OBVIOUS
<1>7. status.kind = "clear"
  BY <1>1 DEF Answer
<1> DEFINE a == <<"fail_open" # "self_attestation", "RevocationUnavailable">>
           b == <<"fail_open" = "fail_open" \/ status.kind # "unavailable", "RevocationUnavailable">>
           c == <<"fail_open" = "fail_open" \/ status.kind # "revoked", "Revoked">>
           d == <<grants # {} \/ status.kind # "soft", "SafeSubsetEmpty">>
<1>2. ApplyRevocation("fail_open", status, grants).verdict = Verdict(<<a, b, c, d>>)
  BY DEF ApplyRevocation
<1>3. a[1] /\ b[1] /\ c[1] /\ d[1]
  BY <1>7, ConditionIs
<1> HIDE DEF a, b, c, d
<1>4. PICK S : S = <<a, b, c, d>>
  OBVIOUS
<1>5. DOMAIN S = 1..4 /\ S[1] = a /\ S[2] = b /\ S[3] = c /\ S[4] = d
  BY <1>4
<1>6. {k \in DOMAIN S : ~S[k][1]} = {}
  BY <1>3, <1>5
<1> QED
  BY <1>1, <1>2, <1>4, <1>6 DEF Verdict

\* Whoever builds a manifest of this kind can show it until it ends: the
\* builder's draft passes the verifier, under the signer's own name.
PinnedDraft(c, signer) ==
  /\ c.hint.kind = "pinned_key" /\ c.hint.public_key = signer /\ c.hint.issuer = None /\ c.hint.subject # ""
  /\ c.handshake_endpoint = "https" /\ c.anchors = << >> /\ c.required = None
  /\ IsCapabilityList(c.offered) /\ AllUnique(c.identity_types)
\* A manifest verifies until then.
VerifiesUntil(m, end) == \A t \in Nat : t <= end => VerifyManifest(m, t, FALSE, None) = "ok"

\* The manifest of such a draft verifies for its whole life.
LEMMA BuiltVerifies ==
  ASSUME NEW c, NEW signer, signer # None, PinnedDraft(c, signer), NEW now \in Nat, NEW challenge,
         c.ttl \in Nat, now + c.ttl >= 1,
         NEW m, m = Built(c, signer, now, challenge, None)
  PROVE  m.expires_at = now + c.ttl /\ m.aid = signer /\ VerifiesUntil(m, now + c.ttl)
<1>1. PICK pop : pop = [challenge |-> challenge, by |-> signer, over |-> challenge]
  OBVIOUS
<1>2. PICK d : d =
        [version |-> PROTOCOL_VERSION, aid |-> signer, hint |-> c.hint,
         handshake_endpoint |-> c.handshake_endpoint, anchors |-> c.anchors,
         identity_types |-> c.identity_types, offered |-> c.offered, required |-> c.required,
         pop |-> pop, published_at |-> now, expires_at |-> now + c.ttl, signature |-> None]
  OBVIOUS
<1>3. PICK u : u = Unsigned(d)
  OBVIOUS
<1>4. PICK sig : sig = [by |-> signer, over |-> u]
  OBVIOUS
<1>5. m = [d EXCEPT !.signature = sig]
  <2>1. m = Signed(d, signer)
    BY <1>1, <1>2 DEF Built
  <2> QED
    BY <1>3, <1>4, <2>1 DEF Signed
<1>6. /\ DOMAIN m = DOMAIN d /\ m.signature = sig
      /\ \A x \in DOMAIN d \ {"signature"} : m[x] = d[x]
  BY <1>2, <1>5
<1>7. Unsigned(m) = u
  BY <1>3, <1>6 DEF Unsigned
<1>8. /\ m.version = PROTOCOL_VERSION /\ m.aid = signer /\ m.hint = c.hint
      /\ m.handshake_endpoint = c.handshake_endpoint /\ m.anchors = c.anchors
      /\ m.identity_types = c.identity_types /\ m.offered = c.offered /\ m.required = c.required
      /\ m.pop = pop /\ m.published_at = now /\ m.expires_at = now + c.ttl
  BY <1>2, <1>5
<1>10. CheckGrammar(m, FALSE, None) = "ok"
  <2> DEFINE p == IsHttpsUri(m.handshake_endpoint) \/ (FALSE /\ m.handshake_endpoint = "http-localhost")
             q == (\A k \in DOMAIN m.anchors : IsUri(m.anchors[k])) /\ AllUnique(m.anchors)
             r == IsCapabilityList(m.offered)
             s == m.required = None \/ IsCapabilityList(m.required)
             t == m.identity_types = None \/ AllUnique(m.identity_types)
             v == m.published_at >= 0 /\ m.expires_at >= 1
             w == m.hint.subject # "" /\ (m.hint.issuer = None \/ IsUri(m.hint.issuer))
             x == HintCheck(m.hint, None)
  <2>1. p
    BY <1>8 DEF IsHttpsUri, PinnedDraft
  <2>2. q
    <3>1. m.anchors = << >>
      BY <1>8 DEF PinnedDraft
    <3>2. DOMAIN m.anchors = {} /\ Len(m.anchors) = 0
      BY <3>1
    <3>3. {m.anchors[k] : k \in DOMAIN m.anchors} = {}
      BY <3>2
    <3>4. AllUnique(m.anchors)
      BY <3>2, <3>3, FS_EmptySet DEF AllUnique
    <3> QED
      BY <3>2, <3>4
  <2>3. r /\ s /\ t
    BY <1>8 DEF PinnedDraft
  <2>4. v
    BY <1>8
  <2>5. w
    BY <1>8 DEF PinnedDraft
  <2>6. x
    <3>1. PICK h : h = m.hint
      OBVIOUS
    <3>2. h.kind = "pinned_key" /\ h.public_key # None
      BY <1>8, <3>1 DEF PinnedDraft
    <3>3. HintCheck(h, None)
      BY <3>2 DEF HintCheck
    <3> QED
      BY <3>1, <3>3
  <2> DEFINE c1 == <<p, "Malformed">>
             c2 == <<q, "Malformed">>
             c3 == <<r, "Malformed">>
             c4 == <<s, "Malformed">>
             c5 == <<t, "Malformed">>
             c6 == <<v, "Malformed">>
             c7 == <<w, "Malformed">>
             c8 == <<x, "IdentityHintMalformed">>
  <2>10. CheckGrammar(m, FALSE, None) = Verdict(<<c1, c2, c3, c4, c5, c6, c7, c8>>)
    BY DEF CheckGrammar
  <2> HIDE DEF p, q, r, s, t, v, w, x
  <2>11. c1[1] /\ c2[1] /\ c3[1] /\ c4[1]
    BY <2>1, <2>2, <2>3, ConditionIs
  <2>12. c5[1] /\ c6[1] /\ c7[1] /\ c8[1]
    BY <2>3, <2>4, <2>5, <2>6, ConditionIs
  <2> HIDE DEF c1, c2, c3, c4, c5, c6, c7, c8
  <2> QED
    BY <2>10, <2>11, <2>12, EightOk
<1>11. ASSUME NEW t \in Nat, t <= now + c.ttl PROVE VerifyManifest(m, t, FALSE, None) = "ok"
  <2> DEFINE c1 == <<m.version = PROTOCOL_VERSION, "VersionUnknown">>
             c2 == Sub(CheckGrammar(m, FALSE, None))
             c3 == <<m.expires_at >= t, "Expired">>
             c4 == <<m.pop.by = m.aid /\ m.pop.over = m.pop.challenge, "PopFailed">>
             c5 == <<m.signature.by = m.aid /\ m.signature.over = Unsigned(m), "SignatureInvalid">>
  <2>1. VerifyManifest(m, t, FALSE, None) = Verdict(<<c1, c2, c3, c4, c5>>)
    BY DEF VerifyManifest
  <2>2. c1[1]
    BY <1>8, ConditionIs
  <2>3. c2[1]
    BY <1>10, ConditionIs DEF Sub
  <2>4. c3[1]
    <3>1. m.expires_at >= t
      BY <1>8, <1>11
    <3> QED
      BY <3>1, ConditionIs
  <2>5. c4[1]
    <3>1. m.pop.by = m.aid /\ m.pop.over = m.pop.challenge
      BY <1>1, <1>8
    <3> QED
      BY <3>1, ConditionIs
  <2>6. c5[1]
    <3>1. m.signature.by = m.aid /\ m.signature.over = Unsigned(m)
      BY <1>4, <1>6, <1>7, <1>8
    <3> QED
      BY <3>1, ConditionIs
  <2> HIDE DEF c1, c2, c3, c4, c5
  <2> QED
    BY <2>1, <2>2, <2>3, <2>4, <2>5, <2>6, FiveOk
<1> QED
  BY <1>8, <1>11 DEF VerifiesUntil

(***************************************************************************)
(* Lists of checks that say which condition failed with an error of its    *)
(* own: what their verdicts mean, both ways.                               *)
(***************************************************************************)

\* A check with an error: it is fine, and passes if its condition holds.
LEMMA CheckIs ==
  ASSUME NEW p, NEW e, e # "ok"
  PROVE  Fine(<<p, e>>) /\ ((<<p, e>>)[1] <=> p)
<1>1. Fine(<<p, e>>)
  BY DEF Fine
<1>2. (<<p, e>>)[1] => p
  BY ConditionOf
<1>3. p => (<<p, e>>)[1]
  BY ConditionIs
<1> QED
  BY <1>1, <1>2, <1>3

\* A list of checks each of which is fine.
FineList(S) == \E X : S \in Seq(X) /\ \A x \in X : Fine(x)

\* Such a list says "ok" only if all its conditions hold.
LEMMA FineVerdict ==
  ASSUME NEW S, FineList(S)
  PROVE  Verdict(S) = "ok" <=> AllHold(S)
<1>1. PICK X : S \in Seq(X) /\ \A x \in X : Fine(x)
  BY DEF FineList
<1>2. \A x \in X : x[2] # "ok" \/ x[1]
  BY <1>1 DEF Fine
<1> QED
  BY <1>1, <1>2, VerdictMeans

\* Two such lists make one.
LEMMA FineJoin ==
  ASSUME NEW A, NEW B, FineList(A), FineList(B)
  PROVE  FineList(A \o B) /\ (AllHold(A \o B) <=> AllHold(A) /\ AllHold(B))
<1>1. PICK X : A \in Seq(X) /\ \A x \in X : Fine(x)
  BY DEF FineList
<1>2. PICK Y : B \in Seq(Y) /\ \A x \in Y : Fine(x)
  BY DEF FineList
<1>3. PICK Z : Z = X \cup Y
  OBVIOUS
<1>4. A \in Seq(Z)
  BY <1>1, <1>3
<1>5. B \in Seq(Z)
  BY <1>2, <1>3
<1>6. \A x \in Z : Fine(x)
  BY <1>1, <1>2, <1>3
<1>7. A \o B \in Seq(Z) /\ (AllHold(A \o B) <=> AllHold(A) /\ AllHold(B))
  BY <1>4, <1>5, JoinHolds
<1> QED
  BY <1>6, <1>7 DEF FineList

\* One fine check is such a list, and so are two to seven of them.
LEMMA FineOne ==
  ASSUME NEW a, Fine(a)
  PROVE  FineList(<<a>>) /\ (AllHold(<<a>>) <=> a[1])
<1>1. PICK S : S = <<a>>
  OBVIOUS
<1>2. DOMAIN S = {1} /\ S[1] = a /\ S \in Seq({a})
  BY <1>1
<1>3. FineList(S)
  BY <1>2 DEF FineList
<1>4. AllHold(S) <=> a[1]
  BY <1>2 DEF AllHold
<1> QED
  BY <1>1, <1>3, <1>4

\* Likewise.
LEMMA FineTwo ==
  ASSUME NEW a, NEW b, Fine(a), Fine(b)
  PROVE  FineList(<<a, b>>) /\ (AllHold(<<a, b>>) <=> a[1] /\ b[1])
<1>1. PICK S, X : S = <<a, b>> /\ X = {a, b}
  OBVIOUS
<1>2. DOMAIN S = 1..2 /\ S[1] = a /\ S[2] = b
  BY <1>1
<1>3. a \in X /\ b \in X /\ \A x \in X : Fine(x)
  BY <1>1
<1>4. S \in Seq(X)
  BY <1>1, <1>3, TupleSeq
<1>5. FineList(S)
  BY <1>3, <1>4 DEF FineList
<1>6. \A k \in DOMAIN S : k = 1 \/ k = 2
  BY <1>2
<1>7. AllHold(S) <=> a[1] /\ b[1]
  BY <1>2, <1>6 DEF AllHold
<1> QED
  BY <1>1, <1>5, <1>7

\* Likewise.
LEMMA FineThree ==
  ASSUME NEW a, NEW b, NEW c, Fine(a), Fine(b), Fine(c)
  PROVE  FineList(<<a, b, c>>) /\ (AllHold(<<a, b, c>>) <=> a[1] /\ b[1] /\ c[1])
<1>1. PICK S, X : S = <<a, b, c>> /\ X = {a, b, c}
  OBVIOUS
<1>2. DOMAIN S = 1..3 /\ S[1] = a /\ S[2] = b /\ S[3] = c
  BY <1>1
<1>3. a \in X /\ b \in X /\ c \in X /\ \A x \in X : Fine(x)
  BY <1>1
<1>4. S \in Seq(X)
  BY <1>1, <1>3, TupleSeq
<1>5. FineList(S)
  BY <1>3, <1>4 DEF FineList
<1>6. \A k \in DOMAIN S : k = 1 \/ k = 2 \/ k = 3
  BY <1>2
<1>7. AllHold(S) <=> a[1] /\ b[1] /\ c[1]
  BY <1>2, <1>6 DEF AllHold
<1> QED
  BY <1>1, <1>5, <1>7

\* Likewise.
LEMMA FineFour ==
  ASSUME NEW a, NEW b, NEW c, NEW d, Fine(a), Fine(b), Fine(c), Fine(d)
  PROVE  FineList(<<a, b, c, d>>) /\ (AllHold(<<a, b, c, d>>) <=> a[1] /\ b[1] /\ c[1] /\ d[1])
<1>1. PICK S, X : S = <<a, b, c, d>> /\ X = {a, b, c, d}
  OBVIOUS
<1>2. DOMAIN S = 1..4 /\ S[1] = a /\ S[2] = b /\ S[3] = c /\ S[4] = d
  BY <1>1
<1>3. a \in X /\ b \in X /\ c \in X /\ d \in X /\ \A x \in X : Fine(x)
  BY <1>1
<1>4. S \in Seq(X)
  BY <1>1, <1>3, TupleSeq
<1>5. FineList(S)
  BY <1>3, <1>4 DEF FineList
<1>6. \A k \in DOMAIN S : k = 1 \/ k = 2 \/ k = 3 \/ k = 4
  BY <1>2
<1>7. AllHold(S) <=> a[1] /\ b[1] /\ c[1] /\ d[1]
  BY <1>2, <1>6 DEF AllHold
<1> QED
  BY <1>1, <1>5, <1>7

\* Likewise.
LEMMA FineFive ==
  ASSUME NEW a, NEW b, NEW c, NEW d, NEW e, Fine(a), Fine(b), Fine(c), Fine(d), Fine(e)
  PROVE  /\ FineList(<<a, b, c, d, e>>)
         /\ AllHold(<<a, b, c, d, e>>) <=> a[1] /\ b[1] /\ c[1] /\ d[1] /\ e[1]
<1>1. PICK S, X : S = <<a, b, c, d, e>> /\ X = {a, b, c, d, e}
  OBVIOUS
<1>2. DOMAIN S = 1..5 /\ S[1] = a /\ S[2] = b /\ S[3] = c /\ S[4] = d /\ S[5] = e
  BY <1>1
<1>3. a \in X /\ b \in X /\ c \in X /\ d \in X /\ e \in X
  BY <1>1
<1>4. \A x \in X : Fine(x)
  BY <1>1
<1>5. S \in Seq(X)
  BY <1>1, <1>3
<1>6. FineList(S)
  BY <1>4, <1>5 DEF FineList
<1>7. \A k \in DOMAIN S : k = 1 \/ k = 2 \/ k = 3 \/ k = 4 \/ k = 5
  BY <1>2
<1>8. AllHold(S) <=> a[1] /\ b[1] /\ c[1] /\ d[1] /\ e[1]
  BY <1>2, <1>7 DEF AllHold
<1> QED
  BY <1>1, <1>6, <1>8

\* Likewise.
LEMMA FineSix ==
  ASSUME NEW a, NEW b, NEW c, NEW d, NEW e, NEW f, Fine(a), Fine(b), Fine(c), Fine(d), Fine(e), Fine(f)
  PROVE  /\ FineList(<<a, b, c, d, e, f>>)
         /\ AllHold(<<a, b, c, d, e, f>>) <=> a[1] /\ b[1] /\ c[1] /\ d[1] /\ e[1] /\ f[1]
<1>1. PICK S, X : S = <<a, b, c, d, e, f>> /\ X = {a, b, c, d, e, f}
  OBVIOUS
<1>2. DOMAIN S = 1..6 /\ S[1] = a /\ S[2] = b /\ S[3] = c /\ S[4] = d /\ S[5] = e /\ S[6] = f
  BY <1>1
<1>3. a \in X /\ b \in X /\ c \in X /\ d \in X /\ e \in X /\ f \in X
  BY <1>1
<1>4. \A x \in X : Fine(x)
  BY <1>1
<1>5. S \in Seq(X)
  BY <1>1, <1>3
<1>6. FineList(S)
  BY <1>4, <1>5 DEF FineList
<1>7. \A k \in DOMAIN S : k = 1 \/ k = 2 \/ k = 3 \/ k = 4 \/ k = 5 \/ k = 6
  BY <1>2
<1>8. AllHold(S) <=> a[1] /\ b[1] /\ c[1] /\ d[1] /\ e[1] /\ f[1]
  BY <1>2, <1>7 DEF AllHold
<1> QED
  BY <1>1, <1>6, <1>8

\* Likewise.
LEMMA FineSeven ==
  ASSUME NEW a, NEW b, NEW c, NEW d, NEW e, NEW f, NEW g,
         Fine(a), Fine(b), Fine(c), Fine(d), Fine(e), Fine(f), Fine(g)
  PROVE  /\ FineList(<<a, b, c, d, e, f, g>>)
         /\ AllHold(<<a, b, c, d, e, f, g>>) <=> a[1] /\ b[1] /\ c[1] /\ d[1] /\ e[1] /\ f[1] /\ g[1]
<1>1. PICK S, X : S = <<a, b, c, d, e, f, g>> /\ X = {a, b, c, d, e, f, g}
  OBVIOUS
<1>2. /\ DOMAIN S = 1..7 /\ S[1] = a /\ S[2] = b /\ S[3] = c /\ S[4] = d /\ S[5] = e /\ S[6] = f
      /\ S[7] = g
  BY <1>1
<1>3. a \in X /\ b \in X /\ c \in X /\ d \in X /\ e \in X /\ f \in X /\ g \in X
  BY <1>1
<1>4. \A x \in X : Fine(x)
  BY <1>1
<1>5. S \in Seq(X)
  BY <1>1, <1>3
<1>6. FineList(S)
  BY <1>4, <1>5 DEF FineList
<1>7. \A k \in DOMAIN S : k = 1 \/ k = 2 \/ k = 3 \/ k = 4 \/ k = 5 \/ k = 6 \/ k = 7
  BY <1>2
<1>8. AllHold(S) <=> a[1] /\ b[1] /\ c[1] /\ d[1] /\ e[1] /\ f[1] /\ g[1]
  BY <1>2, <1>7 DEF AllHold
<1> QED
  BY <1>1, <1>6, <1>8

\* As the lemmas on shorter lists.
LEMMA FineEight ==
  ASSUME NEW a, NEW b, NEW c, NEW d, NEW e, NEW f, NEW g, NEW h,
         Fine(a), Fine(b), Fine(c), Fine(d), Fine(e), Fine(f), Fine(g), Fine(h)
  PROVE  /\ FineList(<<a, b, c, d, e, f, g, h>>)
         /\ AllHold(<<a, b, c, d, e, f, g, h>>) <=>
              a[1] /\ b[1] /\ c[1] /\ d[1] /\ e[1] /\ f[1] /\ g[1] /\ h[1]
<1>1. PICK S, X : S = <<a, b, c, d, e, f, g, h>> /\ X = {a, b, c, d, e, f, g, h}
  OBVIOUS
<1>2. /\ DOMAIN S = 1..8 /\ S[1] = a /\ S[2] = b /\ S[3] = c /\ S[4] = d /\ S[5] = e /\ S[6] = f
      /\ S[7] = g /\ S[8] = h
  BY <1>1
<1>3. a \in X /\ b \in X /\ c \in X /\ d \in X /\ e \in X /\ f \in X /\ g \in X /\ h \in X
  BY <1>1
<1>4. \A x \in X : Fine(x)
  BY <1>1
<1>5. S \in Seq(X)
  BY <1>1, <1>3
<1>6. FineList(S)
  BY <1>4, <1>5 DEF FineList
<1>7. \A k \in DOMAIN S : k = 1 \/ k = 2 \/ k = 3 \/ k = 4 \/ k = 5 \/ k = 6 \/ k = 7 \/ k = 8
  BY <1>2
<1>8. AllHold(S) <=> a[1] /\ b[1] /\ c[1] /\ d[1] /\ e[1] /\ f[1] /\ g[1] /\ h[1]
  BY <1>2, <1>7 DEF AllHold
<1> QED
  BY <1>1, <1>6, <1>8

(***************************************************************************)
(* Induction over the numbers up to n, of a set rather than a predicate.   *)
(***************************************************************************)

\* What holds of 0, and of the next number when it holds of one, holds of
\* every number up to n.
LEMMA UpTo ==
  ASSUME NEW n \in Nat, NEW S, 0 \in S, \A k \in 0..n : k \in S /\ k < n => k + 1 \in S
  PROVE  \A k \in 0..n : k \in S
<1> DEFINE failed == {k \in 0..n : k \notin S}
<1>1. CASE failed = {}
  BY <1>1
<1>2. CASE failed # {}
  <2>1. failed \in SUBSET Nat
    OBVIOUS
  <2> HIDE DEF failed
  <2>2. PICK k \in failed : \A l \in failed : <<l, k>> \notin OpToRel(<, Nat)
    BY <1>2, <2>1, NatLessThanWellFounded, WFMin
  <2>3. \A l \in failed : ~(l < k)
    BY <2>1, <2>2 DEF OpToRel
  <2>4. k \in 0..n /\ k \notin S /\ k # 0
    BY DEF failed
  <2>5. k - 1 \in 0..n /\ k - 1 < k /\ k - 1 < n /\ (k - 1) + 1 = k
    BY <2>4
  <2>6. k - 1 \in S
    BY <2>3, <2>5 DEF failed
  <2> QED
    BY <2>4, <2>5, <2>6
<1> QED
  BY <1>1, <1>2
=============================================================================
