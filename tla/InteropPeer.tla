---------------------------- MODULE InteropPeer -----------------------------
(***************************************************************************)
(* The public interop peer (crates/aitp-cli/src/serve.rs) and the commands *)
(* that talk to it (enrol.rs, echo.rs, net.rs): a holder proves its key on *)
(* a challenge and is enrolled for a while, handshakes while it is, and    *)
(* presents the token it got together with a proof of possession. The      *)
(* peer's requests run concurrently and read the clock before they take a  *)
(* lock; every re-signing of its manifest replaces the handshake routes,   *)
(* and a restart forgets everything but the signing key. A request that is *)
(* refused by a rate limit, by its size or because it does not parse       *)
(* changes nothing, and is one that never arrives. Only a COMMIT waits,    *)
(* for its sender's revocation list, and it does until the deadline of the *)
(* request at the latest, whose timer is taken to be punctual.             *)
(***************************************************************************)
EXTENDS Manifests, Tokens

CONSTANTS
  Peer,              \* the interop peer
  Elsewhere,         \* another one, at which holders enrol too
  Holders,
  Wild,              \* the ones that sign what they like with their own key
  ECHO_CAP,
  ENROL_CAP, ENROL_TTL,
  MAX_OUTSTANDING_CHALLENGES, CHALLENGE_TTL,
  SESSION_TTL, TCT_TTL, MANIFEST_TTL,
  REQUEST_TIMEOUT,   \* the deadline of a whole request
  Signings,          \* who signs an enrolment at which peer on which challenge
  OtherTokens,       \* tokens that are not from here, or grant something else
  Requests,          \* requests the peer works on at a time
  MaxEnrolments,     \* bounds of the model: enrolment challenges,
  MaxEchoes,         \* echo challenges,
  MaxSessions,       \* handshakes under way at a time,
  MaxRestarts,
  MaxSeconds         \* and the last second of the clock

ASSUME InteropAssumption ==
  /\ Holders \subseteq Agents /\ Wild \subseteq Holders
  /\ {Peer, Elsewhere} \subseteq Agents \ Holders /\ Peer # Elsewhere
  /\ {ENROL_CAP, ENROL_TTL, MAX_OUTSTANDING_CHALLENGES, CHALLENGE_TTL, SESSION_TTL, TCT_TTL,
      REQUEST_TIMEOUT, MaxEnrolments, MaxEchoes, MaxSessions, MaxRestarts, MaxSeconds} \subseteq Nat
  /\ MANIFEST_TTL \in Nat /\ MANIFEST_TTL >= 2
  /\ Signings \subseteq Holders \X {Peer, Elsewhere} \X Nat

ASSUME EchoAssumption ==
  /\ ECHO_CAP \in Grants \ (Spaced \cup {ATTESTATION_GRANT, ""})
  /\ \A t \in OtherTokens : t.signer # Peer \/ ECHO_CAP \notin t.grants

VARIABLES
  seconds,       \* the clock
  nonces,        \* enrolment challenges outstanding: the nonce's expiry, or None
  echo_nonces,   \* echo challenges: [jti, expires_at], or None
  keys, order,   \* EnrolledKeys: the expiry of each key or None, and the queue
  routes,        \* the manifest served and the sessions of its handshake server
  next_refresh,
  working,       \* the requests being worked on
  asked,         \* the enrolment challenges given out: the expiry of each
  challenged,    \* the jti each echo challenge was made for
  answers,       \* pop_response envelopes of the holders
  tcts,          \* the tokens the peer issued
  inserted,      \* history: the enrolments made, in order
  echoed,        \* history: the tokens echoed
  boot           \* history: how long asked and inserted were at the last start

store == <<keys, order>>
history == <<asked, challenged, answers, tcts, inserted, echoed, boot>>
ipVars == <<seconds, nonces, echo_nonces, store, routes, next_refresh, working, history>>

Idle == [pc |-> "idle", body |-> None, tct |-> None, now |-> 0]
Work(h, w) == working' = [working EXCEPT ![h] = w]

(***************************************************************************)
(* EnrolledKeys. The queue may hold entries that a later enrolment of the  *)
(* same key has superseded; an entry is current when its expiry is the one *)
(* the map has.                                                            *)
(***************************************************************************)
Cap == IF ENROL_CAP = 0 THEN 1 ELSE ENROL_CAP
Enrolled(ks) == {a \in Holders : ks[a] # None}
Current(ks, e) == ks[e.aid] = e.expires_at

\* Mutant of Evict: superseded entries are not skipped.
EvictSuperseded(ks, q) ==
  IF Cardinality(Enrolled(ks)) <= Cap THEN [keys |-> ks, order |-> q]
  ELSE [keys |-> [ks EXCEPT ![q[1].aid] = None], order |-> Tail(q)]

\* An insertion adds one key at most, so one eviction brings the map back to
\* the cap; with no current entry the queue runs empty.
Evict(ks, q) ==
  LET current == {k \in DOMAIN q : Current(ks, q[k])}
      oldest == CHOOSE k \in current : \A l \in current : k <= l
  IN  IF Cardinality(Enrolled(ks)) <= Cap THEN [keys |-> ks, order |-> q]
      ELSE IF current = {} THEN [keys |-> ks, order |-> << >>]
      ELSE [keys |-> [ks EXCEPT ![q[oldest].aid] = None],
            order |-> SubSeq(q, oldest + 1, Len(q))]

\* retain, once the queue is longer than twice the cap: the current entries
\* in their order.
Compact(ks, q) ==
  LET kept == {k \in DOMAIN q : Current(ks, q[k])}
      Place(k) == Cardinality({l \in kept : l <= k})
  IN  IF Len(q) > 2 * Cap
      THEN [n \in 1..Cardinality(kept) |-> q[CHOOSE k \in kept : Place(k) = n]]
      ELSE q

Insert(aid, expires_at) ==
  LET e == Evict([keys EXCEPT ![aid] = expires_at],
                 Append(order, [aid |-> aid, expires_at |-> expires_at]))
  IN  keys' = e.keys /\ order' = Compact(e.keys, e.order)

IsTrusted(aid) == keys[aid] # None /\ keys[aid] >= seconds

(***************************************************************************)
(* What the peer and the holders sign.                                     *)
(***************************************************************************)
SigningDigest(aid, peer, nonce) == <<"aitp-interop-enrol-v1", aid, peer, nonce>>
SignEnroll(aid, peer, nonce) ==
  [aid |-> aid, nonce |-> nonce,
   signature |-> [by |-> aid, over |-> SigningDigest(aid, peer, nonce)]]

InteropManifest(now) ==
  Built([hint |-> [kind |-> "pinned_key", subject |-> "interop", issuer |-> None, public_key |-> Peer],
         handshake_endpoint |-> "https", anchors |-> << >>, identity_types |-> <<"pinned_key">>,
         offered |-> <<ECHO_CAP>>, required |-> None, ttl |-> MANIFEST_TTL],
        Peer, now, now, None)

\* Nobody looks at the time of these two envelopes.
ChallengeEnvelope(sender, jti, nonce) ==
  SignedEnvelope(sender,
    UnsignedEnvelope(sender, "pop_challenge", [tct_jti |-> jti, nonce |-> nonce], 0, None), None)
ResponseEnvelope(sender, response) ==
  SignedEnvelope(sender, UnsignedEnvelope(sender, "pop_response", response, 0, None), None)

(***************************************************************************)
(* Start: everything is in memory but the key.                             *)
(***************************************************************************)
Routes(now) == [manifest |-> InteropManifest(now), sessions |-> {}]
Started(now) ==
  /\ nonces' = [k \in 1..MaxEnrolments |-> None]
  /\ echo_nonces' = [k \in 1..MaxEchoes |-> None]
  /\ keys' = [a \in Holders |-> None] /\ order' = << >>
  /\ routes' = Routes(now) /\ next_refresh' = now + MANIFEST_TTL \div 2
  /\ working' = [h \in Requests |-> Idle]

IpInit ==
  /\ seconds = 0
  /\ nonces = [k \in 1..MaxEnrolments |-> None]
  /\ echo_nonces = [k \in 1..MaxEchoes |-> None]
  /\ keys = [a \in Holders |-> None] /\ order = << >>
  /\ routes = Routes(0) /\ next_refresh = MANIFEST_TTL \div 2
  /\ working = [h \in Requests |-> Idle]
  /\ asked = << >> /\ challenged = << >> /\ answers = {} /\ tcts = {}
  /\ inserted = << >> /\ echoed = {}
  /\ boot = [asked |-> 0, inserted |-> 0, restarts |-> 0]

Restart ==
  /\ boot.restarts < MaxRestarts
  /\ Started(seconds)
  /\ boot' = [asked |-> Len(asked), inserted |-> Len(inserted), restarts |-> boot.restarts + 1]
  /\ UNCHANGED <<seconds, asked, challenged, answers, tcts, inserted, echoed>>

(***************************************************************************)
(* The two nonce stores. A store drops some of the records that have       *)
(* expired when it is asked to issue, or for a nonce it does not have.     *)
(***************************************************************************)
Outstanding(s) == {k \in DOMAIN s : s[k] # None}
Dropping(s, dropped) == [k \in DOMAIN s |-> IF k \in dropped THEN None ELSE s[k]]
ExpiredNonces(now) == {k \in Outstanding(nonces) : nonces[k] < now}
ExpiredEchoes(now) == {k \in Outstanding(echo_nonces) : echo_nonces[k].expires_at < now}

(***************************************************************************)
(* Enrolment.                                                              *)
(***************************************************************************)

\* enroll_challenge: whoever asks, the challenge names the peer and nobody else.
EnrollChallenge(dropped) ==
  LET nonce == Len(asked) + 1
      left == Dropping(nonces, dropped)
  IN  /\ nonce <= MaxEnrolments
      /\ dropped \subseteq ExpiredNonces(seconds)
      /\ Cardinality(Outstanding(left)) < MAX_OUTSTANDING_CHALLENGES
      /\ nonces' = [left EXCEPT ![nonce] = seconds + CHALLENGE_TTL]
      /\ asked' = Append(asked, seconds + CHALLENGE_TTL)
      /\ UNCHANGED <<seconds, echo_nonces, store, routes, next_refresh, working,
                     challenged, answers, tcts, inserted, echoed, boot>>

\* Requests as signed, on any challenge that was given out, by any holder for
\* this peer or for the other, and as mixed up on the way.
EnrollRequests ==
  LET signed == {SignEnroll(s[1], s[2], s[3]) : s \in {x \in Signings : x[3] \in DOMAIN asked}}
  IN  signed \cup {[r EXCEPT !.aid = a] : r \in signed, a \in Holders}
             \cup {[r EXCEPT !.nonce = k] : r \in signed, k \in DOMAIN asked}

SignatureHolds(r) ==
  r.signature.by = r.aid /\ r.signature.over = SigningDigest(r.aid, Peer, r.nonce)

\* The signature is looked at before the nonce.
Enroll(h) ==
  /\ working[h].pc = "idle"
  /\ \E r \in EnrollRequests :
       /\ SignatureHolds(r)
       /\ Work(h, [Idle EXCEPT !.pc = "consume", !.body = r, !.now = seconds])
  /\ UNCHANGED <<seconds, nonces, echo_nonces, store, routes, next_refresh, history>>

ConsumeEnrolment(h, dropped) ==
  LET n == working[h].body.nonce
  IN  /\ working[h].pc = "consume"
      /\ IF nonces[n] = None
         THEN /\ dropped \subseteq ExpiredNonces(working[h].now)
              /\ nonces' = Dropping(nonces, dropped)
              /\ Work(h, Idle)
         ELSE /\ dropped = {}
              /\ nonces' = [nonces EXCEPT ![n] = None]
              /\ IF nonces[n] < working[h].now THEN Work(h, Idle)
                 ELSE Work(h, [working[h] EXCEPT !.pc = "insert"])
      /\ UNCHANGED <<seconds, echo_nonces, store, routes, next_refresh, history>>

InsertEnrolment(h) ==
  LET r == working[h].body
      expires_at == working[h].now + ENROL_TTL
  IN  /\ working[h].pc = "insert"
      /\ Insert(r.aid, expires_at)
      /\ inserted' = Append(inserted, [aid |-> r.aid, nonce |-> r.nonce, expires_at |-> expires_at])
      /\ Work(h, Idle)
      /\ UNCHANGED <<seconds, nonces, echo_nonces, routes, next_refresh,
                     asked, challenged, answers, tcts, echoed, boot>>

\* status counts the keys, and drops those that have lapsed.
Status ==
  /\ keys' = [a \in Holders |-> IF IsTrusted(a) THEN keys[a] ELSE None]
  /\ UNCHANGED <<seconds, nonces, echo_nonces, order, routes, next_refresh, working, history>>

(***************************************************************************)
(* Handshake, whose messages the modules Handshake and HandshakeServer     *)
(* have in full: the key is looked up at the HELLO, a COMMIT takes the     *)
(* session that the HELLO left with the routes, waits for the revocation   *)
(* list of its holder and then issues the token. A HELLO that is under way *)
(* when the routes are replaced leaves its session where no COMMIT looks.  *)
(***************************************************************************)
Hello(a) ==
  LET m == routes.manifest
  IN  /\ IsTrusted(a) /\ Cardinality(routes.sessions) < MaxSessions
      /\ VerifyManifest(m, seconds, FALSE, None) = "ok" /\ AcceptsIdentityType(m, "pinned_key", None)
      /\ routes' = [routes EXCEPT !.sessions = @ \cup {[aid |-> a, created |-> seconds]}]
      /\ UNCHANGED <<seconds, nonces, echo_nonces, store, next_refresh, working, history>>

\* Nothing is awaited between the clone of the routes and this: the request
\* keeps the manifest of the routes it came in by.
CommitTake(h, s) ==
  /\ working[h].pc = "idle"
  /\ seconds - s.created <= SESSION_TTL
  /\ routes' = [routes EXCEPT !.sessions = @ \ {s}]
  /\ Work(h, [Idle EXCEPT !.pc = "commit", !.now = seconds,
                          !.body = [session |-> s, manifest |-> routes.manifest]])
  /\ UNCHANGED <<seconds, nonces, echo_nonces, store, next_refresh, history>>

\* After the fetch, by the clock as it is now; a manifest that has run out
\* issues nothing.
FreshJti == CHOOSE x \in Jtis : \A t \in tcts : t.jti # x
CommitIssue(h) ==
  LET aid == working[h].body.session.aid
      ttl == Least(TCT_TTL, working[h].body.manifest.expires_at - seconds)
      b == [subject |-> aid, audience |-> aid, subject_pubkey |-> aid, grants |-> {ECHO_CAP},
            ttl |-> ttl, jti |-> FreshJti, ext |-> FALSE, attestation |-> FALSE, mint_voucher |-> TRUE]
  IN  /\ working[h].pc = "commit"
      /\ seconds <= working[h].now + REQUEST_TIMEOUT /\ ttl >= 1
      /\ Cardinality(tcts) < Cardinality(Jtis)
      /\ tcts' = tcts \cup {BuiltTct(Peer, b, seconds)}
      /\ Work(h, Idle)
      /\ UNCHANGED <<seconds, nonces, echo_nonces, store, routes, next_refresh,
                     asked, challenged, answers, inserted, echoed, boot>>

\* The deadline, a client that is gone, or a check that fails: the holder's
\* list, its COMMIT, the manifest. The session is spent all the same.
CommitDropped(h) ==
  /\ working[h].pc = "commit"
  /\ Work(h, Idle)
  /\ UNCHANGED <<seconds, nonces, echo_nonces, store, routes, next_refresh, history>>

\* rebuild, every half lifetime of the manifest: the sessions are gone, but
\* for one that a COMMIT has taken.
Rebuild ==
  /\ seconds >= next_refresh
  /\ routes' = Routes(seconds)
  /\ next_refresh' = next_refresh + MANIFEST_TTL \div 2
  /\ UNCHANGED <<seconds, nonces, echo_nonces, store, working, history>>

(***************************************************************************)
(* Echo. Tokens and envelopes are no secret: anybody may present them.     *)
(***************************************************************************)
VerifyOwnTct(t, now) ==
  LET ctx == [issuer |-> Peer, for |-> t.sub, now |-> now, clock_skew |-> 0,
              cap |-> None, revocation |-> "fail_open"]
  IN  Verdict(<<Sub(VerifyTct(t, ctx, Answer("clear")).verdict),
                <<ECHO_CAP \in t.grants, "POLICY_VIOLATION">>>>)

EchoChallenge(t, dropped) ==
  LET nonce == Len(challenged) + 1
      left == Dropping(echo_nonces, dropped)
  IN  /\ nonce <= MaxEchoes
      /\ VerifyOwnTct(t, seconds) = "ok"
      /\ dropped \subseteq ExpiredEchoes(seconds)
      /\ Cardinality(Outstanding(left)) < MAX_OUTSTANDING_CHALLENGES
      /\ echo_nonces' = [left EXCEPT ![nonce] = [jti |-> t.jti, expires_at |-> seconds + CHALLENGE_TTL]]
      /\ challenged' = Append(challenged, t.jti)
      /\ UNCHANGED <<seconds, nonces, store, routes, next_refresh, working,
                     asked, answers, tcts, inserted, echoed, boot>>

\* What reaches a holder as the peer's challenge: one of them, or another's.
Challenges ==
  {ChallengeEnvelope(Peer, challenged[k], k) : k \in DOMAIN challenged} \cup
  {ChallengeEnvelope(w, t.jti, k) : w \in Wild, t \in tcts, k \in DOMAIN challenged}

\* echo::respond, of a holder with the token t.
RespondVerdict(t, env) ==
  Verdict(<<
    <<env.message_type = "pop_challenge", "Type">>,
    <<env.sender = Peer, "Sender">>,
    <<VerifyEnvelopeSignature(env, Peer), "Signature">>,
    <<env.payload.tct_jti = t.jti, "OtherToken">> >>)
Respond(t, env) ==
  /\ t.sub \notin Wild
  /\ RespondVerdict(t, env) = "ok"
  /\ answers' = answers \cup {ResponseEnvelope(t.sub, SignPopResponse(env.payload, t.sub))}
  /\ UNCHANGED <<seconds, nonces, echo_nonces, store, routes, next_refresh, working,
                 asked, challenged, tcts, inserted, echoed, boot>>

\* The answers, and what others sign over, or put into an envelope of theirs.
Responses ==
  LET own == {SignPopResponse([tct_jti |-> t.jti, nonce |-> k], w) :
                w \in Wild, t \in tcts, k \in DOMAIN challenged}
  IN  answers \cup {ResponseEnvelope(w, p) : w \in Wild, p \in own \cup {e.payload : e \in answers}}

Echo(h) ==
  /\ working[h].pc = "idle"
  /\ \E t \in tcts \cup OtherTokens :
       /\ VerifyOwnTct(t, seconds) = "ok"
       /\ \E env \in Responses :
            /\ ParseEnvelopeWire(env) = "ok"
            /\ Work(h, [pc |-> "answer", body |-> env, tct |-> t, now |-> seconds])
  /\ UNCHANGED <<seconds, nonces, echo_nonces, store, routes, next_refresh, history>>

\* After the challenge has been consumed; the peer's own list is empty.
EchoVerdict(t, env, now) ==
  LET challenge == [tct_jti |-> t.jti, nonce |-> env.payload.nonce_echo, expires_at |-> now]
  IN  Verdict(<<
        <<env.message_type = "pop_response", "POP_RESPONSE_INVALID">>,
        <<env.sender = t.sub, "POP_RESPONSE_INVALID">>,
        <<VerifyEnvelopeSignature(env, t.sub), "POP_RESPONSE_INVALID">>,
        Sub(VerifyPopResponse(challenge, env.payload, t, now)) >>)

\* Mutant of EchoSlot: the nonce alone names the challenge.
EchoSlotOfNonce(jti, nonce) == echo_nonces[nonce] # None

\* echo_slot hashes both, so a nonce is found for its own token only.
EchoSlot(jti, nonce) == echo_nonces[nonce] # None /\ echo_nonces[nonce].jti = jti

CheckEcho(h, dropped) ==
  LET t == working[h].tct
      env == working[h].body
      now == working[h].now
      n == env.payload.nonce_echo
  IN  /\ working[h].pc = "answer"
      /\ IF ~EchoSlot(t.jti, n)
         THEN /\ dropped \subseteq ExpiredEchoes(now)
              /\ echo_nonces' = Dropping(echo_nonces, dropped)
              /\ UNCHANGED echoed
         ELSE /\ dropped = {}
              /\ echo_nonces' = [echo_nonces EXCEPT ![n] = None]
              /\ echoed' = IF echo_nonces[n].expires_at >= now /\ EchoVerdict(t, env, now) = "ok"
                           THEN echoed \cup {[tct |-> t, nonce |-> n, now |-> now, nth |-> Cardinality(echoed)]}
                           ELSE echoed
      /\ Work(h, Idle)
      /\ UNCHANGED <<seconds, nonces, store, routes, next_refresh,
                     asked, challenged, answers, tcts, inserted, boot>>

\* The refresh timer is late by less than half the life of a manifest.
IpTick ==
  /\ seconds < MaxSeconds
  /\ seconds < next_refresh + MANIFEST_TTL \div 2
  /\ seconds' = seconds + 1
  /\ UNCHANGED <<nonces, echo_nonces, store, routes, next_refresh, working, history>>

IpNext ==
  \/ \E dropped \in SUBSET Outstanding(nonces) : EnrollChallenge(dropped)
  \/ \E h \in Requests : Enroll(h)
  \/ \E h \in Requests, dropped \in SUBSET Outstanding(nonces) : ConsumeEnrolment(h, dropped)
  \/ \E h \in Requests : InsertEnrolment(h)
  \/ Status
  \/ \E a \in Holders : Hello(a)
  \/ \E h \in Requests, s \in routes.sessions : CommitTake(h, s)
  \/ \E h \in Requests : CommitIssue(h)
  \/ \E h \in Requests : CommitDropped(h)
  \/ \E t \in tcts \cup OtherTokens, dropped \in SUBSET Outstanding(echo_nonces) : EchoChallenge(t, dropped)
  \/ \E t \in tcts, env \in Challenges : Respond(t, env)
  \/ \E h \in Requests : Echo(h)
  \/ \E h \in Requests, dropped \in SUBSET Outstanding(echo_nonces) : CheckEcho(h, dropped)
  \/ Rebuild
  \/ Restart
  \/ IpTick

IpSpec == IpInit /\ [][IpNext]_ipVars

(***************************************************************************)
(* Properties.                                                             *)
(***************************************************************************)

\* The enrolments since the start, and the last of a key among them (0: none).
Recent == {k \in DOMAIN inserted : k > boot.inserted}
Latest(a) ==
  LET mine == {k \in Recent : inserted[k].aid = a}
  IN  IF mine = {} THEN 0 ELSE CHOOSE k \in mine : \A l \in mine : l <= k

\* "at the cap the oldest enrolment goes first": who enrolled later than one
\* that is still held, and has not lapsed, is held.
OldestGoesFirst ==
  \A a, b \in Holders :
     keys[a] # None /\ Latest(b) > Latest(a) /\ inserted[Latest(b)].expires_at >= seconds
       => keys[b] # None

\* "Keep `order` from growing without bound under re-enrolment."
QueueBounded == Len(order) <= 2 * Cap

\* A key enrolled twice with the same expiry: within one second, or by a
\* request that read the clock before another and took the lock after it.
SameExpiryTwice ==
  \E k, l \in Recent : k < l /\ inserted[k].aid = inserted[l].aid
                             /\ inserted[k].expires_at = inserted[l].expires_at

\* A key is trusted only for ENROL_TTL from an enrolment that its own holder
\* signed for this peer on that very challenge, and a challenge enrols one
\* key once, whoever else signs it and however requests overtake each other
\* or are mixed up. A challenge in date is not lost to a request that does not
\* verify. The map keeps to its cap and every key of it can still be evicted,
\* though the map and the queue are pruned at different times; the oldest
\* enrolment is the one that goes and the queue is bounded, unless a key was
\* enrolled twice with one expiry.
EnrolmentSound ==
  /\ \A a \in Holders : IsTrusted(a) =>
        \E k \in Recent : inserted[k].aid = a /\ inserted[k].expires_at >= seconds
                          /\ inserted[k].expires_at <= seconds + ENROL_TTL
  /\ \A k \in DOMAIN inserted : <<inserted[k].aid, Peer, inserted[k].nonce>> \in Signings
  /\ \A k, l \in DOMAIN inserted : k # l => inserted[k].nonce # inserted[l].nonce
  /\ \A n \in boot.asked + 1 .. Len(asked) :
        \/ nonces[n] # None
        \/ \E k \in DOMAIN inserted : inserted[k].nonce = n
        \/ \E h \in Requests : working[h].pc = "insert" /\ working[h].body.nonce = n
        \/ asked[n] < seconds
  /\ Cardinality(Enrolled(keys)) <= Cap
  /\ \A a \in Enrolled(keys) : \E k \in DOMAIN order : order[k].aid = a /\ order[k].expires_at = keys[a]
  /\ SameExpiryTwice \/ (OldestGoesFirst /\ QueueBounded)

\* What /echo confirms, the peer itself has issued to a holder that was
\* enrolled, and the holder has answered a challenge for that very token, in
\* time, once: although tokens and answers are public, others answer too, and
\* the clock is read before the challenge is consumed. When an enrolment
\* ends, what was granted on its strength ends a session, a request and a
\* token later, across restarts and whatever happens to the routes while a
\* COMMIT waits; and the peer's manifest is always in date.
EchoEarned ==
  /\ \A e \in echoed :
       /\ e.tct \in tcts /\ e.now <= e.tct.exp
       /\ challenged[e.nonce] = e.tct.jti
       /\ e.tct.sub \in Wild \/
            \E env \in answers : env.sender = e.tct.sub /\ env.payload.nonce_echo = e.nonce
                                 /\ env.payload.tct_jti = e.tct.jti
       /\ \E k \in DOMAIN inserted :
            /\ inserted[k].aid = e.tct.sub
            /\ e.now <= inserted[k].expires_at + SESSION_TTL + REQUEST_TIMEOUT + TCT_TTL
  /\ \A e, f \in echoed : e.nonce = f.nonce => e = f
  /\ VerifyManifest(routes.manifest, seconds, FALSE, None) = "ok"
=============================================================================
