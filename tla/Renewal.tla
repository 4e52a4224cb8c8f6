------------------------------ MODULE Renewal -------------------------------
(***************************************************************************)
(* TCT renewal (crates/aitp-experimental/src/renewal) between one issuer   *)
(* and one holder that keeps its tokens in a TctStore                      *)
(* (crates/aitp/src/facade.rs). A handler of the issuer reads its          *)
(* revocation list and its clock, and then waits for the nonce store:      *)
(* between these steps other handlers run, time passes and tokens are      *)
(* revoked. The network may repeat, alter, delay and mix up requests and   *)
(* replies. What is refused before a request is parsed (rate limit,        *)
(* content type, body size and read timeout) changes nothing and is the    *)
(* request that never arrives.                                             *)
(***************************************************************************)
EXTENDS Manifests, Tokens

CONSTANTS
  Issuer, Holder,
  FirstGrants,         \* of the token the holder starts with
  OFFERED,             \* offered_capabilities of the issuer's manifest
  RenewalPolicies,     \* what the grant policy may leave
  RENEWAL_TTL,
  MANIFEST_EXPIRES_AT,
  REFRESH_PERCENT,     \* refresh_threshold of the TctStore
  TOLERANCE,           \* of is_fresh
  RenewalNonces,       \* one for each renewal the holder starts
  RenewHandlers,       \* concurrent requests at the issuer
  MaxRevoked,          \* bounds of the model: revocations, and
  MaxRenewalTime       \* the last second of the clock

ASSUME RenewalAssumption ==
  /\ {Issuer, Holder} \subseteq Agents /\ Issuer # Holder
  /\ FirstGrants \subseteq Grants /\ OFFERED \subseteq Grants
  /\ {RENEWAL_TTL, MANIFEST_EXPIRES_AT, TOLERANCE, MaxRevoked, MaxRenewalTime} \subseteq Nat
  /\ REFRESH_PERCENT \in Nat

VARIABLES
  rtime,     \* the clock, of both
  list,      \* the jtis on the issuer's revocation list
  seen,      \* the issuer's nonce store: nonce -> expires_at, or None
  handler,   \* the issuer's handlers
  held,      \* the holder's TctStore, for this issuer: [tct, ttl] or None
  renewing,      \* the holder's renewals
  renewals   \* history: [nonce, src, tct, at, listed]

rnVars == <<rtime, list, seen, handler, held, renewing, renewals>>

(***************************************************************************)
(* TctStore.                                                               *)
(***************************************************************************)
Insert(t) == held' = [tct |-> t, original_ttl |-> t.exp - t.iat]
NeedsRefresh ==
  /\ held # None
  /\ \/ held.original_ttl <= 0
     \/ held.tct.exp - rtime <= 0
     \/ 100 * (held.tct.exp - rtime) < REFRESH_PERCENT * held.original_ttl
Remove ==
  /\ held # None
  /\ held' = None
  /\ UNCHANGED <<rtime, list, seen, handler, renewing, renewals>>

(***************************************************************************)
(* Messages.                                                               *)
(***************************************************************************)
RenewalPopInput(t, nonce) == <<"aitp-renewal-pop-v1", t.iss, t.jti, nonce>>

\* build_renewal_request.
Request(t, nonce, signer) ==
  [current_tct |-> t, pop_nonce |-> nonce, pop |-> [by |-> signer, over |-> RenewalPopInput(t, nonce)]]

\* renewal_response_envelope and renewal_error_envelope; which error it is
\* makes no difference to the holder.
RENEWAL_RESPONSE_PAYLOAD_MEMBERS == {"tct", "grant_voucher", "pop_nonce_echo"}
ResponseEnvelope(t, nonce, now) ==
  SignedEnvelope(Issuer, UnsignedEnvelope(Issuer, "tct",
    [tct |-> t, pop_nonce_echo |-> nonce, members |-> RENEWAL_RESPONSE_PAYLOAD_MEMBERS], now, None), None)
ErrorEnvelope(now) ==
  SignedEnvelope(Issuer, UnsignedEnvelope(Issuer, "error", [code |-> "any"], now, None), None)

FirstJti == CHOOSE x \in Jtis : TRUE
FirstTct ==
  BuiltTct(Issuer, [subject |-> Holder, audience |-> Holder, subject_pubkey |-> Holder,
                    grants |-> FirstGrants, ttl |-> RENEWAL_TTL, jti |-> FirstJti, ext |-> FALSE,
                    attestation |-> FALSE, mint_voucher |-> TRUE], 0)
UsedJtis == {FirstJti} \cup {r.tct.jti : r \in renewals}
FreshJti == CHOOSE x \in Jtis : x \notin UsedJtis

Waiting == [pc |-> "idle", req |-> None, listed |-> FALSE, now |-> 0]
RnInit ==
  /\ rtime = 0
  /\ list = {}
  /\ seen = [n \in RenewalNonces |-> None]
  /\ handler = [h \in RenewHandlers |-> Waiting]
  /\ renewals = {}
  /\ held = [tct |-> FirstTct, original_ttl |-> RENEWAL_TTL]
  /\ renewing = [n \in RenewalNonces |-> [pc |-> "idle", current |-> None, got |-> None]]

(***************************************************************************)
(* The issuer: handle_renew and process_renewal_request.                   *)
(***************************************************************************)
Handler(h, r) == handler' = [handler EXCEPT ![h] = r]

\* A request as the holder signed it, at any time since, or with the nonce of
\* another one.
Arriving ==
  LET requests == {Request(renewing[n].current, n, Holder) :
                     n \in {k \in RenewalNonces : renewing[k].pc # "idle"}}
  IN  requests \cup {[r EXCEPT !.pop_nonce = n] : r \in requests, n \in RenewalNonces}
Arrive(h, r) ==
  /\ handler[h].pc = "idle"
  /\ Handler(h, [Waiting EXCEPT !.pc = "verify", !.req = r, !.listed = r.current_tct.jti \in list])
  /\ UNCHANGED <<rtime, list, seen, held, renewing, renewals>>

\* What the list says of a jti, read afresh for each request.
ListAnswer(jti, readable) ==
  Answer(IF ~readable THEN "unavailable" ELSE IF jti \in list THEN "revoked" ELSE "clear")

\* Steps 1 to 4: everything up to the nonce store.
RequestVerdict(r, now, readable) ==
  LET t == r.current_tct
      ctx == [issuer |-> Issuer, for |-> t.aud, now |-> now, clock_skew |-> 0,
              cap |-> MANIFEST_EXPIRES_AT, revocation |-> "fail_open"]
  IN  Verdict(<<
        Sub(VerifyTct(t, ctx, Answer("clear")).verdict),
        <<t.aud = t.sub, "AudienceMismatch">>,
        <<r.pop.by = t.sub /\ r.pop.over = RenewalPopInput(t, r.pop_nonce), "PopFailed">>,
        Sub(ApplyRevocation("check", ListAnswer(t.jti, readable), t.grants).verdict) >>)

\* failure and refusal answer in an envelope that the issuer signs; the
\* issuer refuses other agents too, so one may be under way at any time.
Refuse(h) == Handler(h, Waiting)

VerifyRequest(h, readable) ==
  /\ handler[h].pc = "verify"
  /\ IF RequestVerdict(handler[h].req, rtime, readable) = "ok"
     THEN Handler(h, [handler[h] EXCEPT !.pc = "record", !.now = rtime])
     ELSE Refuse(h)
  /\ UNCHANGED <<rtime, list, seen, held, renewing, renewals>>

\* Mutant of RecordExpiry: the nonce is remembered for this second only.
RecordExpiryShort(t, now) == now

\* The nonce is remembered as long as the token presented.
RecordExpiry(t, now) == t.exp

\* NonceStore::issue drops the record of this nonce if it has expired by the
\* time the request was verified, and others that have, or not.
Purges(n, now) ==
  LET expired == {m \in RenewalNonces : seen[m] # None /\ seen[m] < now}
  IN  {P \in SUBSET expired : n \in expired => n \in P}
Purged(P) == [m \in RenewalNonces |-> IF m \in P THEN None ELSE seen[m]]

RenewedGrants(grants, policy) == grants \cap OFFERED \cap policy
RenewedTtl(now) ==
  Least(RENEWAL_TTL, IF MANIFEST_EXPIRES_AT > now THEN MANIFEST_EXPIRES_AT - now ELSE 0)

\* Steps 5 to 8, in which the nonce store is the last thing waited for.
RecordAndIssue(h, P, policy) ==
  LET r == handler[h].req
      t == r.current_tct
      n == r.pop_nonce
      now == handler[h].now
      grants == RenewedGrants(t.grants, policy)
      new == BuiltTct(Issuer, [subject |-> t.sub, audience |-> t.aud, subject_pubkey |-> t.sub,
                               grants |-> grants, ttl |-> RenewedTtl(now), jti |-> FreshJti,
                               ext |-> FALSE, attestation |-> FALSE, mint_voucher |-> TRUE], now)
  IN  /\ handler[h].pc = "record" /\ UsedJtis # Jtis
      /\ P \in Purges(n, now)
      /\ IF Purged(P)[n] # None
         THEN seen' = Purged(P) /\ Refuse(h) /\ UNCHANGED renewals
         ELSE /\ seen' = [Purged(P) EXCEPT ![n] = RecordExpiry(t, now)]
              /\ IF grants = {}
                 THEN Refuse(h) /\ UNCHANGED renewals
                 ELSE /\ Handler(h, Waiting)
                      /\ renewals' = renewals \cup
                           {[nonce |-> n, src |-> t, tct |-> new, at |-> rtime,
                             listed |-> handler[h].listed]}
      /\ UNCHANGED <<rtime, list, held, renewing>>

\* A store that is full or fails refuses the request.
StoreFails(h) ==
  /\ handler[h].pc = "record"
  /\ Refuse(h)
  /\ UNCHANGED <<rtime, list, seen, held, renewing, renewals>>

Revoke(x) ==
  /\ x \in UsedJtis \ list /\ Cardinality(list) < MaxRevoked
  /\ list' = list \cup {x}
  /\ UNCHANGED <<rtime, seen, handler, held, renewing, renewals>>

(***************************************************************************)
(* The holder: renew_tct and verify_renewal_response.                      *)
(***************************************************************************)
Renew(n) ==
  /\ renewing[n].pc = "idle"
  /\ NeedsRefresh
  /\ renewing' = [renewing EXCEPT ![n] = [pc |-> "sent", current |-> held.tct, got |-> None]]
  /\ UNCHANGED <<rtime, list, seen, handler, held, renewals>>

\* Mutant of EchoesNonce: any reply of the issuer is taken for this one.
EchoesNonceAny(n, payload) == TRUE
EchoesNonce(n, payload) == payload.pop_nonce_echo = n

\* An error envelope names no nonce: any recent one of the issuer ends a call.
RenewalVerdict(n, env) ==
  LET current == renewing[n].current
      ctx == [issuer |-> current.iss, for |-> Holder, now |-> rtime, clock_skew |-> 0,
              cap |-> MANIFEST_EXPIRES_AT, revocation |-> "fail_open"]
      before == Verdict(<<
        <<rtime - TOLERANCE <= env.timestamp /\ env.timestamp <= rtime + TOLERANCE, "TimestampExpired">>,
        <<env.message_type \in {"tct", "error"}, "InvalidEnvelope">>,
        <<VerifyEnvelopeSignature(env, env.sender), "InvalidSignature">>,
        <<env.sender = current.iss, "PeerMismatch">>,
        <<env.message_type # "error", "Refused">> >>)
  IN  IF before # "ok" THEN before
      ELSE Verdict(<<
        <<CheckMembers(env.payload, RENEWAL_RESPONSE_PAYLOAD_MEMBERS), "UnknownField">>,
        <<EchoesNonce(n, env.payload), "NonceMismatch">>,
        Sub(VerifyTct(env.payload.tct, ctx, Answer("clear")).verdict),
        <<env.payload.tct.sub = Holder /\ env.payload.tct.jkt = current.jkt, "AudienceMismatch">>,
        <<env.payload.tct.grants \subseteq current.grants, "GrantOverflow">> >>)

\* What the issuer has sent so far, or the same under another name.
Answering ==
  LET replies == {ResponseEnvelope(r.tct, r.nonce, r.tct.iat) : r \in renewals}
  IN  {ErrorEnvelope(rtime)} \cup replies \cup {[e EXCEPT !.sender = Holder] : e \in replies}

\* renew_tct returns, and a caller that got a token stores it.
Receive(n, env) ==
  /\ renewing[n].pc = "sent"
  /\ IF RenewalVerdict(n, env) = "ok"
     THEN /\ renewing' = [renewing EXCEPT ![n].pc = "done", ![n].got = env.payload.tct]
          /\ Insert(env.payload.tct)
     ELSE renewing' = [renewing EXCEPT ![n].pc = "failed"] /\ UNCHANGED held
  /\ UNCHANGED <<rtime, list, seen, handler, renewals>>

RnTick ==
  /\ rtime < MaxRenewalTime
  /\ rtime' = rtime + 1
  /\ UNCHANGED <<list, seen, handler, held, renewing, renewals>>

RnNext ==
  \/ \E h \in RenewHandlers, r \in Arriving : Arrive(h, r)
  \/ \E h \in RenewHandlers, readable \in BOOLEAN : VerifyRequest(h, readable)
  \/ \E h \in RenewHandlers, P \in SUBSET RenewalNonces, policy \in RenewalPolicies :
        RecordAndIssue(h, P, policy)
  \/ \E h \in RenewHandlers : StoreFails(h)
  \/ \E x \in Jtis : Revoke(x)
  \/ \E n \in RenewalNonces : Renew(n)
  \/ \E n \in RenewalNonces, env \in Answering : Receive(n, env)
  \/ Remove
  \/ RnTick

RnSpec == RnInit /\ [][RnNext]_rnVars

(***************************************************************************)
(* Properties.                                                             *)
(***************************************************************************)

\* While the presented token lives, a nonce renews it at most once, however
\* often and however concurrently the request arrives. A second renewal takes
\* a handler that read its clock while the token was alive, and recorded the
\* nonce after the token, and with it the first record, had expired.
NonceRenewsOnce ==
  \A r, s \in renewals : r.nonce = s.nonce /\ r # s => r.at > r.src.exp \/ s.at > s.src.exp

\* A token whose jti was on the issuer's list when the request arrived is not
\* renewed, not even when the list cannot be read; and along a chain of
\* renewals nothing widens: every token the issuer signs is for the first
\* holder and its key, grants a part of what the token it renews grants and
\* so of the first one, and ends with the manifest at the latest. A renewal
\* that the holder completes is one of these, made for this very request,
\* although the reply of another one is as recent and as well signed.
RenewalsSound ==
  /\ \A r \in renewals :
       /\ ~r.listed
       /\ r.tct.sub = Holder /\ r.tct.jkt = Holder
       /\ r.tct.grants \subseteq r.src.grants /\ r.tct.grants \subseteq FirstGrants
       /\ r.tct.exp <= MANIFEST_EXPIRES_AT
  /\ \A n \in RenewalNonces : renewing[n].got # None =>
       \E r \in renewals : r.nonce = n /\ r.src = renewing[n].current /\ r.tct = renewing[n].got
=============================================================================
