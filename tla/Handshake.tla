----------------------------- MODULE Handshake -----------------------------
(***************************************************************************)
(* The four-message mutual handshake (crates/aitp/src/handshake/           *)
(* state_machine.rs): Initiator and Responder objects of several agents,   *)
(* the TCTs they issue each other and the checks on what they receive.     *)
(* A message once sent may reach any object that takes its type, late,     *)
(* more than once or never. A signature is modelled by who made it and     *)
(* over what: a PoP by the nonce signed, an identity proof by its receiver.*)
(* The fresh nonce of an object is its own name.                           *)
(***************************************************************************)
EXTENDS Integers, FiniteSets

CONSTANTS
  Agents,        \* AIDs
  Initiators,    \* Initiator objects, and the nonces they draw
  Responders,    \* Responder objects, and the nonces they draw
  Grants,
  Offered,       \* manifest: offered_capabilities of each agent
  Required,      \* manifest: required_peer_capabilities
  Requested,     \* requested_grants an agent sends
  ManifestExp,   \* manifest: expires_at
  Trusts,        \* peers whose identity an agent verifies and accepts
  Policies,      \* answers a grant policy may give: the grants it permits
  SafeSubsets,   \* safe grants of a revocation source that fails soft
  Lax,           \* agents of another implementation, which issue any TCT
  Skew,          \* offset of each agent's clock
  TctTtl,        \* DEFAULT_TCT_TTL
  MaxTime,       \* bound of the model: last second of the clock
  None

ASSUME ConstantAssumption ==
  /\ Initiators \cap Responders = {}
  /\ Offered \in [Agents -> SUBSET Grants] /\ Required \in [Agents -> SUBSET Grants]
  /\ Requested \in [Agents -> SUBSET Grants]
  /\ ManifestExp \in [Agents -> Nat] /\ Skew \in [Agents -> Nat]
  /\ Trusts \in [Agents -> SUBSET Agents] /\ Lax \subseteq Agents
  /\ Policies \subseteq SUBSET Grants /\ SafeSubsets \subseteq SUBSET Grants
  /\ TctTtl \in Nat \ {0} /\ MaxTime \in Nat
  /\ None \notin Agents \cup Initiators \cup Responders

VARIABLES
  ini,     \* Initiator objects
  res,     \* Responder objects
  net,     \* every message sent so far
  clock    \* the time

vars == <<ini, res, net, clock>>

Now(a) == clock + Skew[a]
Earlier(s, t) == IF s < t THEN s ELSE t

(***************************************************************************)
(* TCTs.                                                                   *)
(***************************************************************************)
Tct == [iss : Agents, sub : Agents, grants : SUBSET Grants, iat : Nat, exp : Nat]

IssuedExp(me) == Earlier(Now(me) + TctTtl, ManifestExp[me])

\* requested, offered and permitted by the policy; none left is an error.
IssuedGrants(me, requested) == {requested \cap Offered[me] \cap P : P \in Policies} \ {{}}

\* TctBuilder::draft refuses a token for oneself; the rest is assembly.
Drafted(me, peer, grants, exp) ==
  {t \in [iss : {me}, sub : {peer}, grants : grants, iat : {Now(me)}, exp : {exp}] : me # peer}

\* The TCTs issue_tct_for_peer may return; none when it returns an error, a
\* Manifest of ours that expires now included.
IssuedTcts(me, peer, requested) ==
  IF me \in Lax
  THEN [iss : {me}, sub : {peer}, grants : SUBSET Grants \ {{}}, iat : {Now(me)},
        exp : Now(me)..(Now(me) + TctTtl)]
  ELSE {t \in Drafted(me, peer, IssuedGrants(me, requested), IssuedExp(me)) : t.exp > t.iat}

\* CoreChecks::verify: issuer, lifetime against our clock, the cap of the
\* issuer's Manifest, and grants at all.
CoreChecks(me, peer, t) ==
  /\ t.iss = peer
  /\ t.iat <= Now(me) /\ Now(me) <= t.exp
  /\ t.exp <= ManifestExp[peer]
  /\ t.grants # {}

\* verify_tct_before_revocation adds that the token is for us, from another.
BeforeRevocation(me, peer, t) == CoreChecks(me, peer, t) /\ t.sub = me /\ t.iss # t.sub

\* verify_received_tct before its revocation lookup: no grant overflow. The
\* companion voucher is optional and in no message here; the code refuses,
\* besides, a token whose voucher does not mirror it.
ReceivedTct(me, peer, t) == BeforeRevocation(me, peer, t) /\ t.grants \subseteq Offered[peer]

\* apply_revocation: the grants a lookup that does not refuse leaves, all of
\* them or the safe ones among them.
Honoured(t) == {t.grants} \cup ({t.grants \cap safe : safe \in SafeSubsets} \ {{}})

\* Mutant of Effective: required capabilities are looked for in the token.
EffectiveOfToken(me, t) == {e \in Honoured(t) : Required[me] \subseteq t.grants}

\* The effective grants, which must cover what our Manifest requires.
Effective(me, t) == {e \in Honoured(t) : Required[me] \subseteq e}

Held == [tct : Tct, effective : SUBSET Grants]

ASSUME NoneHeldAssumption == None \notin Held

(***************************************************************************)
(* The objects.                                                            *)
(***************************************************************************)
Idle == [state |-> "Idle", me |-> None, peer |-> None, nonce |-> None, held |-> None]

Init ==
  /\ ini = [i \in Initiators |-> Idle]
  /\ res = [r \in Responders |-> Idle]
  /\ net = {}
  /\ clock = 0

Hello(i, a, b) ==
  [type |-> "hello", from |-> a, to |-> b, nonce |-> i, requested |-> Requested[a]]
HelloAck(r, b, m) ==
  [type |-> "hello_ack", from |-> b, to |-> m.from, nonce |-> r, echo |-> m.nonce,
   requested |-> Requested[b]]
Commit(a, echo, t) ==
  [type |-> "commit", from |-> a, pop |-> echo, echo |-> echo, tct |-> t]
CommitAck(b, echo, t) ==
  [type |-> "commit_ack", from |-> b, pop |-> echo, echo |-> echo, tct |-> t]
Sent(type) == {m \in net : m.type = type}

\* verify_manifest: expires_at is inclusive; signatures are by construction.
ManifestVerified(me, a) == Now(me) <= ManifestExp[a]

\* bootstrap_verify_peer and apply_peer_policy: the sender's Manifest is in
\* date, and its identity proof is for us and of a kind we accept.
Bootstrapped(me, m) ==
  /\ ManifestVerified(me, m.from)
  /\ m.to = me
  /\ m.from \in Trusts[me]

Start(i, a, b) ==
  /\ ini[i] = Idle
  /\ ini' = [ini EXCEPT ![i] = [state |-> "AwaitingHelloAck", me |-> a, peer |-> b,
                                nonce |-> None, held |-> None]]
  /\ net' = net \cup {Hello(i, a, b)}
  /\ UNCHANGED <<res, clock>>

\* An error leaves no responder behind.
OnHello(r, b, m) ==
  /\ res[r] = Idle
  /\ Bootstrapped(b, m)
  /\ res' = [res EXCEPT ![r] = [state |-> "AwaitingCommit", me |-> b, peer |-> m.from,
                                nonce |-> m.nonce, held |-> None]]
  /\ net' = net \cup {HelloAck(r, b, m)}
  /\ UNCHANGED <<ini, clock>>

FailInitiator(i) ==
  /\ ini' = [ini EXCEPT ![i].state = "Failed"]
  /\ UNCHANGED <<res, net, clock>>

\* Mutant of AnswersMe: an ack for another attempt is taken.
AnswersMeAnyNonce(i, m) == m.from = ini[i].peer

AnswersMe(i, m) == m.from = ini[i].peer /\ m.echo = i

\* When issue_tct_for_peer fails the object stays as it is.
OnHelloAck(i, m) ==
  /\ ini[i].state = "AwaitingHelloAck"
  /\ IF AnswersMe(i, m) /\ Bootstrapped(ini[i].me, m)
     THEN \E t \in IssuedTcts(ini[i].me, m.from, m.requested) :
             /\ ini' = [ini EXCEPT ![i].state = "AwaitingCommitAck", ![i].nonce = m.nonce]
             /\ net' = net \cup {Commit(ini[i].me, m.nonce, t)}
             /\ UNCHANGED <<res, clock>>
     ELSE FailInitiator(i)

AnswersSession(r, m) == m.from = res[r].peer /\ m.echo = r

\* Mutant of OnCommit: our TCT goes out before the peer's is looked at.
OnCommitIssuesFirst(r, m) ==
  /\ res[r].state = "AwaitingCommit"
  /\ m.from = res[r].peer
  /\ \E t \in IssuedTcts(res[r].me, res[r].peer, Requested[res[r].peer]) :
        net' = net \cup {CommitAck(res[r].me, res[r].nonce, t)}
  /\ res' = [res EXCEPT ![r].state = "Failed"]
  /\ UNCHANGED <<ini, clock>>

\* A failing PoP, TCT or issuance leaves the object as it is.
OnCommit(r, m) ==
  LET b == res[r].me
      a == res[r].peer
  IN  /\ res[r].state = "AwaitingCommit"
      /\ IF AnswersSession(r, m)
         THEN /\ m.pop = r
              /\ ReceivedTct(b, a, m.tct)
              /\ \E e \in Effective(b, m.tct), t \in IssuedTcts(b, a, Requested[a]) :
                    /\ res' = [res EXCEPT ![r].state = "Done",
                                          ![r].held = [tct |-> m.tct, effective |-> e]]
                    /\ net' = net \cup {CommitAck(b, res[r].nonce, t)}
         ELSE res' = [res EXCEPT ![r].state = "Failed"] /\ UNCHANGED net
      /\ UNCHANGED <<ini, clock>>

\* Mutant of OnCommitAck: the ack of another attempt completes this one.
OnCommitAckAnyNonce(i, m) ==
  /\ ini[i].state = "AwaitingCommitAck"
  /\ m.from = ini[i].peer
  /\ ReceivedTct(ini[i].me, ini[i].peer, m.tct)
  /\ \E e \in Effective(ini[i].me, m.tct) :
        ini' = [ini EXCEPT ![i].state = "Done",
                           ![i].held = [tct |-> m.tct, effective |-> e]]
  /\ UNCHANGED <<res, net, clock>>

OnCommitAck(i, m) ==
  /\ ini[i].state = "AwaitingCommitAck"
  /\ IF AnswersMe(i, m)
     THEN /\ m.pop = i
          /\ ReceivedTct(ini[i].me, ini[i].peer, m.tct)
          /\ \E e \in Effective(ini[i].me, m.tct) :
                ini' = [ini EXCEPT ![i].state = "Done",
                                   ![i].held = [tct |-> m.tct, effective |-> e]]
          /\ UNCHANGED <<res, net, clock>>
     ELSE FailInitiator(i)

Tick ==
  /\ clock < MaxTime
  /\ clock' = clock + 1
  /\ UNCHANGED <<ini, res, net>>

Next ==
  \/ \E i \in Initiators, a \in Agents, b \in Agents : Start(i, a, b)
  \/ \E r \in Responders, b \in Agents, m \in Sent("hello") : OnHello(r, b, m)
  \/ \E i \in Initiators, m \in Sent("hello_ack") : OnHelloAck(i, m)
  \/ \E r \in Responders, m \in Sent("commit") : OnCommit(r, m)
  \/ \E i \in Initiators, m \in Sent("commit_ack") : OnCommitAck(i, m)
  \/ Tick

Spec == Init /\ [][Next]_vars

(***************************************************************************)
(* Properties.                                                             *)
(***************************************************************************)
Object == [me : Agents \cup {None}, peer : Agents \cup {None},
           nonce : Initiators \cup Responders \cup {None}, held : Held \cup {None},
           state : {"Idle", "AwaitingHelloAck", "AwaitingCommitAck", "AwaitingCommit",
                    "Done", "Failed"}]

\* Types, with tokens only in objects that are done.
TypeOK ==
  /\ ini \in [Initiators -> Object] /\ res \in [Responders -> Object]
  /\ \A i \in Initiators : (ini[i].held # None) <=> (ini[i].state = "Done")
  /\ \A r \in Responders : (res[r].held # None) <=> (res[r].state = "Done")
  /\ clock \in 0..MaxTime

\* A responder that is done was committed to by the very attempt whose HELLO
\* it answered: the initiator is its peer, meant it, drew the nonce it echoed
\* and committed to its nonce; the TCT it holds is the one of that commit. So
\* no two responders, of a duplicated HELLO say, complete with one attempt.
ResponderAgreement ==
  \A r \in Responders : res[r].state = "Done" =>
     LET i == res[r].nonce
     IN  /\ ini[i].me = res[r].peer /\ ini[i].peer = res[r].me
         /\ ini[i].nonce = r
         /\ Commit(ini[i].me, r, res[r].held.tct) \in net

\* An initiator that is done has a responder that is done with it, and holds
\* the TCT that responder issued: COMMIT_ACK names no responder nonce, and
\* still cannot be that of another session of the same two agents.
InitiatorAgreement ==
  \A i \in Initiators : ini[i].state = "Done" =>
     LET r == ini[i].nonce
     IN  /\ res[r].state = "Done" /\ res[r].nonce = i
         /\ res[r].me = ini[i].peer /\ res[r].peer = ini[i].me
         /\ CommitAck(ini[i].peer, i, ini[i].held.tct) \in net

DoneObjects ==
  {ini[i] : i \in {k \in Initiators : ini[k].state = "Done"}}
    \cup {res[r] : r \in {k \in Responders : res[k].state = "Done"}}

\* What a side may use after the handshake is covered end to end: offered by
\* the peer, enough for what its own Manifest requires even after a soft-fail
\* narrowed it, and, when the peer runs this code, requested by itself.
GrantsCovered ==
  \A x \in DoneObjects :
     /\ x.held.effective \subseteq Offered[x.peer]
     /\ Required[x.me] \subseteq x.held.effective
     /\ x.peer \notin Lax => x.held.effective \subseteq Requested[x.me]

\* A TCT never outlives the Manifest of its issuer, on the issuing side for
\* our own tokens and on the receiving side for anybody's.
TctWithinManifest ==
  /\ \A x \in DoneObjects : x.held.tct.exp <= ManifestExp[x.peer]
  /\ \A m \in Sent("commit") \cup Sent("commit_ack") :
        m.from \notin Lax => m.tct.iat < m.tct.exp /\ m.tct.exp <= ManifestExp[m.from]

\* What a completed handshake leaves a side with may be used as it stands:
\* its grants are covered and its lifetime is within its issuer's Manifest
\* (verify_received_tct and issue_tct_for_peer).
HeldSound == TypeOK /\ GrantsCovered /\ TctWithinManifest

\* A responder issues nothing before it holds the initiator's token: every
\* COMMIT_ACK sent answers a done session of its sender with the subject, and
\* each session sends at most one.
ReciprocalIssuance ==
  /\ \A m \in Sent("commit_ack") : \E r \in Responders :
        res[r].state = "Done" /\ res[r].me = m.tct.iss /\ res[r].peer = m.tct.sub
          /\ res[r].nonce = m.echo
  /\ \A m, n \in Sent("commit_ack") : m.echo = n.echo => m = n
=============================================================================
