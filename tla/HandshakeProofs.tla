--------------------------- MODULE HandshakeProofs ---------------------------
(***************************************************************************)
(* The mutual handshake for any number of agents, objects, grants and      *)
(* duplicated messages: both sides agree on whom they completed with, the  *)
(* responder issues last, and what a side ends up holding is covered.      *)
(***************************************************************************)
EXTENDS Handshake, TLAPS

(***************************************************************************)
(* The inductive invariant. Nothing in it is about time: what a message    *)
(* says is tied to the object that sent it, which never forgets its peer   *)
(* or its nonces, so it does not matter when, or how often, it arrives.    *)
(***************************************************************************)

\* A token is its sender's; one of this code keeps to the sender's Manifest
\* and to what its subject asked for.
TctOf(m) ==
  /\ m.tct \in Tct /\ m.tct.iss = m.from
  /\ m.from \notin Lax => /\ m.tct.iat < m.tct.exp
                          /\ m.tct.exp <= ManifestExp[m.from]
                          /\ m.tct.grants \subseteq Requested[m.tct.sub]

HellosSent ==
  \A m \in Sent("hello") :
     /\ m.nonce \in Initiators /\ ini[m.nonce].state # "Idle"
     /\ m.from = ini[m.nonce].me /\ m.to = ini[m.nonce].peer

HelloAcksSent ==
  \A m \in Sent("hello_ack") :
     /\ m.nonce \in Responders /\ res[m.nonce].state # "Idle"
     /\ m.from = res[m.nonce].me /\ m.to = res[m.nonce].peer
     /\ m.echo = res[m.nonce].nonce
     /\ m.requested = Requested[m.from]

CommitsSent ==
  \A m \in Sent("commit") :
     /\ m = Commit(m.from, m.echo, m.tct) /\ TctOf(m)
     /\ \E i \in Initiators : /\ ini[i].nonce = m.echo /\ m.echo # None
                              /\ m.from = ini[i].me /\ m.tct.sub = ini[i].peer

CommitAcksSent ==
  \A m \in Sent("commit_ack") :
     /\ m = CommitAck(m.from, m.echo, m.tct) /\ TctOf(m)
     /\ \E r \in Responders : /\ res[r].state = "Done" /\ res[r].nonce = m.echo
                              /\ m.from = res[r].me /\ m.tct.sub = res[r].peer

OneCommitAck == \A m, n \in Sent("commit_ack") : m.echo = n.echo => m = n

MessagesSent == HellosSent /\ HelloAcksSent /\ CommitsSent /\ CommitAcksSent /\ OneCommitAck

\* An object that left Idle knows whom it is and talks to.
Started(x) == x.state # "Idle" => x.me \in Agents /\ x.peer \in Agents

\* A responder answers an attempt that meant it.
ResponderMeant ==
  \A r \in Responders : res[r].state # "Idle" =>
     /\ res[r].nonce \in Initiators
     /\ ini[res[r].nonce].state # "Idle"
     /\ ini[res[r].nonce].me = res[r].peer /\ ini[res[r].nonce].peer = res[r].me

\* An attempt that took a HELLO_ACK is bound to the responder that sent it.
InitiatorBound ==
  \A i \in Initiators :
     /\ ini[i].state = "Idle" => ini[i] = Idle
     /\ ini[i].state \in {"AwaitingCommitAck", "Done"} => ini[i].nonce # None
     /\ ini[i].state \in {"Idle", "AwaitingHelloAck"} => ini[i].nonce = None
     /\ ini[i].nonce # None =>
           /\ ini[i].state # "Idle"
           /\ ini[i].nonce \in Responders
           /\ res[ini[i].nonce].state # "Idle" /\ res[ini[i].nonce].nonce = i

ObjectsBound ==
  /\ \A i \in Initiators : Started(ini[i])
  /\ \A r \in Responders : Started(res[r]) /\ (res[r].state = "Idle" => res[r] = Idle)
  /\ ResponderMeant /\ InitiatorBound

\* What a side holds passed verify_received_tct and the policy on effective
\* grants.
HoldsSound(x) ==
  x.state = "Done" =>
     /\ x.held.effective \subseteq Offered[x.peer]
     /\ Required[x.me] \subseteq x.held.effective
     /\ x.held.tct.exp <= ManifestExp[x.peer]
     /\ x.peer \notin Lax => x.held.effective \subseteq Requested[x.me]

AllHoldSound == (\A i \in Initiators : HoldsSound(ini[i])) /\ (\A r \in Responders : HoldsSound(res[r]))

HandshakeInv ==
  /\ TypeOK /\ MessagesSent /\ ObjectsBound /\ AllHoldSound
  /\ ResponderAgreement /\ InitiatorAgreement

(***************************************************************************)
(* Tokens.                                                                 *)
(***************************************************************************)

\* What issue_tct_for_peer returns is a token of ours for the peer; this code
\* stays within our Manifest and within what the peer requested.
LEMMA IssuedFacts ==
  ASSUME clock \in Nat, NEW me \in Agents, NEW peer \in Agents,
         NEW requested \in SUBSET Grants, NEW t \in IssuedTcts(me, peer, requested)
  PROVE  /\ t \in Tct /\ t.iss = me /\ t.sub = peer
         /\ me \notin Lax => /\ t.iat < t.exp /\ t.exp <= ManifestExp[me]
                             /\ t.grants \subseteq requested
<1>1. Now(me) \in Nat
  BY ConstantAssumption DEF Now
<1>2. CASE me \in Lax
  BY <1>1, <1>2, ConstantAssumption DEF IssuedTcts, Tct
<1>3. CASE me \notin Lax
  <2>1. t \in Drafted(me, peer, IssuedGrants(me, requested), IssuedExp(me)) /\ t.exp > t.iat
    BY <1>3 DEF IssuedTcts
  <2>2. /\ t = [iss |-> t.iss, sub |-> t.sub, grants |-> t.grants, iat |-> t.iat, exp |-> t.exp]
        /\ t.iss = me /\ t.sub = peer /\ t.iat = Now(me) /\ t.exp = IssuedExp(me)
        /\ t.grants \in IssuedGrants(me, requested)
    BY <2>1 DEF Drafted
  <2>3. t.grants \subseteq requested
    BY <2>2 DEF IssuedGrants
  <2>4. IssuedExp(me) \in Nat /\ IssuedExp(me) <= ManifestExp[me]
    BY <1>1, ConstantAssumption DEF IssuedExp, Earlier
  <2> QED
    BY <1>1, <2>1, <2>2, <2>3, <2>4 DEF Tct
<1> QED
  BY <1>2, <1>3

\* The grants left after revocation are grants of the token.
LEMMA EffectiveFacts ==
  ASSUME NEW me, NEW t \in Tct, NEW e \in Effective(me, t)
  PROVE  e \in SUBSET t.grants /\ e \in SUBSET Grants /\ Required[me] \subseteq e
BY DEF Effective, Honoured, Tct

\* What a side holds after accepting a sound token is sound.
LEMMA AcceptedHolds ==
  ASSUME NEW x, NEW m, TctOf(m), m.from = x.peer, ReceivedTct(x.me, x.peer, m.tct),
         NEW e \in Effective(x.me, m.tct), NEW y, x.peer \in Agents,
         y.me = x.me, y.peer = x.peer, y.held = [tct |-> m.tct, effective |-> e]
  PROVE  HoldsSound(y) /\ y.held \in Held
<1>1. m.tct \in Tct /\ m.tct.sub = x.me /\ m.tct.exp <= ManifestExp[x.peer]
      /\ m.tct.grants \subseteq Offered[x.peer]
  BY DEF TctOf, ReceivedTct, BeforeRevocation, CoreChecks
<1>2. e \subseteq m.tct.grants /\ e \in SUBSET Grants /\ Required[x.me] \subseteq e
  BY <1>1, EffectiveFacts
<1>3. x.peer \notin Lax => m.tct.grants \subseteq Requested[x.me]
  BY <1>1 DEF TctOf
<1>4. y.held.tct = m.tct /\ y.held.effective = e
  OBVIOUS
<1> QED
  BY <1>1, <1>2, <1>3, <1>4 DEF HoldsSound, Held

(***************************************************************************)
(* The invariant holds initially and in every step.                        *)
(***************************************************************************)

\* No object has started and nothing was sent.
LEMMA InitInv == Init => HandshakeInv
<1> SUFFICES ASSUME Init PROVE HandshakeInv
  OBVIOUS
<1>1. /\ \A i \in Initiators : ini[i] = Idle
      /\ \A r \in Responders : res[r] = Idle
      /\ net = {} /\ clock = 0
  BY DEF Init
<1>2. /\ Idle.state = "Idle" /\ Idle.held = None /\ Idle.nonce = None
      /\ Idle.me = None /\ Idle.peer = None /\ Idle \in Object
  BY DEF Idle, Object
<1>3. TypeOK
  BY <1>1, <1>2, ConstantAssumption DEF TypeOK, Init
<1>4. MessagesSent
  BY <1>1 DEF MessagesSent, HellosSent, HelloAcksSent, CommitsSent, CommitAcksSent, OneCommitAck, Sent
<1>5. ObjectsBound
  BY <1>1, <1>2 DEF ObjectsBound, Started, ResponderMeant, InitiatorBound
<1>6. AllHoldSound /\ ResponderAgreement /\ InitiatorAgreement
  BY <1>1, <1>2 DEF AllHoldSound, HoldsSound, ResponderAgreement, InitiatorAgreement
<1> QED
  BY <1>3, <1>4, <1>5, <1>6 DEF HandshakeInv

\* An initiator starts: a HELLO goes out.
LEMMA StartInv ==
  ASSUME HandshakeInv, NEW i \in Initiators, NEW a \in Agents, NEW b \in Agents, Start(i, a, b)
  PROVE  HandshakeInv'
<1> USE DEF HandshakeInv
<1>0. /\ UNCHANGED <<res, clock>>
      /\ net' = net \cup {Hello(i, a, b)}
      /\ ini[i] = Idle /\ DOMAIN ini = Initiators
      /\ ini' = [ini EXCEPT ![i] = [state |-> "AwaitingHelloAck", me |-> a, peer |-> b,
                                    nonce |-> None, held |-> None]]
  BY DEF Start, TypeOK
<1>1. /\ ini'[i] = [state |-> "AwaitingHelloAck", me |-> a, peer |-> b, nonce |-> None, held |-> None]
      /\ \A k \in Initiators : k # i => ini'[k] = ini[k]
      /\ ini[i].state = "Idle" /\ ini[i].nonce = None
  BY <1>0 DEF Idle
<1>2. ini'[i] \in Object
  BY <1>1 DEF Object
<1>3. TypeOK'
  <2>1. ini' \in [Initiators -> Object]
    BY <1>0, <1>2 DEF TypeOK
  <2> QED
    BY <1>0, <1>1, <2>1 DEF TypeOK
<1>4. /\ Sent("hello")' = Sent("hello") \cup {Hello(i, a, b)}
      /\ Sent("hello_ack")' = Sent("hello_ack") /\ Sent("commit")' = Sent("commit")
      /\ Sent("commit_ack")' = Sent("commit_ack")
      /\ Hello(i, a, b).nonce = i /\ Hello(i, a, b).from = a /\ Hello(i, a, b).to = b
  BY <1>0 DEF Sent, Hello
<1>5. HellosSent'
  BY <1>1, <1>4 DEF MessagesSent, HellosSent
<1>6. HelloAcksSent'
  BY <1>0, <1>4 DEF MessagesSent, HelloAcksSent
<1>7. CommitsSent'
  BY <1>1, <1>4 DEF MessagesSent, CommitsSent, TctOf, Commit
<1>8. CommitAcksSent' /\ OneCommitAck'
  BY <1>0, <1>4 DEF MessagesSent, CommitAcksSent, OneCommitAck, TctOf, CommitAck
<1>9. ObjectsBound'
  BY <1>0, <1>1 DEF ObjectsBound, Started, ResponderMeant, InitiatorBound
<1>10. AllHoldSound'
  BY <1>0, <1>1 DEF AllHoldSound, HoldsSound
<1>11. ResponderAgreement'
  BY <1>0, <1>1 DEF ResponderAgreement, Commit, ObjectsBound, ResponderMeant
<1>12. InitiatorAgreement'
  BY <1>0, <1>1 DEF InitiatorAgreement, CommitAck
<1> QED
  BY <1>3, <1>5, <1>6, <1>7, <1>8, <1>9, <1>10, <1>11, <1>12 DEF MessagesSent

\* A responder is created and answers a HELLO, a duplicated one too.
LEMMA OnHelloInv ==
  ASSUME HandshakeInv, NEW r \in Responders, NEW b \in Agents, NEW m \in Sent("hello"),
         OnHello(r, b, m)
  PROVE  HandshakeInv'
<1> USE DEF HandshakeInv
<1>0. /\ UNCHANGED <<ini, clock>>
      /\ net' = net \cup {HelloAck(r, b, m)}
      /\ res[r] = Idle /\ DOMAIN res = Responders
      /\ m.to = b
      /\ res' = [res EXCEPT ![r] = [state |-> "AwaitingCommit", me |-> b, peer |-> m.from,
                                    nonce |-> m.nonce, held |-> None]]
  BY DEF OnHello, TypeOK, Bootstrapped
<1>1. /\ res'[r] = [state |-> "AwaitingCommit", me |-> b, peer |-> m.from,
                    nonce |-> m.nonce, held |-> None]
      /\ \A k \in Responders : k # r => res'[k] = res[k]
      /\ res[r].state = "Idle"
  BY <1>0 DEF Idle
<1>2. /\ m.nonce \in Initiators /\ ini[m.nonce].state # "Idle"
      /\ m.from = ini[m.nonce].me /\ b = ini[m.nonce].peer /\ m.from \in Agents
  BY <1>0 DEF MessagesSent, HellosSent, ObjectsBound, Started
<1>3. TypeOK'
  <2>1. res'[r] \in Object
    BY <1>1, <1>2 DEF Object
  <2>2. res' \in [Responders -> Object]
    BY <1>0, <2>1 DEF TypeOK
  <2> QED
    BY <1>0, <1>1, <2>2 DEF TypeOK
<1> DEFINE ack == HelloAck(r, b, m)
<1>4. /\ ack.nonce = r /\ ack.from = b /\ ack.to = m.from
      /\ ack.echo = m.nonce /\ ack.requested = Requested[b]
      /\ ack.type = "hello_ack"
  BY DEF HelloAck
<1> HIDE DEF ack
<1>5. /\ Sent("hello_ack")' = Sent("hello_ack") \cup {ack}
      /\ Sent("hello")' = Sent("hello") /\ Sent("commit")' = Sent("commit")
      /\ Sent("commit_ack")' = Sent("commit_ack")
  <2>1. net' = net \cup {ack}
    BY <1>0 DEF ack
  <2> QED
    BY <1>4, <2>1 DEF Sent
<1>6. HellosSent'
  BY <1>0, <1>5 DEF MessagesSent, HellosSent
<1>7. HelloAcksSent'
  BY <1>1, <1>4, <1>5 DEF MessagesSent, HelloAcksSent
<1>8. CommitsSent'
  BY <1>0, <1>5 DEF MessagesSent, CommitsSent, TctOf, Commit
<1>9. CommitAcksSent' /\ OneCommitAck'
  BY <1>1, <1>5 DEF MessagesSent, CommitAcksSent, OneCommitAck, TctOf, CommitAck
<1>10. ObjectsBound'
  BY <1>0, <1>1, <1>2 DEF ObjectsBound, Started, ResponderMeant, InitiatorBound
<1>11. AllHoldSound'
  BY <1>0, <1>1 DEF AllHoldSound, HoldsSound
<1>12. ResponderAgreement'
  BY <1>0, <1>1 DEF ResponderAgreement, Commit
<1>13. InitiatorAgreement'
  BY <1>0, <1>1 DEF InitiatorAgreement, CommitAck, ObjectsBound, InitiatorBound
<1> QED
  BY <1>3, <1>6, <1>7, <1>8, <1>9, <1>10, <1>11, <1>12, <1>13 DEF MessagesSent

\* An initiator that fails keeps its peer and its nonce.
LEMMA FailInv ==
  ASSUME HandshakeInv, NEW i \in Initiators,
         ini[i].state \in {"AwaitingHelloAck", "AwaitingCommitAck"}, FailInitiator(i)
  PROVE  HandshakeInv'
<1> USE DEF HandshakeInv
<1>0. /\ UNCHANGED <<res, net, clock>> /\ DOMAIN ini = Initiators /\ ini[i] \in Object
      /\ ini' = [ini EXCEPT ![i].state = "Failed"]
  BY DEF FailInitiator, TypeOK
<1>1. /\ ini'[i].state = "Failed" /\ ini'[i].me = ini[i].me /\ ini'[i].peer = ini[i].peer
      /\ ini'[i].nonce = ini[i].nonce /\ ini'[i].held = ini[i].held /\ ini'[i] \in Object
      /\ \A k \in Initiators : k # i => ini'[k] = ini[k]
  BY <1>0 DEF Object
<1>2. TypeOK'
  <2>1. ini' \in [Initiators -> Object]
    BY <1>0, <1>1 DEF TypeOK
  <2> QED
    BY <1>0, <1>1, <2>1 DEF TypeOK
<1>3. UNCHANGED <<Sent("hello"), Sent("hello_ack"), Sent("commit"), Sent("commit_ack")>>
  BY <1>0 DEF Sent
<1>4. HellosSent'
  BY <1>1, <1>3 DEF MessagesSent, HellosSent
<1>5. HelloAcksSent' /\ CommitAcksSent' /\ OneCommitAck'
  BY <1>0, <1>3 DEF MessagesSent, HelloAcksSent, CommitAcksSent, OneCommitAck, TctOf, CommitAck
<1>6. CommitsSent'
  BY <1>1, <1>3 DEF MessagesSent, CommitsSent, TctOf, Commit
<1>7. ObjectsBound'
  <2>1. Started(ini[i])' /\ \A k \in Initiators : Started(ini[k])'
    BY <1>1 DEF ObjectsBound, Started
  <2>2. ResponderMeant'
    BY <1>0, <1>1 DEF ObjectsBound, ResponderMeant
  <2>3. InitiatorBound'
    BY <1>0, <1>1 DEF ObjectsBound, InitiatorBound
  <2> QED
    BY <1>0, <2>1, <2>2, <2>3 DEF ObjectsBound, Started
<1>8. AllHoldSound'
  BY <1>0, <1>1 DEF AllHoldSound, HoldsSound
<1>9. ResponderAgreement'
  BY <1>0, <1>1 DEF ResponderAgreement, Commit, ObjectsBound, ResponderMeant
<1>10. InitiatorAgreement'
  BY <1>0, <1>1 DEF InitiatorAgreement, CommitAck
<1> QED
  BY <1>2, <1>4, <1>5, <1>6, <1>7, <1>8, <1>9, <1>10 DEF MessagesSent

\* The initiator takes a HELLO_ACK: it is bound to its sender and commits.
LEMMA TakeHelloAckInv ==
  ASSUME HandshakeInv, NEW i \in Initiators, NEW m \in Sent("hello_ack"),
         OnHelloAck(i, m), AnswersMe(i, m), Bootstrapped(ini[i].me, m)
  PROVE  HandshakeInv'
<1> USE DEF HandshakeInv
<1>t. PICK t \in IssuedTcts(ini[i].me, m.from, m.requested) :
        /\ ini' = [ini EXCEPT ![i].state = "AwaitingCommitAck", ![i].nonce = m.nonce]
        /\ net' = net \cup {Commit(ini[i].me, m.nonce, t)}
        /\ UNCHANGED <<res, clock>>
  BY DEF OnHelloAck
<1>0. /\ DOMAIN ini = Initiators /\ ini[i] \in Object /\ clock \in Nat
      /\ ini[i].state = "AwaitingHelloAck"
  BY ConstantAssumption DEF TypeOK, OnHelloAck
<1>u. UNCHANGED <<res, clock>>
  BY <1>t
<1>1. /\ m.nonce \in Responders /\ res[m.nonce].state # "Idle"
      /\ m.from = res[m.nonce].me /\ m.to = res[m.nonce].peer /\ m.echo = res[m.nonce].nonce
      /\ m.requested = Requested[m.from]
      /\ m.from = ini[i].peer /\ m.echo = i /\ m.to = ini[i].me
      /\ ini[i].me \in Agents /\ ini[i].peer \in Agents /\ m.nonce # None
  BY <1>0, ConstantAssumption DEF MessagesSent, HelloAcksSent, AnswersMe, Bootstrapped, ObjectsBound, Started
<1>2. /\ ini'[i].state = "AwaitingCommitAck" /\ ini'[i].me = ini[i].me /\ ini'[i].peer = ini[i].peer
      /\ ini'[i].nonce = m.nonce /\ ini'[i].held = ini[i].held /\ ini'[i] \in Object
      /\ \A k \in Initiators : k # i => ini'[k] = ini[k]
      /\ ini[i].nonce = None
  <2>1. ini'[i] \in Object /\ ini'[i].state = "AwaitingCommitAck" /\ ini'[i].nonce = m.nonce
    BY <1>t, <1>0, <1>1 DEF Object
  <2>2. ini'[i].me = ini[i].me /\ ini'[i].peer = ini[i].peer /\ ini'[i].held = ini[i].held
    BY <1>t, <1>0, <1>1 DEF Object
  <2> QED
    BY <1>t, <1>0, <2>1, <2>2 DEF ObjectsBound, InitiatorBound
<1>3. TypeOK'
  <2>1. ini' \in [Initiators -> Object]
    BY <1>t, <1>0, <1>2 DEF TypeOK
  <2> QED
    BY <1>u, <1>0, <1>2, <2>1 DEF TypeOK
<1>4. /\ t \in Tct /\ t.iss = ini[i].me /\ t.sub = ini[i].peer
      /\ ini[i].me \notin Lax => /\ t.iat < t.exp /\ t.exp <= ManifestExp[ini[i].me]
                                 /\ t.grants \subseteq Requested[ini[i].peer]
  <2>1. m.requested \in SUBSET Grants
    BY <1>1, ConstantAssumption
  <2> QED
    BY <1>0, <1>1, <2>1, IssuedFacts
<1> DEFINE c == Commit(ini[i].me, m.nonce, t)
<1>5. /\ c.type = "commit" /\ c.from = ini[i].me /\ c.echo = m.nonce /\ c.tct = t
      /\ c = Commit(c.from, c.echo, c.tct)
  BY DEF Commit
<1>6. TctOf(c)
  BY <1>4, <1>5 DEF TctOf
<1>7. net' = net \cup {c}
  BY <1>t
<1> HIDE DEF c
<1>8. /\ Sent("commit")' = Sent("commit") \cup {c}
      /\ UNCHANGED <<Sent("hello"), Sent("hello_ack"), Sent("commit_ack")>>
  BY <1>5, <1>7 DEF Sent
<1>9. HellosSent'
  BY <1>0, <1>2, <1>8 DEF MessagesSent, HellosSent
<1>10. HelloAcksSent' /\ CommitAcksSent' /\ OneCommitAck'
  BY <1>u, <1>8 DEF MessagesSent, HelloAcksSent, CommitAcksSent, OneCommitAck, TctOf, CommitAck
<1>11. CommitsSent'
  <2> SUFFICES ASSUME NEW n \in Sent("commit")'
               PROVE  /\ n = Commit(n.from, n.echo, n.tct) /\ TctOf(n)
                      /\ \E k \in Initiators : /\ ini'[k].nonce = n.echo /\ n.echo # None
                                               /\ n.from = ini'[k].me /\ n.tct.sub = ini'[k].peer
    BY DEF CommitsSent, TctOf, Commit
  <2>1. CASE n = c
    BY <1>1, <1>2, <1>4, <1>5, <1>6, <2>1
  <2>2. CASE n \in Sent("commit")
    <3>1. /\ n = Commit(n.from, n.echo, n.tct) /\ TctOf(n)
          /\ \E k \in Initiators : /\ ini[k].nonce = n.echo /\ n.echo # None
                                   /\ n.from = ini[k].me /\ n.tct.sub = ini[k].peer
      BY <2>2 DEF MessagesSent, CommitsSent
    <3>2. PICK k \in Initiators : /\ ini[k].nonce = n.echo /\ n.echo # None
                                  /\ n.from = ini[k].me /\ n.tct.sub = ini[k].peer
      BY <3>1
    <3>3. k # i /\ ini'[k] = ini[k]
      BY <1>2, <3>2
    <3> QED
      BY <3>1, <3>2, <3>3
  <2> QED
    BY <1>8, <2>1, <2>2
<1>12. ObjectsBound'
  <2>1. \A k \in Initiators : Started(ini[k])'
    BY <1>1, <1>2 DEF ObjectsBound, Started
  <2>2. ResponderMeant'
    BY <1>u, <1>2 DEF ObjectsBound, ResponderMeant
  <2>3. InitiatorBound'
    <3> SUFFICES ASSUME NEW k \in Initiators
                 PROVE  /\ ini'[k].state = "Idle" => ini'[k] = Idle
                        /\ ini'[k].state \in {"AwaitingCommitAck", "Done"} => ini'[k].nonce # None
                        /\ ini'[k].state \in {"Idle", "AwaitingHelloAck"} => ini'[k].nonce = None
                        /\ ini'[k].nonce # None =>
                              /\ ini'[k].state # "Idle"
                              /\ ini'[k].nonce \in Responders
                              /\ res[ini'[k].nonce].state # "Idle" /\ res[ini'[k].nonce].nonce = k
      BY <1>u DEF InitiatorBound, Idle
    <3>1. CASE k = i
      BY <1>1, <1>2, <3>1
    <3>2. CASE k # i
      BY <1>2, <3>2 DEF ObjectsBound, InitiatorBound
    <3> QED
      BY <3>1, <3>2
  <2> QED
    BY <1>u, <2>1, <2>2, <2>3 DEF ObjectsBound, Started
<1>13. AllHoldSound'
  BY <1>u, <1>0, <1>2 DEF AllHoldSound, HoldsSound
<1>14. ResponderAgreement'
  BY <1>u, <1>0, <1>1, <1>2, <1>7, ConstantAssumption DEF ResponderAgreement, Commit, ObjectsBound, ResponderMeant
<1>15. InitiatorAgreement'
  BY <1>u, <1>0, <1>2, <1>7 DEF InitiatorAgreement, CommitAck
<1> QED
  BY <1>3, <1>9, <1>10, <1>11, <1>12, <1>13, <1>14, <1>15 DEF MessagesSent

\* on_hello_ack: a mismatch fails the attempt.
LEMMA OnHelloAckInv ==
  ASSUME HandshakeInv, NEW i \in Initiators, NEW m \in Sent("hello_ack"), OnHelloAck(i, m)
  PROVE  HandshakeInv'
<1>1. CASE AnswersMe(i, m) /\ Bootstrapped(ini[i].me, m)
  BY <1>1, TakeHelloAckInv
<1>2. CASE ~(AnswersMe(i, m) /\ Bootstrapped(ini[i].me, m))
  BY <1>2, FailInv DEF OnHelloAck
<1> QED
  BY <1>1, <1>2

\* The responder takes a COMMIT: the attempt that sent it is the one whose
\* HELLO the responder answered, and no other session has answered it.
LEMMA TakeCommitInv ==
  ASSUME HandshakeInv, NEW r \in Responders, NEW m \in Sent("commit"),
         OnCommit(r, m), AnswersSession(r, m)
  PROVE  HandshakeInv'
<1> USE DEF HandshakeInv
<1>t. PICK e \in Effective(res[r].me, m.tct),
           t \in IssuedTcts(res[r].me, res[r].peer, Requested[res[r].peer]) :
        /\ res' = [res EXCEPT ![r].state = "Done", ![r].held = [tct |-> m.tct, effective |-> e]]
        /\ net' = net \cup {CommitAck(res[r].me, res[r].nonce, t)}
  BY DEF OnCommit
<1>0. /\ DOMAIN res = Responders /\ res[r] \in Object /\ clock \in Nat
      /\ res[r].state = "AwaitingCommit" /\ UNCHANGED <<ini, clock>>
      /\ ReceivedTct(res[r].me, res[r].peer, m.tct)
  BY ConstantAssumption DEF TypeOK, OnCommit
<1>1. /\ res[r].me \in Agents /\ res[r].peer \in Agents /\ res[r].nonce \in Initiators
      /\ ini[res[r].nonce].me = res[r].peer /\ ini[res[r].nonce].peer = res[r].me
      /\ ini[res[r].nonce].state # "Idle"
  BY <1>0 DEF ObjectsBound, Started, ResponderMeant
<1>2. /\ m = Commit(m.from, m.echo, m.tct) /\ TctOf(m) /\ m.echo = r /\ m.from = res[r].peer
      /\ m \in net /\ ini[res[r].nonce].nonce = r
  <2>1. /\ m = Commit(m.from, m.echo, m.tct) /\ TctOf(m)
        /\ \E i \in Initiators : ini[i].nonce = m.echo /\ m.echo # None
    BY DEF MessagesSent, CommitsSent
  <2>2. m.echo = r /\ m.from = res[r].peer
    BY DEF AnswersSession
  <2>3. PICK i \in Initiators : ini[i].nonce = r /\ r # None
    BY <2>1, <2>2
  <2>4. res[r].nonce = i
    BY <2>3 DEF ObjectsBound, InitiatorBound
  <2> QED
    BY <2>1, <2>2, <2>3, <2>4 DEF Sent
<1> DEFINE h == [tct |-> m.tct, effective |-> e]
<1>3. /\ res'[r].state = "Done" /\ res'[r].me = res[r].me /\ res'[r].peer = res[r].peer
      /\ res'[r].nonce = res[r].nonce /\ res'[r].held = h
      /\ \A k \in Responders : k # r => res'[k] = res[k]
  BY <1>t, <1>0 DEF Object
<1>h. h.tct = m.tct
  OBVIOUS
<1>4. HoldsSound(res'[r]) /\ h \in Held
  <2> HIDE DEF HandshakeInv
  <2>1. /\ res'[r].me = res[r].me /\ res'[r].peer = res[r].peer
        /\ res'[r].held = [tct |-> m.tct, effective |-> e]
    BY <1>3
  <2> QED
    BY <1>0, <1>1, <1>2, <2>1, AcceptedHolds
<1> HIDE DEF h
<1>5. h # None
  BY <1>4, NoneHeldAssumption
<1>6. TypeOK'
  <2>1. res'[r] \in Object
    BY <1>t, <1>0, <1>4 DEF Object, h
  <2>2. res' \in [Responders -> Object]
    BY <1>t, <1>0, <1>3, <2>1 DEF TypeOK
  <2> QED
    BY <1>0, <1>3, <1>5, <2>2 DEF TypeOK
<1>7. /\ t \in Tct /\ t.iss = res[r].me /\ t.sub = res[r].peer
      /\ res[r].me \notin Lax => /\ t.iat < t.exp /\ t.exp <= ManifestExp[res[r].me]
                                 /\ t.grants \subseteq Requested[res[r].peer]
  <2>1. Requested[res[r].peer] \in SUBSET Grants
    BY <1>1, ConstantAssumption
  <2> QED
    BY <1>0, <1>1, <2>1, IssuedFacts
<1> DEFINE c == CommitAck(res[r].me, res[r].nonce, t)
<1>8. /\ c.type = "commit_ack" /\ c.from = res[r].me /\ c.echo = res[r].nonce /\ c.tct = t
      /\ c = CommitAck(c.from, c.echo, c.tct)
  BY DEF CommitAck
<1>9. TctOf(c)
  BY <1>7, <1>8 DEF TctOf
<1>10. net' = net \cup {c}
  BY <1>t
<1> HIDE DEF c
<1>11. /\ Sent("commit_ack")' = Sent("commit_ack") \cup {c}
       /\ UNCHANGED <<Sent("hello"), Sent("hello_ack"), Sent("commit")>>
  BY <1>8, <1>10 DEF Sent
<1>12. HellosSent' /\ CommitsSent'
  BY <1>0, <1>11 DEF MessagesSent, HellosSent, CommitsSent, TctOf, Commit
<1>13. HelloAcksSent'
  BY <1>0, <1>3, <1>11 DEF MessagesSent, HelloAcksSent
<1>14. CommitAcksSent'
  <2> SUFFICES ASSUME NEW n \in Sent("commit_ack")'
               PROVE  /\ n = CommitAck(n.from, n.echo, n.tct) /\ TctOf(n)
                      /\ \E k \in Responders : /\ res'[k].state = "Done" /\ res'[k].nonce = n.echo
                                               /\ n.from = res'[k].me /\ n.tct.sub = res'[k].peer
    BY DEF CommitAcksSent, TctOf, CommitAck
  <2>1. CASE n = c
    BY <1>3, <1>7, <1>8, <1>9, <2>1
  <2>2. CASE n \in Sent("commit_ack")
    BY <1>3, <2>2 DEF MessagesSent, CommitAcksSent
  <2> QED
    BY <1>11, <2>1, <2>2
<1>15. OneCommitAck'
  <2>1. ASSUME NEW n \in Sent("commit_ack"), n.echo = c.echo PROVE FALSE
    <3>1. PICK q \in Responders : res[q].state = "Done" /\ res[q].nonce = res[r].nonce
      BY <1>8, <2>1 DEF MessagesSent, CommitAcksSent
    <3>2. ini[res[r].nonce].nonce = q
      BY <3>1 DEF ResponderAgreement
    <3> QED
      BY <1>0, <1>2, <3>1, <3>2
  <2> QED
    BY <1>11, <2>1 DEF MessagesSent, OneCommitAck
<1>16. ObjectsBound'
  <2>1. \A k \in Responders : Started(res[k])' /\ (res[k].state = "Idle" => res[k] = Idle)'
    BY <1>1, <1>3 DEF ObjectsBound, Started, Idle
  <2>2. ResponderMeant'
    BY <1>0, <1>3 DEF ObjectsBound, ResponderMeant
  <2>3. InitiatorBound'
    BY <1>0, <1>3 DEF ObjectsBound, InitiatorBound, Idle
  <2> QED
    BY <1>0, <2>1, <2>2, <2>3 DEF ObjectsBound, Started
<1>17. AllHoldSound'
  BY <1>0, <1>3, <1>4 DEF AllHoldSound, HoldsSound
<1>18. ResponderAgreement'
  <2> SUFFICES ASSUME NEW q \in Responders, res'[q].state = "Done"
               PROVE  LET i == res'[q].nonce
                      IN  /\ ini'[i].me = res'[q].peer /\ ini'[i].peer = res'[q].me
                          /\ ini'[i].nonce = q
                          /\ Commit(ini'[i].me, q, res'[q].held.tct) \in net'
    BY DEF ResponderAgreement, Commit
  <2>1. CASE q = r
    BY <1>0, <1>1, <1>2, <1>3, <1>h, <1>10, <2>1
  <2>2. CASE q # r
    BY <1>0, <1>3, <1>10, <2>2 DEF ResponderAgreement
  <2> QED
    BY <2>1, <2>2
<1>19. InitiatorAgreement'
  <2> SUFFICES ASSUME NEW i \in Initiators, ini[i].state = "Done"
               PROVE  LET q == ini[i].nonce
                      IN  /\ res'[q].state = "Done" /\ res'[q].nonce = i
                          /\ res'[q].me = ini[i].peer /\ res'[q].peer = ini[i].me
                          /\ CommitAck(ini[i].peer, i, ini[i].held.tct) \in net'
    BY <1>0 DEF InitiatorAgreement, CommitAck
  <2>1. ini[i].nonce \in Responders /\ res[ini[i].nonce].state = "Done"
    BY DEF InitiatorAgreement, ObjectsBound, InitiatorBound
  <2> QED
    BY <1>0, <1>3, <1>10, <2>1 DEF InitiatorAgreement
<1> QED
  BY <1>6, <1>12, <1>13, <1>14, <1>15, <1>16, <1>17, <1>18, <1>19 DEF MessagesSent

\* on_commit: one that echoes another nonce, or comes from another agent,
\* fails the session and sends nothing.
LEMMA OnCommitInv ==
  ASSUME HandshakeInv, NEW r \in Responders, NEW m \in Sent("commit"), OnCommit(r, m)
  PROVE  HandshakeInv'
<1> USE DEF HandshakeInv
<1>1. CASE AnswersSession(r, m)
  <2> HIDE DEF HandshakeInv
  <2> QED
    BY <1>1, TakeCommitInv
<1>2. CASE ~AnswersSession(r, m)
  <2>0. /\ UNCHANGED <<ini, net, clock>> /\ DOMAIN res = Responders /\ res[r] \in Object
        /\ res' = [res EXCEPT ![r].state = "Failed"] /\ res[r].state = "AwaitingCommit"
    BY <1>2 DEF OnCommit, TypeOK
  <2>1. /\ res'[r].state = "Failed" /\ res'[r].me = res[r].me /\ res'[r].peer = res[r].peer
        /\ res'[r].nonce = res[r].nonce /\ res'[r].held = res[r].held /\ res'[r] \in Object
        /\ \A k \in Responders : k # r => res'[k] = res[k]
    BY <2>0 DEF Object
  <2>2. TypeOK'
    <3>1. res' \in [Responders -> Object]
      BY <2>0, <2>1 DEF TypeOK
    <3> QED
      BY <2>0, <2>1, <3>1 DEF TypeOK
  <2>3. UNCHANGED <<Sent("hello"), Sent("hello_ack"), Sent("commit"), Sent("commit_ack")>>
    BY <2>0 DEF Sent
  <2>4. HelloAcksSent'
    BY <2>0, <2>1, <2>3 DEF MessagesSent, HelloAcksSent
  <2>5. HellosSent' /\ CommitsSent' /\ OneCommitAck'
    BY <2>0, <2>3 DEF MessagesSent, HellosSent, CommitsSent, OneCommitAck, TctOf, Commit
  <2>6. CommitAcksSent'
    BY <2>0, <2>1, <2>3 DEF MessagesSent, CommitAcksSent, TctOf, CommitAck
  <2>7. ObjectsBound'
    <3>1. \A k \in Responders : Started(res[k])' /\ (res[k].state = "Idle" => res[k] = Idle)'
      BY <2>0, <2>1 DEF ObjectsBound, Started, Idle
    <3>2. ResponderMeant'
      BY <2>0, <2>1 DEF ObjectsBound, ResponderMeant
    <3>3. InitiatorBound'
      BY <2>0, <2>1 DEF ObjectsBound, InitiatorBound, Idle
    <3> QED
      BY <2>0, <3>1, <3>2, <3>3 DEF ObjectsBound, Started
  <2>8. AllHoldSound'
    BY <2>0, <2>1 DEF AllHoldSound, HoldsSound
  <2>9. ResponderAgreement'
    BY <2>0, <2>1 DEF ResponderAgreement, Commit
  <2>10. InitiatorAgreement'
    BY <2>0, <2>1 DEF InitiatorAgreement, CommitAck, ObjectsBound, InitiatorBound
  <2> QED
    BY <2>2, <2>4, <2>5, <2>6, <2>7, <2>8, <2>9, <2>10 DEF MessagesSent
<1> QED
  BY <1>1, <1>2

\* The initiator takes a COMMIT_ACK, which names only its own nonce: the done
\* session with that nonce is the one the attempt is bound to.
LEMMA TakeCommitAckInv ==
  ASSUME HandshakeInv, NEW i \in Initiators, NEW m \in Sent("commit_ack"),
         OnCommitAck(i, m), AnswersMe(i, m)
  PROVE  HandshakeInv'
<1> USE DEF HandshakeInv
<1>t. PICK e \in Effective(ini[i].me, m.tct) :
        ini' = [ini EXCEPT ![i].state = "Done", ![i].held = [tct |-> m.tct, effective |-> e]]
  BY DEF OnCommitAck
<1>0. /\ DOMAIN ini = Initiators /\ ini[i] \in Object
      /\ ini[i].state = "AwaitingCommitAck" /\ UNCHANGED <<res, net, clock>>
      /\ ReceivedTct(ini[i].me, ini[i].peer, m.tct)
  BY DEF TypeOK, OnCommitAck
<1>1. /\ ini[i].me \in Agents /\ ini[i].peer \in Agents /\ ini[i].nonce \in Responders
      /\ ini[i].nonce # None
  BY <1>0 DEF ObjectsBound, Started, InitiatorBound
<1>2. /\ m = CommitAck(m.from, m.echo, m.tct) /\ TctOf(m) /\ m.echo = i /\ m.from = ini[i].peer
      /\ m \in net
      /\ \E r \in Responders : /\ res[r].state = "Done" /\ res[r].nonce = m.echo
                               /\ m.from = res[r].me /\ m.tct.sub = res[r].peer
  BY DEF MessagesSent, CommitAcksSent, AnswersMe, Sent
<1>3. PICK r \in Responders : /\ res[r].state = "Done" /\ res[r].nonce = i
                              /\ res[r].me = ini[i].peer /\ m.tct.sub = res[r].peer
  BY <1>2
<1>4. ini[i].nonce = r /\ ini[i].me = res[r].peer /\ ini[i].peer = res[r].me
  BY <1>3 DEF ResponderAgreement
<1> DEFINE h == [tct |-> m.tct, effective |-> e]
<1>5. /\ ini'[i].state = "Done" /\ ini'[i].me = ini[i].me /\ ini'[i].peer = ini[i].peer
      /\ ini'[i].nonce = ini[i].nonce /\ ini'[i].held = h
      /\ \A k \in Initiators : k # i => ini'[k] = ini[k]
  BY <1>t, <1>0 DEF Object
<1>h. h.tct = m.tct
  OBVIOUS
<1>6. HoldsSound(ini'[i]) /\ h \in Held
  <2> HIDE DEF HandshakeInv
  <2>1. /\ ini'[i].me = ini[i].me /\ ini'[i].peer = ini[i].peer
        /\ ini'[i].held = [tct |-> m.tct, effective |-> e]
    BY <1>5
  <2> QED
    BY <1>0, <1>1, <1>2, <2>1, AcceptedHolds
<1> HIDE DEF h
<1>7. h # None
  BY <1>6, NoneHeldAssumption
<1>8. TypeOK'
  <2>1. ini'[i] \in Object
    BY <1>t, <1>0, <1>6 DEF Object, h
  <2>2. ini' \in [Initiators -> Object]
    BY <1>t, <1>0, <1>5, <2>1 DEF TypeOK
  <2> QED
    BY <1>0, <1>5, <1>7, <2>2 DEF TypeOK
<1>9. UNCHANGED <<Sent("hello"), Sent("hello_ack"), Sent("commit"), Sent("commit_ack")>>
  BY <1>0 DEF Sent
<1>10. HellosSent'
  BY <1>0, <1>5, <1>9 DEF MessagesSent, HellosSent
<1>11. HelloAcksSent' /\ CommitAcksSent' /\ OneCommitAck'
  BY <1>0, <1>9 DEF MessagesSent, HelloAcksSent, CommitAcksSent, OneCommitAck, TctOf, CommitAck
<1>12. CommitsSent'
  BY <1>5, <1>9 DEF MessagesSent, CommitsSent, TctOf, Commit
<1>13. ObjectsBound'
  <2>1. \A k \in Initiators : Started(ini[k])'
    BY <1>1, <1>5 DEF ObjectsBound, Started
  <2>2. ResponderMeant'
    BY <1>0, <1>5 DEF ObjectsBound, ResponderMeant
  <2>3. InitiatorBound'
    BY <1>0, <1>1, <1>5 DEF ObjectsBound, InitiatorBound, Idle
  <2> QED
    BY <1>0, <2>1, <2>2, <2>3 DEF ObjectsBound, Started
<1>14. AllHoldSound'
  BY <1>0, <1>5, <1>6 DEF AllHoldSound, HoldsSound
<1>15. ResponderAgreement'
  BY <1>0, <1>5 DEF ResponderAgreement, Commit, ObjectsBound, ResponderMeant
<1>16. InitiatorAgreement'
  <2> SUFFICES ASSUME NEW k \in Initiators, ini'[k].state = "Done"
               PROVE  LET q == ini'[k].nonce
                      IN  /\ res'[q].state = "Done" /\ res'[q].nonce = k
                          /\ res'[q].me = ini'[k].peer /\ res'[q].peer = ini'[k].me
                          /\ CommitAck(ini'[k].peer, k, ini'[k].held.tct) \in net'
    BY DEF InitiatorAgreement, CommitAck
  <2>1. CASE k = i
    BY <1>0, <1>2, <1>3, <1>4, <1>5, <1>h, <2>1
  <2>2. CASE k # i
    BY <1>0, <1>5, <2>2 DEF InitiatorAgreement
  <2> QED
    BY <2>1, <2>2
<1> QED
  BY <1>8, <1>10, <1>11, <1>12, <1>13, <1>14, <1>15, <1>16 DEF MessagesSent

\* on_commit_ack: a mismatch fails the attempt.
LEMMA OnCommitAckInv ==
  ASSUME HandshakeInv, NEW i \in Initiators, NEW m \in Sent("commit_ack"), OnCommitAck(i, m)
  PROVE  HandshakeInv'
<1>1. CASE AnswersMe(i, m)
  BY <1>1, TakeCommitAckInv
<1>2. CASE ~AnswersMe(i, m)
  BY <1>2, FailInv DEF OnCommitAck
<1> QED
  BY <1>1, <1>2

\* Time is no part of the agreement.
LEMMA IdleStepInv ==
  ASSUME HandshakeInv, Tick \/ UNCHANGED vars
  PROVE  HandshakeInv'
<1>1. UNCHANGED <<ini, res, net>> /\ clock' \in 0..MaxTime
  BY ConstantAssumption DEF HandshakeInv, TypeOK, Tick, vars
<1>2. TypeOK'
  BY <1>1 DEF HandshakeInv, TypeOK
<1>3. MessagesSent'
  BY <1>1 DEF HandshakeInv, MessagesSent, HellosSent, HelloAcksSent, CommitsSent, CommitAcksSent,
              OneCommitAck, TctOf, Commit, CommitAck, Sent
<1>4. ObjectsBound' /\ AllHoldSound'
  BY <1>1 DEF HandshakeInv, ObjectsBound, Started, ResponderMeant, InitiatorBound, AllHoldSound,
              HoldsSound, Idle
<1>5. ResponderAgreement' /\ InitiatorAgreement'
  BY <1>1 DEF HandshakeInv, ResponderAgreement, InitiatorAgreement, Commit, CommitAck
<1> QED
  BY <1>2, <1>3, <1>4, <1>5 DEF HandshakeInv

\* Every step keeps the invariant.
LEMMA NextInv == HandshakeInv /\ [Next]_vars => HandshakeInv'
<1> SUFFICES ASSUME HandshakeInv, [Next]_vars PROVE HandshakeInv'
  OBVIOUS
<1>1. ASSUME NEW i \in Initiators, NEW a \in Agents, NEW b \in Agents, Start(i, a, b)
      PROVE  HandshakeInv'
  BY <1>1, StartInv
<1>2. ASSUME NEW r \in Responders, NEW b \in Agents, NEW m \in Sent("hello"), OnHello(r, b, m)
      PROVE  HandshakeInv'
  BY <1>2, OnHelloInv
<1>3. ASSUME NEW i \in Initiators, NEW m \in Sent("hello_ack"), OnHelloAck(i, m)
      PROVE  HandshakeInv'
  BY <1>3, OnHelloAckInv
<1>4. ASSUME NEW r \in Responders, NEW m \in Sent("commit"), OnCommit(r, m)
      PROVE  HandshakeInv'
  BY <1>4, OnCommitInv
<1>5. ASSUME NEW i \in Initiators, NEW m \in Sent("commit_ack"), OnCommitAck(i, m)
      PROVE  HandshakeInv'
  BY <1>5, OnCommitAckInv
<1>6. CASE Tick \/ UNCHANGED vars
  BY <1>6, IdleStepInv
<1> QED
  BY <1>1, <1>2, <1>3, <1>4, <1>5, <1>6 DEF Next

(***************************************************************************)
(* The results.                                                            *)
(***************************************************************************)

\* The invariant holds throughout, for any agents, objects and duplication.
THEOREM HandshakeCorrect == Spec => []HandshakeInv
BY InitInv, NextInv, PTL DEF Spec

\* A responder that on_commit completed was committed to by the one attempt
\* whose HELLO it answered, and holds the TCT of that commit: duplicated
\* HELLOs and COMMITs of other attempts cannot complete it.
THEOREM ResponderAgrees == Spec => []ResponderAgreement
<1>1. HandshakeInv => ResponderAgreement
  BY DEF HandshakeInv
<1> QED
  BY <1>1, HandshakeCorrect, PTL

\* An initiator that on_commit_ack completed has a done responder that names
\* it, and holds the TCT that responder issued, though COMMIT_ACK does not
\* name the responder's nonce.
THEOREM InitiatorAgrees == Spec => []InitiatorAgreement
<1>1. HandshakeInv => InitiatorAgreement
  BY DEF HandshakeInv
<1> QED
  BY <1>1, HandshakeCorrect, PTL

\* on_commit issues only after it holds the initiator's token, and once per
\* attempt: no two sessions of a duplicated HELLO both answer.
THEOREM ResponderIssuesLast == Spec => []ReciprocalIssuance
<1>1. HandshakeInv => ReciprocalIssuance
  <2> SUFFICES ASSUME HandshakeInv PROVE ReciprocalIssuance
    OBVIOUS
  <2>1. ASSUME NEW m \in Sent("commit_ack")
        PROVE  \E r \in Responders : /\ res[r].state = "Done" /\ res[r].me = m.tct.iss
                                     /\ res[r].peer = m.tct.sub /\ res[r].nonce = m.echo
    BY DEF HandshakeInv, MessagesSent, CommitAcksSent, TctOf
  <2>2. OneCommitAck
    BY DEF HandshakeInv, MessagesSent
  <2> QED
    BY <2>1, <2>2 DEF ReciprocalIssuance, OneCommitAck
<1> QED
  BY <1>1, HandshakeCorrect, PTL

\* What a done side holds is offered by the peer, covers what its own
\* Manifest requires, was requested when the peer runs this code, and does
\* not outlive the issuer's Manifest (verify_received_tct and
\* issue_tct_for_peer), whatever a foreign issuer sends.
THEOREM HeldIsSound == Spec => []HeldSound
<1>1. HandshakeInv => HeldSound
  <2> SUFFICES ASSUME HandshakeInv PROVE HeldSound
    OBVIOUS
  <2>1. ASSUME NEW x \in DoneObjects
        PROVE  /\ x.held.effective \subseteq Offered[x.peer]
               /\ Required[x.me] \subseteq x.held.effective
               /\ x.peer \notin Lax => x.held.effective \subseteq Requested[x.me]
               /\ x.held.tct.exp <= ManifestExp[x.peer]
    <3>1. CASE \E i \in Initiators : x = ini[i] /\ ini[i].state = "Done"
      BY <3>1 DEF HandshakeInv, AllHoldSound, HoldsSound
    <3>2. CASE \E r \in Responders : x = res[r] /\ res[r].state = "Done"
      BY <3>2 DEF HandshakeInv, AllHoldSound, HoldsSound
    <3> QED
      BY <3>1, <3>2 DEF DoneObjects
  <2>2. ASSUME NEW m \in Sent("commit") \cup Sent("commit_ack"), m.from \notin Lax
        PROVE  m.tct.iat < m.tct.exp /\ m.tct.exp <= ManifestExp[m.from]
    BY <2>2 DEF HandshakeInv, MessagesSent, CommitsSent, CommitAcksSent, TctOf
  <2> QED
    BY <2>1, <2>2 DEF HeldSound, GrantsCovered, TctWithinManifest, HandshakeInv
<1> QED
  BY <1>1, HandshakeCorrect, PTL
=============================================================================
