------------------------------ MODULE MCPeers -------------------------------
(***************************************************************************)
(* The components an agent uses around a handshake, checked side by side:  *)
(* focus is chosen at the start and says which of them moves. They share   *)
(* no state in the code; they share their bounds here.                     *)
(***************************************************************************)
EXTENDS KeyResolution, Identity, Signing, Connect, Renewal, SessionBundle, RateLimit, Bindings, Conformance, TLC

CONSTANTS
  ann, bob, cy,              \* agents
  h1, h2,                \* concurrent handlers and callers
  n1, n2, x1, x2, x3, j1, j2, k1, k2, l1, aid1

VARIABLE focus

allVars == <<focus, krVars, idVars, sgVars, cnVars, rnVars, sbVars, rlVars, bdVars, cfVars>>

\* One key set replaced by another; a lookup that answers a shared address too.
McKeySets == <<{"k1"}, {"k2"}>>
McDns == {{<<8, 8, 8, 8>>}, {<<8, 8, 8, 8>>, <<100, 64, 0, 1>>}}
McTls == [use_only_extra_roots |-> TRUE, built_in |-> {"web"}, extra_roots |-> {"corp", "junk"},
          malformed |-> {"junk"}, spki_pins |-> {}]
McCerts == {[root |-> "corp", spki |-> "s", parses |-> TRUE]}

\* One JWK with an id, one without, and a second one of that id, never tried.
Jwk(id, kid, alg) == [id |-> id, kid |-> kid, alg |-> alg, type |-> "P256", bits |-> 256]
McJwks == [i \in {Provider} |-> <<Jwk("k1", "kid1", Nil), Jwk("k2", Nil, Nil), Jwk("k4", "kid1", Nil)>>]
McAuthorities == {Jwk("k3", "kid1", "ES256")}

McKms == {[alg |-> a, id |-> i] : a \in {"p256", "ed25519"}, i \in {1, 2}}
Key(alg) == [alg |-> alg, id |-> 1]
McKeyHolders ==
  {[aid |-> [tag |-> t, id |-> 1], local |-> Unset] : t \in {"p256", "none"}} \cup
  {[aid |-> [tag |-> t, id |-> 1], local |-> Key(t)] : t \in {"p256", "ed25519"}}

McLookups == {{<<9, 9, 9, 9>>}, {<<9, 9, 9, 9>>, <<10, 0, 0, 1>>}, None}

\* Tokens of two coordinators, one of a kind that is not read.
T(iss, sub, exp, jti, flaw) ==
  [typ |-> "tct", signer |-> iss, flaw |-> flaw, jti |-> jti, iss |-> iss, sub |-> sub, aud |-> sub,
   iat |-> 0, exp |-> exp, grants |-> {"g"}, jkt |-> sub, ext |-> FALSE]
McPool == {T(bob, ann, 1, x1, "none"), T(bob, cy, 2, x2, "none"), T(cy, ann, 1, x3, "none"),
           T(bob, ann, 2, x3, "version")}

\* Tokens for the Node agent and for another, of different lifetimes.
McPresented == {T(ann, bob, 1, x1, "none"), T(ann, cy, 2, x2, "none"), T(cy, bob, 1, x3, "none")}
McPinned == [a \in {ann, bob} |-> {ann, bob}]
McRevoked == {None, {}, {x1}}
McCaps == <<"g">>
McTtls == {1}

McClients == {<<9, 9, 9, 9>>, <<8, 8, 8, 8>>}
McProxies == {[network |-> <<10, 0, 0, 0>>, prefix |-> 12]}
McHops == {<<7, 7, 7, 7>>, <<10, 1, 1, 1>>, Missing}
McProxyAddress == <<10, 0, 0, 1>>
McEdgeHop == <<7, 7, 7, 7>>

\* Fixtures: of the core and of the pinned-admission feature, one that a feature
\* negates, some that the adapter does not satisfy, one it has no operation for.
Does(op, arg, want) == [op |-> op, arg |-> arg, want |-> want, absent |-> {}, minted |-> TRUE]
Fixture(status, feature, required, pre, steps) ==
  [status |-> status, feature |-> feature, required_for_core |-> required, required_for_v0_1 |-> required,
   single |-> Len(steps) = 1, preconditions |-> pre, steps |-> steps]
Challenged == Fixture("extension", "aitp-pinned-admission", FALSE, <<>>,
  <<Does("issue_presentation_challenge", 0, "ok"), Does("issue_presentation_challenge", 0, "CHALLENGE_REFUSED"),
    Does("verify_identity_presentation", 1, "ok"), Does("verify_identity_presentation", 1, "IDENTITY_FAILED"),
    Does("issue_presentation_challenge", 0, "ok")>>)
Unissued == Fixture("extension", "aitp-pinned-admission", FALSE, <<>>,
  <<Does("verify_identity_presentation", 1, "IDENTITY_FAILED")>>)
Replayed == Fixture("core", "", TRUE, <<>>,
  <<Does("verify_envelope", 1, "ok"), Does("verify_envelope", 1, "REPLAY_DETECTED")>>)
Revoked == Fixture("core", "", TRUE, <<[op |-> "inject_revocation", arg |-> 1]>>,
  <<Does("verify_tct_as_issuer", 1, "TCT_REVOKED")>>)
Dated == Fixture("core", "", TRUE, <<>>, <<Does("verify_tct", 0, "ok")>>)
Renewed == Fixture("draft", "aitp-renewal", FALSE, <<>>,
  <<Does("renew_tct", 1, "ok"), Does("renew_tct", 1, "failure")>>)
MultiHop == Fixture("core", "", TRUE, <<>>,
  <<Does("verify_delegation_token", TRUE, "DELEGATION_MULTIHOP_NOT_SUPPORTED")>>)
Enforced == Fixture("core", "", TRUE, <<>>,
  <<[Does("authorize_capability_invocation", TRUE, "ok") EXCEPT !.absent = {"capability_authorized"}],
    Does("expect_pop_challenge_issued", 0, "ok"), Does("withhold_pop_response", 0, "POP_RESPONSE_INVALID"),
    Does("withhold_pop_response", 0, "INVALID_REQUEST")>>)
NotEnforced == Fixture("core", "", TRUE, <<>>,
  <<[Does("authorize_capability_invocation", FALSE, "ok") EXCEPT !.absent = {"capability_authorized"}]>>)
NoProof == Fixture("core", "", TRUE, <<>>, <<Does("verify_pop_response", 7, "ok")>>)
Proof == Fixture("core", "", FALSE, <<>>,
  <<Does("issue_pop_challenge", 8, "ok"), Does("verify_pop_response", 8, "ok")>>)
Early == Fixture("draft", "aitp-renewal", TRUE, <<>>, <<Does("renew_tct", 1, "failure")>>)
Card == Fixture("reserved", "aitp-renewal", FALSE, <<>>, <<Does("verify_a2a_agent_card_binding", 0, "ok")>>)
Message(s, m) == Does("process_handshake_message", [session |-> s, message |-> m], "ok")
Shaken == Fixture("core", "", TRUE, <<>>,
  <<Does("start_handshake", "responder", "ok"), Message(1, "MutualHello"),
    [Message(1, "MutualHello") EXCEPT !.want = "INVALID_ENVELOPE"],
    [Message(1, "MutualCommit") EXCEPT !.want = "INVALID_REQUEST"],
    Does("start_handshake", "initiator", "ok"), Message(2, "MutualHelloAck"),
    [Message(2, "MutualHelloAck") EXCEPT !.want = "HANDSHAKE_FAILED"]>>)
McSuites == {<<>>, <<Early>>, <<Challenged, Challenged, Dated>>, <<Replayed, Revoked, Dated>>, <<Dated, NoProof, Proof>>,
             <<MultiHop, Renewed, Renewed, Card>>, <<Enforced, NotEnforced>>, <<Unissued, Shaken>>}
McDefaults == [features |-> {}, profile |-> "core", fail_fast |-> FALSE, report |-> FALSE]
McOptions ==
  {McDefaults, [McDefaults EXCEPT !.fail_fast = TRUE, !.profile = "v0.1"],
   [McDefaults EXCEPT !.fail_fast = TRUE, !.report = TRUE],
   [McDefaults EXCEPT !.report = TRUE,
      !.features = {"aitp-pinned-admission", "aitp-renewal", "experimental-multihop-delegation"}]}

\* The two callers are interchangeable wherever they call, and the nonces.
PeersSymmetry == Permutations({h1, h2}) \cup Permutations({n1, n2})

PeersInit ==
  /\ focus \in {"keys", "identity", "signing", "connect", "renewal", "bundle", "buckets", "window",
               "session", "store", "conformance"}
  /\ KrInit /\ IdInit /\ SgInit /\ CnInit /\ RnInit /\ SbInit /\ RlInit /\ BdInit /\ CfInit
  /\ focus # "conformance" => suite = <<>> /\ options = McDefaults
  /\ focus # "signing" => agent.local = Key("ed25519") /\ kms = Key("ed25519")

PeersNext ==
  \/ focus = "keys" /\ KrNext /\ UNCHANGED <<focus, idVars, sgVars, cnVars, rnVars, sbVars, rlVars, bdVars, cfVars>>
  \/ focus = "identity" /\ IdNext /\ UNCHANGED <<focus, krVars, sgVars, cnVars, rnVars, sbVars, rlVars, bdVars, cfVars>>
  \/ focus = "signing" /\ SgNext /\ UNCHANGED <<focus, krVars, idVars, cnVars, rnVars, sbVars, rlVars, bdVars, cfVars>>
  \/ focus = "connect" /\ CnNext /\ UNCHANGED <<focus, krVars, idVars, sgVars, rnVars, sbVars, rlVars, bdVars, cfVars>>
  \/ focus = "renewal" /\ RnNext /\ UNCHANGED <<focus, krVars, idVars, sgVars, cnVars, sbVars, rlVars, bdVars, cfVars>>
  \/ focus = "bundle" /\ SbNext /\ UNCHANGED <<focus, krVars, idVars, sgVars, cnVars, rnVars, rlVars, bdVars, cfVars>>
  \/ focus = "buckets" /\ BucketNext /\ UNCHANGED <<focus, krVars, idVars, sgVars, cnVars, rnVars, sbVars, bdVars, cfVars>>
  \/ focus = "window" /\ WindowNext /\ UNCHANGED <<focus, krVars, idVars, sgVars, cnVars, rnVars, sbVars, bdVars, cfVars>>
  \/ focus = "session" /\ SessionNext /\ UNCHANGED <<focus, krVars, idVars, sgVars, cnVars, rnVars, sbVars, rlVars, cfVars>>
  \/ focus = "store" /\ StoreNext /\ UNCHANGED <<focus, krVars, idVars, sgVars, cnVars, rnVars, sbVars, rlVars, cfVars>>
  \/ focus = "conformance" /\ CfNext /\ UNCHANGED <<focus, krVars, idVars, sgVars, cnVars, rnVars, sbVars, rlVars, bdVars>>

PeersSpec == PeersInit /\ [][PeersNext]_allVars
=============================================================================
