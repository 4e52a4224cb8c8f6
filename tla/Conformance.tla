---------------------------- MODULE Conformance -----------------------------
(***************************************************************************)
(* The conformance runner and the adapter it tests. The runner writes one  *)
(* request per line to the adapter process and waits for one line back, at *)
(* most `timeout` long; a reader thread puts the lines the adapter prints  *)
(* in a channel, where the answer to a request that timed out may still    *)
(* arrive. Each fixture is a list of operations with the outcome expected  *)
(* of each; the runner turns the answers into Pass, Fail or Skip, and the  *)
(* results into an exit status and into the claims of a report. The        *)
(* adapter is the one of this repository (rs_adapter), whose operations    *)
(* keep state between requests.                                            *)
(***************************************************************************)
EXTENDS Checks, FiniteSets

CONSTANTS
  Suites,                  \* the fixture sets a run may be given, sequences of fixtures
  RunOptions,              \* the flags of a run
  MAX_OUTSTANDING_NONCES,  \* bound of the nonce store of an admission fixture
  MaxFaults                \* bound on timeouts and deaths of the process

VARIABLES
  suite,       \* the loaded fixtures, in the order of their ids
  options,     \* [features, profile, fail_fast, report]
  announced,   \* features_announced
  at,          \* index of the fixture that runs
  plan,        \* the calls of this fixture that are left
  substituted, \* nonces this fixture's challenges returned; operations given what nobody mints
  results,     \* one outcome per fixture that ran
  requestId,   \* next_id of the subprocess adapter
  waiting,     \* id of the request whose answer is awaited, 0 for none
  stdin,       \* requests written and not yet read by the adapter
  channel,     \* lines read from the adapter and not yet received
  adapter,     \* AdapterState
  alive,       \* the adapter process runs
  exit,        \* exit status, or Running
  claims,      \* claims the report says are passed
  faults       \* timeouts and deaths so far

cfVars == <<suite, options, announced, at, plan, substituted, results, requestId, waiting, stdin, channel,
            adapter, alive, exit, claims, faults>>
Running == -1

cfRun == <<suite, options>>
cfProcess == <<stdin, channel, adapter, alive, requestId>>

----------------------------------------------------------------------------
(* The adapter. An operation takes its state and an argument, and returns  *)
(* the state after it and the answer.                                      *)

Replies(code) == [code |-> code, nonce |-> 0, effects |-> {}]
Success == Replies("ok")
With(effect) == [Success EXCEPT !.effects = {effect}]

AdapterState(features, clock) ==
  [features |-> features, now |-> clock, revoked_jtis |-> {}, seen_message_ids |-> {},
   pop_challenges |-> {}, pop_enforcement |-> "None", admission |-> {}, renewal_nonces |-> {},
   sessions |-> [s \in {} |-> "none"], minted |-> 0]

SetFeatures(st, features) == <<[st EXCEPT !.features = features], Success>>
SetClock(st, now) == <<[st EXCEPT !.now = now], Success>>

\* Drops what the steps of a fixture share. The lists of the whole run stay:
\* revoked ids, seen message ids, PoP challenges, sessions.
BeginFixture(st) == <<[st EXCEPT !.admission = {}, !.renewal_nonces = {}], Success>>

RevokeTct(st, jti) == <<[st EXCEPT !.revoked_jtis = @ \cup {jti}], Success>>

VerifyTctAsIssuer(st, jti) ==
  <<st, IF jti \in st.revoked_jtis THEN Replies("TCT_REVOKED") ELSE With("capability_authorized")>>

\* A token or manifest minted for the reference time.
VerifyDated(st) == <<st, IF st.now = "reference" THEN Success ELSE Replies("TCT_EXPIRED")>>

VerifyEnvelope(st, mid) ==
  IF mid \in st.seen_message_ids
  THEN <<st, Replies("REPLAY_DETECTED")>>
  ELSE <<[st EXCEPT !.seen_message_ids = @ \cup {mid}], Success>>

\* The nonce store of the fixture's own admission verifier, built at its first
\* step; its bound was checked by the store itself (NonceStore).
IssuePresentationChallenge(st) ==
  IF Cardinality(st.admission) >= MAX_OUTSTANDING_NONCES
  THEN <<st, Replies("CHALLENGE_REFUSED")>>
  ELSE <<[st EXCEPT !.admission = @ \cup {st.minted + 1}, !.minted = @ + 1],
         [Success EXCEPT !.nonce = st.minted + 1]>>

VerifyIdentityPresentation(st, nonce) ==
  IF nonce \in st.admission
  THEN <<[st EXCEPT !.admission = @ \ {nonce}], Success>>
  ELSE <<st, Replies("IDENTITY_FAILED")>>

RenewTct(st, nonce) ==
  IF nonce \in st.renewal_nonces
  THEN <<st, Replies("REPLAY_DETECTED")>>
  ELSE <<[st EXCEPT !.renewal_nonces = @ \cup {nonce}], Success>>

AuthorizeCapabilityInvocation(st, popRequired) ==
  IF popRequired
  THEN <<[st EXCEPT !.pop_enforcement = "Some(true)"], With("pop_challenge_issued")>>
  ELSE <<[st EXCEPT !.pop_enforcement = "Some(false)"], With("capability_authorized")>>

ExpectPopChallengeIssued(st) ==
  <<st, CASE st.pop_enforcement = "Some(true)" -> With("pop_challenge_issued")
          [] st.pop_enforcement = "Some(false)" -> Replies("POP_CHALLENGE_INVALID")
          [] OTHER -> Replies("INVALID_REQUEST")>>

WithholdPopResponse(st) ==
  <<[st EXCEPT !.pop_enforcement = "None"],
    CASE st.pop_enforcement = "Some(true)" -> Replies("POP_RESPONSE_INVALID")
      [] st.pop_enforcement = "Some(false)" -> With("capability_authorized")
      [] OTHER -> Replies("INVALID_REQUEST")>>

IssuePopChallenge(st, jti) == <<[st EXCEPT !.pop_challenges = @ \cup {jti}], Success>>

\* With no response among the parameters the stored challenge decides.
VerifyPop(st, jti) ==
  <<st, IF jti \in st.pop_challenges THEN Success ELSE Replies("INVALID_REQUEST")>>

VerifyDelegationToken(st, chained) ==
  <<st, IF chained /\ "experimental-multihop-delegation" \notin st.features
        THEN Replies("DELEGATION_MULTIHOP_NOT_SUPPORTED") ELSE Success>>

StartHandshake(st, role) ==
  LET s == Cardinality(DOMAIN st.sessions) + 1
      kind == IF role = "initiator" THEN "Initiator" ELSE "PendingResponder"
  IN  <<[st EXCEPT !.sessions = [t \in DOMAIN @ \cup {s} |-> IF t = s THEN kind ELSE @[t]]], Success>>

\* The step of a session on a well-formed message: what it becomes, with "gone" for a
\* session that is not put back. A refused message takes the session with it.
NextKind(kind, message) ==
  CASE kind = "Initiator" /\ message = "MutualHelloAck" -> "InitiatorCommitted"
    [] kind = "PendingResponder" /\ message = "MutualHello" -> "ActiveResponder"
    [] OTHER -> "gone"

Expects(kind) ==
  CASE kind = "Initiator" -> {"MutualHelloAck"}
    [] kind = "InitiatorCommitted" -> {"MutualCommitAck"}
    [] kind = "PendingResponder" -> {"MutualHello"}
    [] kind = "ActiveResponder" -> {"MutualCommit"}
    [] OTHER -> {}

ProcessHandshakeMessage(st, m) ==
  IF m.session \notin DOMAIN st.sessions \/ st.sessions[m.session] = "gone"
  THEN <<st, Replies("INVALID_REQUEST")>>
  ELSE LET kind == st.sessions[m.session]
       IN  <<[st EXCEPT !.sessions[m.session] = NextKind(kind, m.message)],
             CASE m.message \in Expects(kind) -> Success
               [] m.message \notin Expects(kind) /\ kind \in {"Initiator", "InitiatorCommitted"} /\
                  m.message \in {"MutualHelloAck", "MutualCommitAck"} -> Replies("HANDSHAKE_FAILED")
               [] OTHER -> Replies("INVALID_ENVELOPE")>>

SupportedOps ==
  {"init", "set_features", "set_clock", "begin_fixture", "inject_revocation",
   "verify_tct_as_issuer", "verify_tct", "verify_envelope", "issue_presentation_challenge",
   "verify_identity_presentation", "renew_tct", "authorize_capability_invocation",
   "expect_pop_challenge_issued", "withhold_pop_response", "issue_pop_challenge",
   "verify_pop_response", "verify_delegation_token", "start_handshake",
   "process_handshake_message"}

Handle(st, op, arg) ==
  CASE op = "set_features" -> SetFeatures(st, arg)
    [] op = "set_clock" -> SetClock(st, arg)
    [] op = "begin_fixture" -> BeginFixture(st)
    [] op = "inject_revocation" -> RevokeTct(st, arg)
    [] op = "verify_tct_as_issuer" -> VerifyTctAsIssuer(st, arg)
    [] op = "verify_tct" -> VerifyDated(st)
    [] op = "verify_envelope" -> VerifyEnvelope(st, arg)
    [] op = "issue_presentation_challenge" -> IssuePresentationChallenge(st)
    [] op = "verify_identity_presentation" -> VerifyIdentityPresentation(st, arg)
    [] op = "renew_tct" -> RenewTct(st, arg)
    [] op = "authorize_capability_invocation" -> AuthorizeCapabilityInvocation(st, arg)
    [] op = "expect_pop_challenge_issued" -> ExpectPopChallengeIssued(st)
    [] op = "withhold_pop_response" -> WithholdPopResponse(st)
    [] op = "issue_pop_challenge" -> IssuePopChallenge(st, arg)
    [] op = "verify_pop_response" -> VerifyPop(st, arg)
    [] op = "verify_delegation_token" -> VerifyDelegationToken(st, arg)
    [] op = "start_handshake" -> StartHandshake(st, arg)
    [] op = "process_handshake_message" -> ProcessHandshakeMessage(st, arg)
    [] op = "init" -> <<st, Success>>
    [] OTHER -> <<st, Replies("OP_NOT_SUPPORTED")>>

\* The adapter's loop: one line read, handled and answered with its id.
AdapterServes ==
  /\ alive /\ stdin # <<>>
  /\ LET r == Head(stdin)
         done == Handle(adapter, r.op, r.arg)
     IN  /\ adapter' = done[1]
         /\ channel' = Append(channel, [id |-> r.id, answer |-> done[2]])
  /\ stdin' = Tail(stdin)
  /\ UNCHANGED <<cfRun, announced, at, plan, substituted, results, requestId, waiting, alive, exit, claims, faults>>

AdapterDies ==
  /\ alive /\ faults < MaxFaults
  /\ alive' = FALSE
  /\ faults' = faults + 1
  /\ stdin' = <<>>
  /\ UNCHANGED <<cfRun, announced, at, plan, substituted, results, requestId, waiting, channel, adapter, exit, claims>>

----------------------------------------------------------------------------
(* The runner.                                                             *)

\* The feature under which the error a fixture expects no longer applies.
NegatedByFeature ==
  [DELEGATION_MULTIHOP_NOT_SUPPORTED |-> "experimental-multihop-delegation",
   BUNDLE_NOT_SUPPORTED |-> "experimental-session-bundle"]

Negated(f) ==
  /\ f.single
  /\ f.steps[1].want \in DOMAIN NegatedByFeature
  /\ NegatedByFeature[f.steps[1].want] \in options.features

ShouldSkip(f) ==
  IF Negated(f) THEN "negated"
  ELSE IF f.status = "core" \/ f.feature \in options.features THEN "no" ELSE "skip"

Call(kind, op, arg) == [kind |-> kind, op |-> op, arg |-> arg, want |-> "ok", absent |-> {}, minted |-> TRUE]

\* The calls of a fixture: the clock, the preconditions, the clock again, the start
\* of the fixture, and its steps; before them the features, once per run.
Calls(f) ==
  <<Call("ignored", "set_clock", "reference")>> \o
  [k \in DOMAIN f.preconditions |-> Call("precondition", f.preconditions[k].op, f.preconditions[k].arg)] \o
  <<Call("ignored", "set_clock", "reference"), Call("ignored", "begin_fixture", 0)>> \o
  [k \in DOMAIN f.steps |->
     [kind |-> "step", op |-> f.steps[k].op, arg |-> f.steps[k].arg, want |-> f.steps[k].want,
      absent |-> f.steps[k].absent, minted |-> f.steps[k].minted]]
Plan(f) == (IF announced THEN <<>> ELSE <<Call("ignored", "set_features", options.features)>>) \o Calls(f)

\* In a step, __ISSUED_NONCE_n__ becomes the n-th nonce the steps were given; with no
\* such nonce it stays a placeholder nobody can mint.
UsesNonce(call) == call.kind = "step" /\ call.op = "verify_identity_presentation"
Mintable(call, nonces) == call.minted /\ (UsesNonce(call) => call.arg \in DOMAIN nonces)
Substitute(call, nonces) ==
  IF ~UsesNonce(call) THEN call.arg ELSE IF call.arg \in DOMAIN nonces THEN nonces[call.arg] ELSE 0
NoncesAfter(nonces, call, answer) ==
  IF call.kind = "step" /\ call.op = "issue_presentation_challenge" /\ answer.code = "ok"
  THEN Append(nonces, answer.nonce) ELSE nonces

\* assert_outcome, then assert_side_effects: an effect expected false is not reported.
Meets(answer, call) ==
  /\ CASE call.want = "ok" -> answer.code = "ok"
       [] call.want = "failure" -> answer.code # "ok"
       [] OTHER -> answer.code = call.want
  /\ answer.code = "ok" => call.absent \cap answer.effects = {}

NothingIssued == [nonces |-> <<>>, unminted |-> {}]

EndFixture(outcome) ==
  /\ results' = Append(results, outcome)
  /\ plan' = <<>>
  /\ at' = IF outcome = "fail" /\ options.fail_fast THEN Len(suite) + 1 ELSE at + 1
  /\ UNCHANGED exit

GoOn == plan' = Tail(plan) /\ UNCHANGED <<results, at, exit>>

\* The next call of the fixture, if it has one. It passes once all is done, unless a
\* placeholder could not be minted.
GoOnOrPass(unminted) ==
  IF Len(plan) > 1 THEN GoOn ELSE EndFixture(IF unminted = {} THEN "pass" ELSE "fail")

\* What the runner does with the outcome of the call at the head of the plan:
\* answer is the adapter's, or `error` names why there is none.
Conclude(error, answer) ==
  LET call == Head(plan)
      unminted == substituted.unminted \cup (IF Mintable(call, substituted.nonces) THEN {} ELSE {call.op})
  IN  /\ substituted' = [nonces |-> NoncesAfter(substituted.nonces, call, answer), unminted |-> unminted]
      /\ CASE call.kind = "init" ->
                IF error = "none" THEN GoOn ELSE exit' = 2 /\ plan' = <<>> /\ UNCHANGED <<results, at>>
           [] call.kind = "ignored" -> GoOnOrPass(unminted)
           [] call.kind = "precondition" ->
                IF error = "none" /\ answer.code = "ok" THEN GoOnOrPass(unminted) ELSE EndFixture("skip")
           [] call.kind = "step" ->
                IF error = "OpNotSupported" THEN EndFixture("skip")
                ELSE IF error # "none" \/ ~Meets(answer, call) THEN EndFixture("fail")
                ELSE GoOnOrPass(unminted)

\* What an id-checked answer means: the adapter may itself say it lacks the operation.
Received(answer) ==
  Conclude(IF answer.code = "OP_NOT_SUPPORTED" THEN "OpNotSupported" ELSE "none", answer)

----------------------------------------------------------------------------
(* The subprocess adapter.                                                 *)

CfInit ==
  /\ suite \in Suites
  /\ options \in RunOptions
  /\ announced = FALSE
  /\ at = 1
  /\ plan = <<Call("init", "init", 0)>>
  /\ substituted = NothingIssued
  /\ results = <<>>
  /\ requestId = 0
  /\ waiting = 0
  /\ stdin = <<>>
  /\ channel = <<>>
  /\ adapter = AdapterState({}, "wall")
  /\ alive = TRUE
  /\ exit = Running
  /\ claims = {}
  /\ faults = 0

\* A report covers the whole set: no flag may narrow the run.
FlagsRefused == options.report /\ options.fail_fast

RefuseFlags ==
  /\ exit = Running /\ FlagsRefused /\ requestId = 0
  /\ exit' = 2 /\ plan' = <<>>
  /\ UNCHANGED <<cfRun, announced, at, substituted, results, waiting, cfProcess, claims, faults>>

StartFixture ==
  /\ exit = Running /\ plan = <<>> /\ at <= Len(suite)
  /\ LET skip == ShouldSkip(suite[at])
     IN  IF skip = "no"
         THEN /\ plan' = Plan(suite[at])
              /\ substituted' = NothingIssued
              /\ announced' = TRUE
              /\ UNCHANGED <<results, at>>
         ELSE /\ results' = Append(results, skip)
              /\ at' = at + 1
              /\ UNCHANGED <<plan, substituted, announced>>
  /\ UNCHANGED <<cfRun, waiting, cfProcess, exit, claims, faults>>

\* execute: an operation the adapter did not announce is not sent; a write to a dead
\* process fails.
SendRaw ==
  /\ exit = Running /\ ~FlagsRefused /\ plan # <<>> /\ waiting = 0
  /\ LET call == Head(plan)
     IN  IF call.op \notin SupportedOps
         THEN /\ Conclude("OpNotSupported", Success)
              /\ UNCHANGED <<waiting, requestId, stdin>>
         ELSE IF ~alive
         THEN /\ Conclude("Io", Success)
              /\ requestId' = requestId + 1
              /\ UNCHANGED <<waiting, stdin>>
         ELSE /\ requestId' = requestId + 1
              /\ waiting' = requestId'
              /\ stdin' = Append(stdin, [id |-> requestId', op |-> call.op,
                                         arg |-> Substitute(call, substituted.nonces)])
              /\ UNCHANGED <<results, plan, at, exit, substituted>>
  /\ UNCHANGED <<cfRun, announced, channel, adapter, alive, claims, faults>>

\* The answer at the head of the channel; one of another request is malformed.
Accept(line) ==
  IF line.id # waiting THEN Conclude("MalformedResponse", Success) ELSE Received(line.answer)

ReceiveLine ==
  /\ exit = Running /\ waiting # 0 /\ channel # <<>>
  /\ Accept(Head(channel))
  /\ channel' = Tail(channel)
  /\ waiting' = 0
  /\ UNCHANGED <<cfRun, announced, requestId, stdin, adapter, alive, claims, faults>>

TimeOutOrEof ==
  /\ exit = Running /\ waiting # 0 /\ channel = <<>>
  /\ \/ faults < MaxFaults /\ faults' = faults + 1 /\ Conclude("Timeout", Success)
     \/ ~alive /\ UNCHANGED faults /\ Conclude("ProcessDied", Success)
  /\ waiting' = 0
  /\ UNCHANGED <<cfRun, announced, cfProcess, claims>>

----------------------------------------------------------------------------
(* The gate and the report.                                                *)

Requires(profile, f) == IF profile = "v0.1" THEN f.required_for_v0_1 ELSE f.required_for_core

\* A gate that only a failed fixture closes.
CheckGateFailures == \A k \in DOMAIN results : Requires(options.profile, suite[k]) => results[k] # "fail"

CheckGate ==
  \A k \in DOMAIN results : Requires(options.profile, suite[k]) => results[k] \in {"pass", "negated"}

FeatureClaims == {"aitp-pinned-admission", "aitp-self-attestation"}

\* Reserved fixtures are not in the report; a claim on a feature needs a fixture of it.
BuildReport ==
  LET entries == {k \in DOMAIN results : suite[k].status # "reserved"}
      ofFeature(x) == {k \in entries : suite[k].feature = x}
  IN  (IF \A k \in entries : suite[k].status = "core" /\ suite[k].required_for_core => results[k] = "pass"
       THEN {"AITP v0.3"} ELSE {}) \cup
      {x \in FeatureClaims \cap options.features :
         ofFeature(x) # {} /\ \A k \in ofFeature(x) : results[k] = "pass"}

\* The run is over. The report may not be writable; the adapter is shut down and killed.
FinishRun ==
  /\ exit = Running /\ plan = <<>> /\ at > Len(suite)
  /\ \/ /\ options.report
        /\ claims' = BuildReport
        /\ exit' = IF "fail" \in {results[k] : k \in DOMAIN results} \/ ~CheckGate THEN 1 ELSE 0
     \/ options.report /\ UNCHANGED claims /\ exit' = 2
     \/ /\ ~options.report
        /\ UNCHANGED claims
        /\ exit' = IF "fail" \in {results[k] : k \in DOMAIN results} \/ ~CheckGate THEN 1 ELSE 0
  /\ alive' = FALSE /\ stdin' = <<>> /\ channel' = <<>>
  /\ UNCHANGED <<cfRun, announced, at, plan, substituted, results, requestId, waiting, adapter, faults>>

CfNext ==
  \/ AdapterServes \/ AdapterDies
  \/ RefuseFlags \/ StartFixture \/ SendRaw \/ ReceiveLine \/ TimeOutOrEof \/ FinishRun

CfSpec == CfInit /\ [][CfNext]_cfVars

----------------------------------------------------------------------------
(* The reference: a fixture's calls served one after the other, by an      *)
(* adapter that is called directly.                                        *)

\* A call, made after others that left a state and nonces behind.
AnswerTo(before, call) == Handle(before.st, call.op, Substitute(call, before.nonces))[2]
AfterCall(before, call) ==
  [st |-> Handle(before.st, call.op, Substitute(call, before.nonces))[1],
   nonces |-> NoncesAfter(before.nonces, call, AnswerTo(before, call))]

Serving(f, st) ==
  LET run[k \in 0 .. Len(Calls(f))] ==
        IF k = 0 THEN [st |-> st, nonces |-> <<>>] ELSE AfterCall(run[k - 1], Calls(f)[k])
  IN  run

\* The answer a fixture wants of a call: any from those that set the stage.
Wanted(call, answer) ==
  \/ call.kind = "ignored"
  \/ /\ call.op \in SupportedOps /\ answer.code # "OP_NOT_SUPPORTED"
     /\ IF call.kind = "precondition" THEN answer.code = "ok" ELSE Meets(answer, call)

ConformsOn(f, st) ==
  \A k \in 1 .. Len(Calls(f)) :
    LET before == Serving(f, st)[k - 1]
        call == Calls(f)[k]
    IN  Wanted(call, AnswerTo(before, call)) /\ Mintable(call, before.nonces)

\* What the fixtures before each of a set may leave behind, each of them served as far
\* as it may get.
StatesBefore(fixtures, features) ==
  LET left[k \in 1 .. Len(fixtures) + 1] ==
        IF k = 1 THEN {AdapterState(features, "wall")}
        ELSE {Serving(fixtures[k - 1], st)[n].st : st \in left[k - 1], n \in 0 .. Len(Calls(fixtures[k - 1]))}
  IN  left

\* Assumed of the fixtures: none depends on what another leaves behind. A sequence's
\* state is dropped by begin_fixture; what the adapter keeps for a whole run (revoked
\* ids, seen message ids, challenges, sessions) they name with ids of their own.
IsSequence(s) == s \in Seq({s[k] : k \in DOMAIN s})
ASSUME FixturesAreIndependent ==
  \A fixtures \in Suites :
    /\ IsSequence(fixtures)
    /\ \A k \in DOMAIN fixtures :
         /\ IsSequence(fixtures[k].preconditions) /\ IsSequence(fixtures[k].steps)
         /\ \A o \in RunOptions : \A st \in StatesBefore(fixtures, o.features)[k] :
              ConformsOn(fixtures[k], st) <=> ConformsOn(fixtures[k], AdapterState(o.features, "reference"))

----------------------------------------------------------------------------
(* Properties.                                                             *)

\* A fixture passes on an adapter that has served nothing else.
Conforms(f) == ConformsOn(f, AdapterState(options.features, "reference"))

Fixtures == {suite[k] : k \in DOMAIN suite}

\* The verdict of a run is earned. Exit status 0, and a claim in the report, are given
\* only when each fixture they stand for passes on an adapter of its own, whatever
\* timed out, arrived late or died on the way; and a run in which nothing went wrong
\* gives 0 when all it selected conforms. Behind it: the request id of a line is
\* compared (subprocess.rs:87), a fixture starts from begin_fixture (executor.rs:236),
\* a skip of a required fixture fails the gate (gate.rs:95).
VerdictEarned ==
  /\ exit = 0 => \A f \in Fixtures : Requires(options.profile, f) /\ ~Negated(f) => Conforms(f)
  /\ "AITP v0.3" \in claims =>
       \A f \in Fixtures : f.status = "core" /\ f.required_for_core => Conforms(f)
  /\ \A x \in claims \ {"AITP v0.3"} :
       \A f \in Fixtures : f.feature = x /\ f.status # "reserved" => Conforms(f)
  /\ (exit = 1 /\ faults = 0) =>
       \E f \in Fixtures :
         \/ ShouldSkip(f) = "no" /\ ~Conforms(f)
         \/ ShouldSkip(f) = "skip" /\ Requires(options.profile, f)
=============================================================================
