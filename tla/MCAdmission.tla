---------------------------- MODULE MCAdmission ----------------------------
(***************************************************************************)
(* The ways in of a pinned key, for TLC: admission by a presentation, and  *)
(* enrolment at the interop peer, with the key file of the command line.   *)
(* They share no state; focus says which one moves.                        *)
(*                                                                         *)
(* Admission has two challenges; a presentation for the first, one for the *)
(* second under the same message id, and one that does not verify. In      *)
(* "enrolment" three holders enrol and none goes on; in "queue" two enrol  *)
(* one after the other, again and again; in "echo" one or two enrol,       *)
(* handshake and echo. Any of them signs any challenge; a fourth signs all *)
(* of them too, but for the other peer.                                    *)
(***************************************************************************)
EXTENDS Admission, InteropPeer, KeyFile, TLC

CONSTANTS t1, t2, i1, i2, n1, n2, v1,
          here, there, ann, bob, cy, dan, j1, j2

VARIABLE focus

mcVars == <<focus, vars, ipVars, kfVars>>

MCTasks == {t1, t2}
MCIds == {i1, i2}
MCNonces == {n1, n2}
MCVerifiers == {v1}
MCPresentations ==
  {[id |-> i1, nonce |-> n1, ts |-> 1, valid |-> TRUE],
   [id |-> i1, nonce |-> n2, ts |-> 2, valid |-> TRUE],
   [id |-> i2, nonce |-> n1, ts |-> 1, valid |-> TRUE],
   [id |-> i2, nonce |-> n2, ts |-> 1, valid |-> FALSE]}

\* A token of another peer and one of this peer that grants something else.
MCToken(iss, grants) ==
  [typ |-> "tct", signer |-> iss, flaw |-> "none", jti |-> j1, iss |-> iss, sub |-> ann, aud |-> ann,
   iat |-> 0, exp |-> 3, grants |-> grants, jkt |-> ann, ext |-> FALSE]
MCOtherTokens == {MCToken(there, {"echo"}), MCToken(here, {"more"})}

MCSymmetry == Permutations(MCTasks)

MCSignings == ({ann, bob, cy} \X {here} \X (1..5)) \cup ({dan} \X {there} \X (1..5))

\* Holders that have not come yet are interchangeable, and so are challenges of
\* one second that nobody has answered yet: the first of them is taken.
MCHolders == <<ann, bob, cy>>
Enrolling(h) == working[h].pc \in {"consume", "insert"}
HasCome(a) ==
  \/ \E k \in DOMAIN inserted : inserted[k].aid = a
  \/ \E h \in Requests : Enrolling(h) /\ working[h].body.aid = a
Untouched(k) ==
  /\ nonces[k] # None
  /\ \A h \in Requests : Enrolling(h) => working[h].body.nonce # k
InOrder == \A h \in Requests :
  working[h].pc = "idle" /\ working'[h].pc = "consume" =>
    LET r == working'[h].body
    IN  /\ nonces[r.nonce] # None
        /\ Untouched(r.nonce) =>
             \A k \in 1..(r.nonce - 1) : Untouched(k) => asked[k] # asked[r.nonce]
        /\ HasCome(r.aid) \/ \A i \in DOMAIN MCHolders :
             MCHolders[i] = r.aid => \A j \in 1..(i - 1) : HasCome(MCHolders[j])

\* A request whose challenge is gone when it arrives is not tried: it changes
\* nothing. One whose challenge goes while it is worked on is.
Timely == InOrder /\ \A h \in Requests :
  working[h].pc = "idle" =>
    /\ working'[h].pc = "consume" => nonces[working'[h].body.nonce] # None
    /\ working'[h].pc = "answer" => echo_nonces[working'[h].body.payload.nonce_echo] # None
EnrolmentsOnly ==
  seconds' <= 1 /\ Len(asked') <= 4 /\ Timely /\ routes' = routes /\ boot' = boot
\* Five enrolments of ann and bob, each in date and done before the next begins:
\* that is what it takes to outgrow the queue.
Queueing ==
  /\ asked' # asked \/ seconds' # seconds => Len(inserted) = Len(asked)
  /\ \A g, h \in Requests : working'[g].pc # "idle" /\ working'[h].pc # "idle" => g = h
  /\ \A h \in Requests : working'[h].pc = "consume" => working'[h].body.aid # cy
  /\ Timely /\ routes' = routes /\ boot' = boot
\* One holder, or ann and bob, each enrolled as soon as it has its challenge;
\* three of enrolments, echo challenges and restarts. Of requests that wait at
\* the same time both are echoes, and there is one token then: a COMMIT in
\* flight meets everything else.
Unanswered == \E k \in DOMAIN asked : Untouched(k)
Echoing ==
  /\ asked' # asked => \A h \in Requests : working[h].pc = "idle"
  /\ \A g, h \in Requests :
       working'[g].pc # "idle" /\ working'[h].pc # "idle" /\ g # h =>
         working'[g].pc = "answer" /\ working'[h].pc = "answer" /\ Cardinality(tcts') = 1
  /\ Unanswered => \E h \in Requests : working[h].pc = "idle" /\ working'[h].pc = "consume"
  /\ \A h \in Requests : Enrolling(h) => working'[h] # working[h]
  /\ keys' # keys => boot' # boot \/ inserted' # inserted \/ seconds = 2
  /\ seconds' <= 2 /\ Timely
  /\ Len(asked') <= 2 /\ (Len(asked') = 2 => inserted' # << >>)
  /\ Len(asked') + Len(challenged') + boot'.restarts <= 3
  /\ Cardinality(tcts') + Len(challenged') <= 3
  /\ \A e \in answers' \ answers : e.payload.nonce_echo = Len(challenged)

MCInit ==
  /\ focus \in {"admission", "enrolment", "queue", "echo", "key file"}
  /\ Init /\ IpInit /\ KfInit
MCNext ==
  \/ focus = "admission" /\ Next /\ UNCHANGED <<focus, ipVars, kfVars>>
  \/ focus = "enrolment" /\ IpNext /\ EnrolmentsOnly /\ UNCHANGED <<focus, vars, kfVars>>
  \/ focus = "queue" /\ IpNext /\ Queueing /\ UNCHANGED <<focus, vars, kfVars>>
  \/ focus = "echo" /\ IpNext /\ Echoing /\ UNCHANGED <<focus, vars, kfVars>>
  \/ focus = "key file" /\ KfNext /\ UNCHANGED <<focus, vars, ipVars>>
MCSpec == MCInit /\ [][MCNext]_mcVars
=============================================================================
