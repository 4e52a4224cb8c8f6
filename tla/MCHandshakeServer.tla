------------------------- MODULE MCHandshakeServer -------------------------
(***************************************************************************)
(* HandshakeServer for TLC: two requests at a time; two HELLOs and two     *)
(* COMMITs race for one place in the table. Some envelopes are stamped by  *)
(* a clock that is ahead.                                                  *)
(***************************************************************************)
EXTENDS HandshakeServer, TLC

CONSTANTS t1, t2, h1, h2, k1, k2, s1, s2

MCTasks == {t1, t2}
MCTwoHellos == {h1, h2}
MCTwoCommits == {k1, k2}
MCTwoSessions == {s1, s2}
MCStamps == (h1 :> 0) @@ (h2 :> 1) @@ (k1 :> 1) @@ (k2 :> 2)
MCSymmetryTwo == Permutations(MCTasks) \cup Permutations(MCTwoSessions)
=============================================================================
