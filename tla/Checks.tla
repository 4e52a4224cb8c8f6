------------------------------- MODULE Checks -------------------------------
(***************************************************************************)
(* A verifier of the code is a list of checks, each of which returns its   *)
(* error early. Here it is a sequence of pairs <<condition, error>>, and   *)
(* its verdict is the error of the first condition that does not hold.     *)
(***************************************************************************)
EXTENDS Integers, Sequences

Verdict(checks) ==
  LET failed == {k \in DOMAIN checks : ~checks[k][1]}
  IN  IF failed = {} THEN "ok"
      ELSE checks[CHOOSE k \in failed : \A l \in failed : k <= l][2]

\* A check that has a verdict of its own, as one of a longer list.
Sub(verdict) == <<verdict = "ok", verdict>>

Least(s, t) == IF s < t THEN s ELSE t
=============================================================================
