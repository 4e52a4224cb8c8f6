---------------------------- MODULE MCNonceStore ----------------------------
(***************************************************************************)
(* NonceStore for TLC: two threads, nonces in two shards. Of the two slots *)
(* of the run, focus "full" fills one first, with n3 and for longer than   *)
(* the run lasts, so that issues, sweeps and consumes of n1 and n2 meet at *)
(* the bound. In "twice" both threads issue and consume n1 and no other,   *)
(* and come upon it in the map. In "heap" one thread issues n1 again and   *)
(* again beside n3, and the heap of their shard is rebuilt. Both verifiers *)
(* consume; where two threads run, v1 is the one that issues.              *)
(***************************************************************************)
EXTENDS NonceStore, TLC

CONSTANTS c1, c2, n1, n2, n3, v1, v2

VARIABLE focus

MCTwoCallers == {c1, c2}
MCNonces == {n1, n2}
MCThreeNonces == {n1, n2, n3}
MCTwoVerifiers == {v1, v2}
MCOneVerifier == {v1}
MCOneNonceEach == (n1 :> 1) @@ (n2 :> 2)
MCTwoInOne == (n1 :> 1) @@ (n2 :> 2) @@ (n3 :> 1)
MCShortTtls == {0, 1}
MCThisSecondOrLong == {0, 5}
MCSymmetry == Permutations(MCTwoCallers)

Begins(c) == pc[c] = "idle" /\ pc'[c] # "idle"
Issues(c, n) == args'[c].op = "issue" /\ args'[c].nonce = n
Handles(c, S) == args'[c].op # "sweep" => args'[c].nonce \in S
Lasts(c, d) == args'[c].op = "issue" => args'[c].rec.expires_at = clock + d
For(c, v) == args'[c].op = "issue" => args'[c].rec.verifier = v
AllIdle == \A c \in Callers : pc[c] = "idle"

Filled == issued[n3] = 1 /\ \A c \in Callers : pc[c] # "idle" =>
            ~(args[c].op = "issue" /\ args[c].nonce = n3)
Full ==
  /\ \A c \in Callers : Begins(c) /\ ~Filled => AllIdle /\ Issues(c, n3) /\ Lasts(c, 5) /\ For(c, v1)
  /\ \A c \in Callers : Begins(c) /\ Filled =>
       Handles(c, {n1, n2}) /\ Lasts(c, 0) /\ For(c, v1) /\ \A n \in Nonces : Issues(c, n) => issued[n] = 0
  /\ clock' # clock => Filled

Twice == \A c \in Callers : Begins(c) => Handles(c, {n1}) /\ Lasts(c, 0) /\ For(c, v1)

Heap == \A c \in Callers : Begins(c) => AllIdle /\ Handles(c, {n1, n3}) /\ Lasts(c, 5)

MCInit == focus \in {"full", "twice", "heap"} /\ Init
MCNext ==
  /\ Next
  /\ \/ focus = "full" /\ Full
     \/ focus = "twice" /\ Twice
     \/ focus = "heap" /\ Heap
  /\ UNCHANGED focus
MCSpec == MCInit /\ [][MCNext]_<<focus, vars>>

\* The store as it is, within the bounds of the .cfg.
MCFreeSpec == focus = "any" /\ Init /\ [][Next /\ UNCHANGED focus]_<<focus, vars>>
=============================================================================
