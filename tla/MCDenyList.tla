----------------------------- MODULE MCDenyList -----------------------------
(***************************************************************************)
(* DenyList for TLC: two threads, three message ids in two shards.         *)
(***************************************************************************)
EXTENDS DenyList, TLC

CONSTANTS c1, c2, i1, i2, i3

MCCallers == {c1, c2}
MCIds == {i1, i2, i3}
MCShardOf == (i1 :> 1) @@ (i2 :> 2) @@ (i3 :> 2)
MCWindows == {0}
=============================================================================
