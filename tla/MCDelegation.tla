---------------------------- MODULE MCDelegation ----------------------------
(* Instances of Delegation: a verifier, an honest delegator and two others. *)
EXTENDS Delegation

CONSTANTS V, A, B, C, read, write, att, j1, j2, j3, j4

MCAgents == {V, A, B, C}
MCLax == {B}
MCGrants == {read, write, att}
MCJtis == {j1, j2, j3, j4}
MCManifestExp == [a \in MCAgents |-> IF a = V THEN None ELSE 3]
MCSoft == {C}
MCSafe == {read}
MCTtls == {0}
MCGrantTtls == {1}
MCGrantees == {A}
MCOffers == {{read, write}}
MCScopes == {{write}, {read, write}}
MCNone == {}
=============================================================================
