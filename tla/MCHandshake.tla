---------------------------- MODULE MCHandshake ----------------------------
(***************************************************************************)
(* Handshake for TLC: two initiator and three responder objects, so that a *)
(* duplicated HELLO meets two attempts of the same agent; A runs this code *)
(* and B one that issues any TCT; B's clock is one second ahead, and its   *)
(* Manifest expires within the run.                                        *)
(***************************************************************************)
EXTENDS Handshake, TLC

CONSTANTS A, B, i1, i2, r1, r2, r3, g, h, k

MCAgents == {A, B}
MCInitiators == {i1, i2}
MCResponders == {r1, r2, r3}
MCGrants == {g, h, k}
MCOffered == (A :> {g, h}) @@ (B :> {g, h})
MCRequired == (A :> {g}) @@ (B :> {})
MCRequested == (A :> {g, h}) @@ (B :> {g})
MCManifestExp == (A :> 3) @@ (B :> 2)
MCTrusts == (A :> {A, B}) @@ (B :> {A, B})
MCSkew == (A :> 0) @@ (B :> 1)
MCPolicies == {{g, h}, {h}}
MCSafe == {{h}}
MCLax == {B}
MCSymmetry == Permutations(MCInitiators) \cup Permutations(MCResponders)
=============================================================================
