---------------------------- MODULE MCRevocation ----------------------------
(***************************************************************************)
(* Revocation for TLC: A revokes and advertises its list, B serves an      *)
(* empty one that its Manifest does not advertise; A's clock is ahead.     *)
(***************************************************************************)
EXTENDS Revocation, TLC

CONSTANTS t1, t2, A, B, j

MCTasks == {t1, t2}
MCIssuers == {A, B}
MCProducers == {A}
MCAdvertises == {A}
MCTokens == {j}
MCIssuerOf == j :> A
MCAhead == (A :> 1) @@ (B :> 0)
MCModes == {"open", "closed", "soft", "unadvertised"}
MCClosed == {"closed"}
=============================================================================
