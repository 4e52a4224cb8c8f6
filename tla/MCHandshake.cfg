SPECIFICATION Spec
CONSTANTS
  A = A
  B = B
  i1 = i1
  i2 = i2
  r1 = r1
  r2 = r2
  r3 = r3
  g = g
  h = h
  k = k
  None = None
  Agents <- MCAgents
  Initiators <- MCInitiators
  Responders <- MCResponders
  Grants <- MCGrants
  Offered <- MCOffered
  Required <- MCRequired
  Requested <- MCRequested
  ManifestExp <- MCManifestExp
  Trusts <- MCTrusts
  Policies <- MCPolicies
  SafeSubsets <- MCSafe
  Lax <- MCLax
  Skew <- MCSkew
  TctTtl = 2
  MaxTime = 3
SYMMETRY MCSymmetry
INVARIANTS
  ResponderAgreement
  InitiatorAgreement
  ReciprocalIssuance
  HeldSound
CHECK_DEADLOCK FALSE
