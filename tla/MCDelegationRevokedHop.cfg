SPECIFICATION Spec
CONSTANTS
  V = V
  A = A
  B = B
  C = C
  read = read
  write = write
  att = att
  j1 = j1
  j2 = j2
  j3 = j3
  j4 = j4
  None = None
  Agents <- MCAgents
  Grants <- MCGrants
  Spaced <- MCNone
  ATTESTATION_GRANT = att
  Jtis <- MCJtis
  Verifier = V
  Lax <- MCLax
  ManifestExp <- MCManifestExp
  MAX_HOPS = 4
  Soft <- MCSoft
  SafeGrants <- MCSafe
  Ttls <- MCTtls
  GrantTtls <- MCGrantTtls
  Forgeries = 1
  MaxHops = 3
  MaxRevocations = 1
  MaxTime = 1
  Grantees <- MCGrantees
  OfferSets <- MCOffers
  Scopes <- MCScopes
  ClaimedScopes <- MCOffers
CHECK_DEADLOCK FALSE
INVARIANT
  RevokedHopConfersNothing
