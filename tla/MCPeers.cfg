SPECIFICATION PeersSpec
CHECK_DEADLOCK FALSE
SYMMETRY PeersSymmetry
CONSTANTS
  ann = ann bob = bob cy = cy h1 = h1 h2 = h2 n1 = n1 n2 = n2 x1 = x1 x2 = x2 x3 = x3
  j1 = j1 j2 = j2 k1 = k1 k2 = k2 l1 = l1 aid1 = aid1
  Nothing = Nothing Nil = Nil Unset = Unset None = None Missing = Missing
  Callers = {h1, h2} KeySets <- McKeySets PinnedKeys = Nothing
  FAIL_MODE = "FailClosed" SAFE_GRANTS = {} OFFLINE = FALSE
  CACHE_TTL = 1 NEGATIVE_TTL = 1 DISCOVERY_TTL = 1 TIMEOUT = 1
  GUARD_MODE = "DenyPrivate" ALLOW_LOOPBACK = FALSE
  DnsAnswers <- McDns TLS <- McTls Certificates <- McCerts MaxClock = 4
  Peers = {ann, bob, cy} Wild = {cy} Messages = {m1, m2} PopNonces = {n1, n2} Pinned = {ann, cy}
  SubjectBinding = "Unchecked" Anchors = {prov} Provider = prov Domain = dom
  JwksOf <- McJwks Authorities <- McAuthorities CaRoots = {"ca"}
  IatTolerance = 1 MaxProofs = 1 MaxNow = 2
  KmsKeys <- McKms KeyHolders <- McKeyHolders MAX_LEN = 128 Documents = {"manifest"} Claims = {"c"}
  Me = ann Agents = {ann, bob, cy} Jobs = {j1, j2} Handshakes = {j1}
  Grants = {"g", "k", "att"} Spaced = {} ATTESTATION_GRANT = "att" Jtis = {x1, x2, x3}
  MAX_ATTEMPTS = 2 INSECURE_LOCALHOST = FALSE HOST_GUARD = "RejectPrivate"
  Lookups <- McLookups MANIFEST_TTL = 1 MaxWall = 2
  Issuer = bob Holder = ann FirstGrants = {"g"} OFFERED = {"g", "k"} RenewalPolicies = {{"g", "k"}, {}}
  RENEWAL_TTL = 1 MANIFEST_EXPIRES_AT = 2 REFRESH_PERCENT = 200 TOLERANCE = 1
  RenewalNonces = {n1, n2} RenewHandlers = {h1, h2} MaxRenewalTime = 2 MaxRevoked = 1
  Coordinators = {bob, cy} TokenPool <- McPool SessionIds = {1} MAX_PARTICIPANTS = 2 MaxBundleTime = 2
  UNIT = 2 BURST = 1 PER_TICK = 1 MAX_SOURCES = 1 PRUNE_INTERVAL = 1
  TransportKeys = {k1, k2} Labels = {l1} Chargers = {h1, h2}
  Clients <- McClients Proxies <- McProxies ProxyAddress <- McProxyAddress ForgedHops <- McHops EdgeHop <- McEdgeHop
  PER_SOURCE = 2 PER_AID = 2 ClaimedAids = {aid1} WINDOW = 2 MaxInstant = 2
  PyAgent = ann JsAgent = bob CAPS <- McCaps REQUIRED_CAPS = {"g"} TTLS <- McTtls
  IDENTITY_TYPE = "pinned_key" PINNED_KEYS <- McPinned MAX_NONCES = 4
  BINDING_TCT_TTL = 1 RevokedLists <- McRevoked MAX_ENTRIES = 2 PresentedTokens <- McPresented
  MaxBindingTime = 3
  Suites <- McSuites RunOptions <- McOptions MAX_OUTSTANDING_NONCES = 1 MaxFaults = 2
INVARIANTS
  KeysSurviveRaces OnlyPermittedAddresses
  IdentityExact SigningExact ConnectSound
  NonceRenewsOnce RenewalsSound
  BundleExact RateHolds ClientBounded
  LatestHelloCompletes CacheSound
  VerdictEarned
