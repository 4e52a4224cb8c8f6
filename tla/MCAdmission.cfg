SPECIFICATION MCSpec
SYMMETRY MCSymmetry
CONSTANTS
  t1 = t1 t2 = t2 i1 = i1 i2 = i2 n1 = n1 n2 = n2 v1 = v1
  NoRecord = NoRecord Absent = Absent
  Tasks <- MCTasks Presentations <- MCPresentations Ids <- MCIds
  Nonces <- MCNonces Verifiers <- MCVerifiers Self = v1
  Capacity = 2 DenyCapacity = 1 Ttl = 2 Tolerance = 1 MaxTime = 3
  here = here there = there ann = ann bob = bob cy = cy dan = dan j1 = j1 j2 = j2
  Agents = {here, there, ann, bob, cy, dan} Grants = {"echo", "more", "att"} Spaced = {}
  ATTESTATION_GRANT = "att" Jtis = {j1, j2} None = None
  Peer = here Elsewhere = there Holders = {ann, bob, cy, dan} Wild = {bob} ECHO_CAP = "echo"
  ENROL_CAP = 2 ENROL_TTL = 0 MAX_OUTSTANDING_CHALLENGES = 3 CHALLENGE_TTL = 0
  SESSION_TTL = 1 REQUEST_TIMEOUT = 1 TCT_TTL = 1 MANIFEST_TTL = 2 Signings <- MCSignings OtherTokens <- MCOtherTokens
  Requests = {t1, t2} MaxEnrolments = 5 MaxEchoes = 2 MaxSessions = 1 MaxRestarts = 1 MaxSeconds = 2
  Processes = {p1, p2, p3} Seeds = {s1, s2, s3, s4} NoFile = NoFile Unwritten = Unwritten
INVARIANTS
  OneAdmissionPerChallenge
  NoTwinInWindow
  EnrolmentSound
  EchoEarned
  KeyFileKept
PROPERTY
  SpentOnlyByVerified
