CONSTANTS
  None = None
  alice = alice
  bob = bob
  Tool = {}
  Subject = {alice, bob}
  ReqId = {}
  Project = {}
  Task = {k1, k2}
  Handler = {h1, h2}
  SubjectId = alice
  EnvSecrets = {None, "right"}
  Request <- TwoClients
SPECIFICATION Spec
SYMMETRY Symmetry
INVARIANTS
  TypeOK
  SeesItsOwnRequest
  NothingLeftBehind
  TrustIsEarned
