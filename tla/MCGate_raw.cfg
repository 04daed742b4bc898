CONSTANTS
  None = None
  t1 = t1
  t2 = t2
  alice = alice
  bob = bob
  req1 = req1
  proj1 = proj1
  empty = empty
  blank = blank
  Token = {t1, t2}
  Req = {r1, r2}
  Tool <- McTool
  Risk <- McRisk
  Subject = {alice, bob}
  ReqId = {req1}
  Project = {proj1}
  Empty = empty
  Blank = blank
  Issuable <- PromiseIssuable
  MaxClock = 2
  Attached = TRUE
  SecretSet = FALSE
  RequireAuth = FALSE
  SubjectId = alice
  Call <- PromiseCalls
  Limit = 1
  HasStore = TRUE
  Remote = FALSE
  EnvSecret = None
  EnvTokens = {}
  ToolErrors <- FaultErrors
  AuditorMayRaise = FALSE
SPECIFICATION Spec
SYMMETRY ReqSymmetry
INVARIANTS
  OnlyStructuredErrors
\* Clients may fall silent, and every call may have been answered.
CHECK_DEADLOCK FALSE
