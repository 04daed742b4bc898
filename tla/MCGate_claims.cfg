CONSTANTS
  None = None
  t1 = t1
  t2 = t2
  alice = alice
  bob = bob
  req1 = req1
  proj1 = proj1
  empty = empty
  blank = blank
  Token = {t1, t2}
  Req = {r1, r2}
  Tool <- McTool
  Risk <- McRisk
  Subject = {alice, bob}
  ReqId = {req1}
  Project = {proj1}
  Empty = empty
  Blank = blank
  Issuable = {}
  MaxClock = 2
  Attached = TRUE
  SecretSet = FALSE
  RequireAuth = FALSE
  SubjectId = alice
  Call <- StorelessCalls
  Limit = 2
  HasStore = FALSE
  Remote = FALSE
  EnvSecret = None
  EnvTokens = {t1, blank}
  ToolErrors <- FaultErrors
  AuditorMayRaise = FALSE
SPECIFICATION Spec
SYMMETRY ReqSymmetry
INVARIANTS
  ClaimsAreNotTrusted
\* Clients may fall silent, and every call may have been answered.
CHECK_DEADLOCK FALSE
