CONSTANTS
  None = None
  t1 = t1
  t2 = t2
  alice = alice
  bob = bob
  req1 = req1
  proj1 = proj1
  empty = empty
  blank = blank
  Token = {t1}
  Req = {r1, r2}
  Tool <- McTool
  Risk <- McRisk
  Subject = {alice, bob}
  ReqId = {req1}
  Project = {proj1}
  Empty = empty
  Blank = blank
  Issuable <- AuthIssuable
  MaxClock = 2
  Attached = TRUE
  SecretSet = TRUE
  RequireAuth = TRUE
  SubjectId = alice
  Call <- AuthCalls
  Limit = 1
  HasStore = TRUE
  Remote = TRUE
  EnvSecret = "right"
  EnvTokens = {t1}
  ToolErrors <- FaultErrors
  AuditorMayRaise = FALSE
SPECIFICATION Spec
SYMMETRY ReqSymmetry
INVARIANTS
  NothingWithoutIdentity
  RefusalIsClean
\* Clients may fall silent, and every call may have been answered.
CHECK_DEADLOCK FALSE
