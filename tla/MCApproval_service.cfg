CONSTANTS
  None = None
  t1 = t1
  t2 = t2
  alice = alice
  req1 = req1
  proj1 = proj1
  empty = empty
  blank = blank
  Token = {t1, t2}
  Tool = {"mark", "read"}
  Subject = {alice}
  ReqId = {req1}
  Project = {proj1}
  Empty = empty
  Blank = blank
  Issuable <- McIssuable
  MaxClock = 2
  Caller = {c1, c2}
  Issuer = {i1, i2}
  Question <- McQuestion
SPECIFICATION FairThreads
INVARIANTS
  ThreadsTypeOK
  GrantedToOne
PROPERTIES
  ImplementsService
  NoLostEntry
  EveryCallerServed
\* Every caller may have been answered and every token issued.
CHECK_DEADLOCK FALSE
