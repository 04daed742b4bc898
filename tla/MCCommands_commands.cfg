CONSTANTS
  a = a
  b = b
  Req = {a, b}
  Thread = {a, b}
  Token = {t1}
  None = None
  Limit = 1
  Guarded = TRUE
  Id = {id1, id2}
  NoId = NoId
  MaxScopes <- McScopes
  Operation <- McOperations
  Reply <- McReplies
  MaxChanges = 1
SPECIFICATION FairSpec
INVARIANTS
  TypeOK
  OneOrderPerGrant
  FailureIsHonest
  ChildrenBounded
  NothingMadeUp
  SentUnderInnermostId
PROPERTIES
  EveryCommandEnds
\* Calls that have been answered are the end.
CHECK_DEADLOCK FALSE
