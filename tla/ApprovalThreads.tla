---------------------------- MODULE ApprovalThreads ----------------------------
(***************************************************************************)
(* validate_and_consume and issue as threads execute them (approval/        *)
(* store.py): a lock, a read of the entry, checks against the clock, a      *)
(* write back.  Time passes between any two steps.                          *)
(*                                                                          *)
(*   outside -> waiting -> locked -> read -> judged -> done                 *)
(***************************************************************************)
EXTENDS ApprovalStore

CONSTANTS
  Caller,     \* threads that call validate_and_consume, once each
  Issuer,     \* threads that call issue
  Question    \* what callers present: the token, the tool, the context of the call

ThreadsAssumption ==
  /\ Question \subseteq [token : Token \cup NoToken, tool : Tool, by : Context]
  /\ None \notin Caller \cup ApprovalStatus \cup [token : Token, grant : Grant]
ASSUME ThreadsAssumption

VARIABLES
  holder,     \* _lock: the caller inside the critical section, or None
  at,         \* where each caller is
  question,   \* its arguments
  local,      \* the entry it read
  status,     \* the status of the result it will return
  draft       \* the token and grant an issuer has built but not yet stored

tvars == <<entries, clock, holder, at, question, local, status, draft>>

Place == {"outside", "waiting", "locked", "read", "judged", "done"}

ThreadsTypeOK ==
  /\ StoreTypeOK
  /\ holder \in Opt(Caller)
  /\ at \in [Caller -> Place]
  /\ question \in [Caller -> Opt(Question)]
  /\ local \in [Caller -> Opt(Entry)]
  /\ status \in [Caller -> Opt(ApprovalStatus)]
  /\ draft \in [Issuer -> Opt([token : Token, grant : Grant])]

ThreadsInit ==
  /\ StoreInit
  /\ holder = None
  /\ at = [c \in Caller |-> "outside"]
  /\ question = [c \in Caller |-> None]
  /\ local = [c \in Caller |-> None]
  /\ status = [c \in Caller |-> None]
  /\ draft = [i \in Issuer |-> None]

MoveTo(c, place) == at' = [at EXCEPT ![c] = place]

\* A missing or blank token is answered before the lock is taken.
Present(c, q) ==
  /\ at[c] = "outside"
  /\ question' = [question EXCEPT ![c] = q]
  /\ IF q.token \in NoToken
     THEN status' = [status EXCEPT ![c] = "missing"] /\ MoveTo(c, "done")
     ELSE MoveTo(c, "waiting") /\ UNCHANGED status
  /\ UNCHANGED <<store, holder, local, draft>>

LockFree_NotTested == TRUE      \* seeded fault: the lock excludes nobody
LockFree == holder = None

AcquireLock(c) ==
  /\ at[c] = "waiting" /\ LockFree
  /\ holder' = c
  /\ MoveTo(c, "locked")
  /\ UNCHANGED <<store, question, local, status, draft>>

\* entry = self._entries.get(presented)
ReadEntry(c) ==
  /\ at[c] = "locked"
  /\ local' = [local EXCEPT ![c] = entries[question[c].token]]
  /\ MoveTo(c, "read")
  /\ UNCHANGED <<store, holder, question, status, draft>>

\* The checks, on the local entry; is_expired reads the clock now.
Judge(c) ==
  /\ at[c] = "read"
  /\ status' = [status EXCEPT ![c] =
       VerdictOnEntry(local[c], question[c].tool, question[c].by, clock)]
  /\ MoveTo(c, "judged")
  /\ UNCHANGED <<store, holder, question, local, draft>>

\* The write back, made from the local copy, and the end of the with block.
WriteBack_Pops(c) ==            \* seeded fault: a granted entry is popped
  IF status[c] = "granted" THEN entries' = [entries EXCEPT ![question[c].token] = None]
  ELSE UNCHANGED entries
WriteBack(c) ==
  IF status[c] = "granted"
  THEN entries' = [entries EXCEPT ![question[c].token] = Consumed(local[c])]
  ELSE UNCHANGED entries

NextHolder_GrantKeeps(c) ==     \* seeded fault: the granting return skips the release
  IF status[c] = "granted" THEN c ELSE None
NextHolder(c) == None

Finish(c) ==
  /\ at[c] = "judged"
  /\ WriteBack(c)
  /\ holder' = NextHolder(c)
  /\ MoveTo(c, "done")
  /\ UNCHANGED <<clock, question, local, status, draft>>

\* issue draws a fresh token and computes the expiry outside the lock ...
Fresh(t) == entries[t] = None /\ \A i \in Issuer : (draft[i] # None => draft[i].token # t)

BuildGrant(i, t, q) ==
  /\ draft[i] = None /\ Fresh(t) /\ q.ttl > 0
  /\ draft' = [draft EXCEPT ![i] = [token |-> t, grant |-> GrantFor(q, clock)]]
  /\ UNCHANGED <<store, holder, at, question, local, status>>

\* ... and stores the entry under it.
StoreGrant(i) ==
  /\ draft[i] # None /\ LockFree
  /\ entries' = [entries EXCEPT ![draft[i].token] = NewEntry(draft[i].grant)]
  /\ draft' = [draft EXCEPT ![i] = None]
  /\ UNCHANGED <<clock, holder, at, question, local, status>>

TimePasses == Tick /\ UNCHANGED <<holder, at, question, local, status, draft>>

CallerStep(c) == AcquireLock(c) \/ ReadEntry(c) \/ Judge(c) \/ Finish(c)

ThreadsNext ==
  \/ \E c \in Caller, q \in Question : Present(c, q)
  \/ \E c \in Caller : CallerStep(c)
  \/ \E i \in Issuer, t \in Token, q \in Issuable : BuildGrant(i, t, q)
  \/ \E i \in Issuer : StoreGrant(i)
  \/ TimePasses

ThreadsSpec == ThreadsInit /\ [][ThreadsNext]_tvars

\* The scheduler lets every thread that can go on do so.  A lock that others keep
\* taking need not come round, but each caller takes it once.
FairThreads == /\ ThreadsSpec
               /\ \A c \in Caller : WF_tvars(CallerStep(c))
               /\ \A i \in Issuer : WF_tvars(StoreGrant(i))

-------------------------------------------------------------------------------
(***************************************************************************)
(* Refinement: a question takes effect when it is judged, although its      *)
(* write back comes later; the lock hides the difference.                   *)
(***************************************************************************)
Pending(t) == \E c \in Caller : /\ at[c] = "judged" /\ status[c] = "granted"
                                /\ question[c].token = t

S == INSTANCE ApprovalService WITH
  entries <- [t \in Token |-> IF Pending(t) THEN Consumed(entries[t]) ELSE entries[t]],
  verdict <- [c \in Caller |-> IF status[c] = None THEN None
                               ELSE [question |-> question[c], status |-> status[c]]]

\* The threads together behave as the indivisible service: no interleaving shows
\* a caller an answer the service would not give.
ImplementsService == S!Service

\* Two callers are never told "granted" for the same single-use token.
GrantedToOne ==
  \A c, d \in Caller :
    c # d /\ status[c] = "granted" /\ status[d] = "granted"
          /\ question[c].token = question[d].token
    => ~local[c].grant.single

\* A stored grant is never lost to the write back of a caller that read earlier,
\* and never returns to unconsumed.
NoLostEntry ==
  [][\A t \in Token : entries[t] # None =>
       /\ entries'[t] # None /\ entries'[t].grant = entries[t].grant
       /\ entries[t].consumed => entries'[t].consumed]_tvars

\* Every caller gets its verdict.
EveryCallerServed == \A c \in Caller : at[c] = "waiting" ~> at[c] = "done"
==============================================================================
