------------------------ MODULE ApprovalThreads_proofs ------------------------
(***************************************************************************)
(* Theorems about the approval store as threads run it, for any callers,    *)
(* issuers, questions and grants: the lock makes each question as good as   *)
(* indivisible.  A question takes effect when it is judged; between that    *)
(* and the write back the lock keeps everybody else away from the table.    *)
(***************************************************************************)
EXTENDS ApprovalThreads, TLAPS

Critical(c) == at[c] \in {"locked", "read", "judged"}

\* Where a caller is, and what it knows there.
CallerShape(c) ==
  /\ Critical(c) <=> holder = c
  /\ at[c] \in {"outside", "waiting", "locked", "read"} => status[c] = None
  /\ at[c] # "outside" => question[c] \in Question
  /\ at[c] \in {"judged", "done"} => status[c] \in ApprovalStatus
  /\ Critical(c) \/ at[c] = "waiting" => question[c].token \in Token
  /\ at[c] \in {"read", "judged"} => local[c] = entries[question[c].token]
  /\ at[c] = "judged" /\ status[c] = "granted" => local[c] \in Entry /\ ~Spent(local[c])

\* The entry a caller was granted stays on record, marked if it is single-use.
GrantShape(c) ==
  at[c] = "done" /\ status[c] = "granted" =>
    LET e == entries[question[c].token] IN
    /\ question[c].token \in Token /\ local[c] \in Entry /\ e \in Entry
    /\ e.grant = local[c].grant
    /\ e.grant.single => e.consumed

\* What an issuer has built is for a token that nobody else has, and was built
\* from the arguments of an issue.
DraftShape(i) ==
  draft[i] # None =>
    /\ entries[draft[i].token] = None
    /\ \A j \in Issuer : draft[j] # None /\ draft[j].token = draft[i].token => i = j
    /\ \E q \in Issuable, born \in 0..clock :
         q.ttl > 0 /\ draft[i].grant = GrantFor(q, born)

ThreadsInv ==
  /\ ThreadsTypeOK
  /\ \A c \in Caller : CallerShape(c) /\ GrantShape(c)
  /\ \A i \in Issuer : DraftShape(i)

-------------------------------------------------------------------------------
\* The status of an answer is one of the declared; what is granted is an entry
\* that is not spent.
LEMMA VerdictType ==
  ASSUME NEW e, NEW tool, NEW by, NEW now
  PROVE  /\ VerdictOnEntry(e, tool, by, now) \in ApprovalStatus
         /\ VerdictOnEntry(e, tool, by, now) = "granted" => e # None /\ ~Spent(e)
BY DEF VerdictOnEntry, ApprovalStatus

\* Consuming an entry gives an entry with the same grant, marked if single-use.
LEMMA ConsumedEntry ==
  ASSUME NEW e \in Entry
  PROVE  /\ Consumed(e) \in Entry /\ Consumed(e).grant = e.grant
         /\ e.consumed => Consumed(e).consumed
         /\ e.grant.single => Consumed(e).consumed
BY DEF Consumed, Entry

\* A draft holds a grant, and a stored one is an entry.
LEMMA NewGrantType ==
  ASSUME NEW q \in Issuable, NEW born \in Nat
  PROVE  GrantFor(q, born) \in Grant
<1>1. q \in IssueArgs BY StoreAssumption DEF StoreAssumption
<1> QED  BY <1>1 DEF GrantFor, IssueArgs, Grant

LEMMA NewEntryType == ASSUME NEW g \in Grant PROVE NewEntry(g) \in Entry
BY DEF NewEntry, Entry

\* Two callers are never between the lock and its release.
LEMMA OneInside ==
  ASSUME ThreadsInv, NEW c \in Caller, NEW d \in Caller, Critical(c), Critical(d)
  PROVE  c = d
BY DEF ThreadsInv, CallerShape

LEMMA InitInv == ThreadsInit => ThreadsInv
<1> SUFFICES ASSUME ThreadsInit PROVE ThreadsInv
  OBVIOUS
<1>1. ThreadsTypeOK
  BY StoreAssumption
  DEF ThreadsInit, ThreadsTypeOK, StoreInit, StoreTypeOK, StoreAssumption, Opt, Place
<1>2. ASSUME NEW c \in Caller PROVE CallerShape(c) /\ GrantShape(c)
  BY ThreadsAssumption DEF ThreadsAssumption, ThreadsInit, CallerShape, GrantShape, Critical
<1>3. ASSUME NEW i \in Issuer PROVE DraftShape(i)
  BY DEF ThreadsInit, DraftShape
<1> QED  BY <1>1, <1>2, <1>3 DEF ThreadsInv

\* What the steps of callers change.
LEMMA TypeKept == ThreadsInv /\ [ThreadsNext]_tvars => ThreadsTypeOK'
<1> SUFFICES ASSUME ThreadsInv, [ThreadsNext]_tvars PROVE ThreadsTypeOK'
  OBVIOUS
<1>1. /\ entries \in [Token -> Entry \cup {None}] /\ clock \in 0..MaxClock /\ MaxClock \in Nat
      /\ holder \in Caller \cup {None} /\ at \in [Caller -> Place]
      /\ question \in [Caller -> Question \cup {None}] /\ local \in [Caller -> Entry \cup {None}]
      /\ status \in [Caller -> ApprovalStatus \cup {None}]
      /\ draft \in [Issuer -> [token : Token, grant : Grant] \cup {None}]
  BY StoreAssumption DEF ThreadsInv, ThreadsTypeOK, StoreTypeOK, StoreAssumption, Opt
<1> USE DEF ThreadsTypeOK, StoreTypeOK, Opt, store, MoveTo, Place
<1>2. ASSUME NEW c \in Caller, NEW q \in Question, Present(c, q) PROVE ThreadsTypeOK'
  <2>1. "missing" \in ApprovalStatus BY DEF ApprovalStatus
  <2>2. at' \in [Caller -> Place] /\ status' \in [Caller -> ApprovalStatus \cup {None}]
    BY <1>1, <1>2, <2>1 DEF Present
  <2> QED  BY <1>1, <1>2, <2>2 DEF Present
<1>3. ASSUME NEW c \in Caller, AcquireLock(c) PROVE ThreadsTypeOK'
  BY <1>1, <1>3 DEF AcquireLock
<1>4. ASSUME NEW c \in Caller, ReadEntry(c) PROVE ThreadsTypeOK'
  <2>1. question[c].token \in Token
    BY <1>4 DEF ThreadsInv, CallerShape, Critical, ReadEntry
  <2>2. entries[question[c].token] \in Entry \cup {None} BY <1>1, <2>1
  <2> QED  BY <1>1, <1>4, <2>2 DEF ReadEntry
<1>5. ASSUME NEW c \in Caller, Judge(c) PROVE ThreadsTypeOK'
  BY <1>1, <1>5, VerdictType DEF Judge
<1>6. ASSUME NEW c \in Caller, Finish(c) PROVE ThreadsTypeOK'
  <2>1. entries' \in [Token -> Entry \cup {None}]
    <3>1. CASE status[c] = "granted"
      <4>1. local[c] \in Entry /\ at[c] = "judged"
        BY <1>6, <3>1 DEF ThreadsInv, CallerShape, Finish
      <4>2. Consumed(local[c]) \in Entry BY <4>1, ConsumedEntry
      <4> QED  BY <1>1, <1>6, <3>1, <4>2 DEF Finish, WriteBack
    <3>2. CASE status[c] # "granted"
      BY <1>1, <1>6, <3>2 DEF Finish, WriteBack
    <3> QED  BY <3>1, <3>2
  <2> QED  BY <1>1, <1>6, <2>1 DEF Finish, NextHolder
<1>7. ASSUME NEW i \in Issuer, NEW t \in Token, NEW q \in Issuable, BuildGrant(i, t, q)
      PROVE  ThreadsTypeOK'
  <2>1. GrantFor(q, clock) \in Grant BY <1>1, NewGrantType
  <2> QED  BY <1>1, <1>7, <2>1 DEF BuildGrant
<1>8. ASSUME NEW i \in Issuer, StoreGrant(i) PROVE ThreadsTypeOK'
  <2>1. draft[i].grant \in Grant /\ draft[i].token \in Token BY <1>1, <1>8 DEF StoreGrant
  <2>2. NewEntry(draft[i].grant) \in Entry BY <2>1, NewEntryType
  <2> QED  BY <1>1, <1>8, <2>1, <2>2 DEF StoreGrant
<1>9. CASE TimePasses \/ UNCHANGED tvars
  BY <1>1, <1>9 DEF TimePasses, Tick, tvars
<1> QED
  BY <1>2, <1>3, <1>4, <1>5, <1>6, <1>7, <1>8, <1>9 DEF ThreadsNext, CallerStep

\* A caller keeps its shape when it does nothing and the entry it holds, if it
\* is inside, does not change.
Still(c) == UNCHANGED <<at[c], question[c], local[c], status[c]>>

LEMMA StillKept ==
  ASSUME NEW c \in Caller, CallerShape(c), Still(c), holder' = c <=> holder = c,
         Critical(c) => UNCHANGED entries
  PROVE  CallerShape(c)'
BY DEF CallerShape, Still, Critical

\* A step of a caller leaves every other one alone.
LEMMA OthersStill ==
  ASSUME ThreadsInv, NEW c \in Caller, NEW d \in Caller, c # d,
         CallerStep(d) \/ \E q \in Question : Present(d, q)
  PROVE  /\ Still(c) /\ (holder' = c <=> holder = c)
         /\ Critical(c) => UNCHANGED entries
<1> USE DEF Still, MoveTo, store
<1>1. /\ at \in [Caller -> Place] /\ question \in [Caller -> Opt(Question)]
      /\ local \in [Caller -> Opt(Entry)] /\ status \in [Caller -> Opt(ApprovalStatus)]
  BY DEF ThreadsInv, ThreadsTypeOK
<1>2. None # c BY ThreadsAssumption DEF ThreadsAssumption
<1>3. CASE \E q \in Question : Present(d, q)
  BY <1>1, <1>3 DEF Present
<1>4. CASE AcquireLock(d)
  BY <1>1, <1>2, <1>4 DEF AcquireLock, LockFree
<1>5. CASE ReadEntry(d)
  BY <1>1, <1>5 DEF ReadEntry
<1>6. CASE Judge(d)
  BY <1>1, <1>6 DEF Judge
<1>7. CASE Finish(d)
  <2>1. Critical(d) /\ holder = d /\ ~Critical(c)
    BY <1>7, OneInside DEF Finish, Critical, ThreadsInv, CallerShape
  <2> QED  BY <1>1, <1>2, <1>7, <2>1 DEF Finish, NextHolder
<1> QED  BY <1>3, <1>4, <1>5, <1>6, <1>7 DEF CallerStep

LEMMA CallerKept ==
  ASSUME ThreadsInv, [ThreadsNext]_tvars, NEW c \in Caller
  PROVE  CallerShape(c)'
<1> USE DEF MoveTo, store
<1>1. /\ CallerShape(c) /\ at \in [Caller -> Place] /\ question \in [Caller -> Opt(Question)]
      /\ local \in [Caller -> Opt(Entry)] /\ status \in [Caller -> Opt(ApprovalStatus)]
      /\ entries \in [Token -> Entry \cup {None}]
  BY DEF ThreadsInv, ThreadsTypeOK, StoreTypeOK
<1>2. None # c BY ThreadsAssumption DEF ThreadsAssumption
<1>3. ASSUME NEW q \in Question, Present(c, q) PROVE CallerShape(c)'
  <2>1. q.token \in Token \cup NoToken
    BY ThreadsAssumption DEF ThreadsAssumption
  <2>2. at[c] = "outside" /\ UNCHANGED <<holder, local, entries>> /\ question'[c] = q
    BY <1>1, <1>3 DEF Present
  <2>3. status[c] = None /\ holder # c
    BY <1>1, <2>2 DEF CallerShape, Critical
  <2>4. CASE q.token \in NoToken
    <3>1. at'[c] = "done" /\ status'[c] = "missing" BY <1>1, <1>3, <2>4 DEF Present
    <3> QED  BY <2>2, <2>3, <3>1 DEF CallerShape, Critical, ApprovalStatus
  <2>5. CASE q.token \notin NoToken
    <3>1. at'[c] = "waiting" /\ status'[c] = None BY <1>1, <1>3, <2>3, <2>5 DEF Present
    <3> QED  BY <2>1, <2>2, <2>3, <2>5, <3>1 DEF CallerShape, Critical
  <2> QED  BY <2>4, <2>5
<1>4. CASE AcquireLock(c)
  <2>1. /\ at[c] = "waiting" /\ at'[c] = "locked" /\ holder' = c
        /\ UNCHANGED <<question, local, status, entries>>
    BY <1>1, <1>4 DEF AcquireLock
  <2> QED  BY <1>1, <2>1 DEF CallerShape, Critical
<1>5. CASE ReadEntry(c)
  <2>1. /\ at[c] = "locked" /\ at'[c] = "read" /\ UNCHANGED <<holder, question, status, entries>>
        /\ local'[c] = entries[question[c].token]
    BY <1>1, <1>5 DEF ReadEntry
  <2> QED  BY <1>1, <2>1 DEF CallerShape, Critical
<1>6. CASE Judge(c)
  <2> DEFINE v == VerdictOnEntry(local[c], question[c].tool, question[c].by, clock)
  <2>1. /\ at[c] = "read" /\ at'[c] = "judged" /\ UNCHANGED <<holder, question, local, entries>>
        /\ status'[c] = v
    BY <1>1, <1>6 DEF Judge
  <2>2. v \in ApprovalStatus /\ (v = "granted" => local[c] # None /\ ~Spent(local[c]))
    BY VerdictType
  <2>3. local[c] \in Entry \cup {None} BY <1>1 DEF Opt
  <2> HIDE DEF v
  <2> QED  BY <1>1, <2>1, <2>2, <2>3 DEF CallerShape, Critical
<1>7. CASE Finish(c)
  <2>1. /\ at[c] = "judged" /\ at'[c] = "done" /\ holder' = None
        /\ UNCHANGED <<question, local, status>>
    BY <1>1, <1>7 DEF Finish, NextHolder
  <2> QED  BY <1>1, <1>2, <2>1 DEF CallerShape, Critical
<1>8. ASSUME NEW d \in Caller, c # d, CallerStep(d) \/ \E q \in Question : Present(d, q)
      PROVE  CallerShape(c)'
  BY <1>1, <1>8, OthersStill, StillKept
<1>9. CASE \/ \E i \in Issuer : StoreGrant(i)
           \/ \E i \in Issuer, t \in Token, q \in Issuable : BuildGrant(i, t, q)
           \/ TimePasses \/ UNCHANGED tvars
  <2>1. Still(c) /\ holder' = holder
    BY <1>9 DEF StoreGrant, BuildGrant, TimePasses, tvars, Still
  <2>2. Critical(c) => UNCHANGED entries
    <3>1. Critical(c) => holder # None BY <1>1, <1>2 DEF CallerShape
    <3> QED  BY <1>9, <3>1 DEF StoreGrant, LockFree, BuildGrant, TimePasses, Tick, tvars
  <2> QED  BY <1>1, <2>1, <2>2, StillKept
<1> QED
  BY <1>3, <1>4, <1>5, <1>6, <1>7, <1>8, <1>9 DEF ThreadsNext, CallerStep

-------------------------------------------------------------------------------
\* A stored entry keeps its grant and its mark.
Kept(t) == /\ entries'[t] # None /\ entries'[t].grant = entries[t].grant
           /\ entries[t].consumed => entries'[t].consumed

\* Only the write back of a granted question and a new grant write the table.
LEMMA Writers ==
  ASSUME [ThreadsNext]_tvars
  PROVE  \/ UNCHANGED entries
         \/ \E c \in Caller : Finish(c) /\ status[c] = "granted"
         \/ \E i \in Issuer : StoreGrant(i)
BY DEF ThreadsNext, CallerStep, Present, AcquireLock, ReadEntry, Judge, Finish, WriteBack,
       BuildGrant, TimePasses, Tick, tvars, store

\* A write back is made from a copy that is still true.
LEMMA EntryKept ==
  ASSUME ThreadsInv, [ThreadsNext]_tvars, NEW t \in Token, entries[t] # None
  PROVE  Kept(t) /\ entries'[t] \in Entry
<1>1. entries \in [Token -> Entry \cup {None}] /\ entries[t] \in Entry
  BY DEF ThreadsInv, ThreadsTypeOK, StoreTypeOK
<1>2. None \notin Entry BY StoreAssumption DEF StoreAssumption
<1>3. CASE UNCHANGED entries
  BY <1>1, <1>3 DEF Kept
<1>4. ASSUME NEW c \in Caller, Finish(c), status[c] = "granted" PROVE Kept(t) /\ entries'[t] \in Entry
  <2>1. /\ question[c].token \in Token /\ local[c] = entries[question[c].token]
        /\ entries' = [entries EXCEPT ![question[c].token] = Consumed(local[c])]
    BY <1>4 DEF Finish, WriteBack, ThreadsInv, CallerShape, Critical
  <2>2. entries'[t] = IF t = question[c].token THEN Consumed(entries[t]) ELSE entries[t]
    BY <1>1, <2>1
  <2> QED  BY <1>1, <1>2, <2>2, ConsumedEntry DEF Kept
<1>5. ASSUME NEW i \in Issuer, StoreGrant(i) PROVE Kept(t) /\ entries'[t] \in Entry
  <2>1. entries[draft[i].token] = None /\ draft[i] # None
    BY <1>5 DEF StoreGrant, ThreadsInv, DraftShape
  <2>2. entries'[t] = entries[t]
    BY <1>1, <1>5, <2>1 DEF StoreGrant
  <2> QED  BY <1>1, <1>2, <2>2 DEF Kept
<1> QED  BY <1>3, <1>4, <1>5, Writers

LEMMA GrantKept ==
  ASSUME ThreadsInv, [ThreadsNext]_tvars, NEW c \in Caller
  PROVE  GrantShape(c)'
<1> SUFFICES ASSUME at'[c] = "done", status'[c] = "granted"
             PROVE  /\ question'[c].token \in Token /\ local'[c] \in Entry
                    /\ entries'[question'[c].token] \in Entry
                    /\ entries'[question'[c].token].grant = local'[c].grant
                    /\ entries'[question'[c].token].grant.single =>
                         entries'[question'[c].token].consumed
  BY DEF GrantShape
<1>1. /\ CallerShape(c) /\ GrantShape(c) /\ at \in [Caller -> Place]
      /\ question \in [Caller -> Opt(Question)] /\ status \in [Caller -> Opt(ApprovalStatus)]
      /\ entries \in [Token -> Entry \cup {None}]
  BY DEF ThreadsInv, ThreadsTypeOK, StoreTypeOK
<1>2. None \notin Entry BY StoreAssumption DEF StoreAssumption
<1>3. CASE Finish(c)
  <2> DEFINE t == question[c].token
  <2>1. /\ at[c] = "judged" /\ UNCHANGED <<question, local, status>> /\ status[c] = "granted"
        /\ entries' = [entries EXCEPT ![t] = Consumed(local[c])]
    BY <1>3 DEF Finish, WriteBack
  <2>2. t \in Token /\ local[c] \in Entry
    BY <1>1, <2>1 DEF CallerShape, Critical
  <2>3. entries'[t] = Consumed(local[c]) BY <1>1, <2>1, <2>2
  <2> QED  BY <2>1, <2>2, <2>3, ConsumedEntry
<1>4. CASE at[c] = "done" /\ Still(c)
  <2>1. /\ question[c].token \in Token /\ local[c] \in Entry
        /\ entries[question[c].token] \in Entry
        /\ entries[question[c].token].grant = local[c].grant
        /\ entries[question[c].token].grant.single => entries[question[c].token].consumed
    BY <1>4 DEF Still, ThreadsInv, GrantShape
  <2>2. Kept(question[c].token) /\ entries'[question[c].token] \in Entry
    BY <1>2, <2>1, EntryKept
  <2> QED  BY <1>4, <2>1, <2>2 DEF Still, Kept
<1>5. Finish(c) \/ (at[c] = "done" /\ Still(c))
  <2>1. ASSUME NEW q \in Question, Present(c, q) PROVE FALSE
    <3>1. at[c] = "outside" /\ status[c] = None
      BY <1>1, <2>1 DEF Present, CallerShape
    <3>2. None # "granted" /\ "missing" # "granted"
      BY ThreadsAssumption DEF ThreadsAssumption, ApprovalStatus
    <3> QED  BY <1>1, <2>1, <3>1, <3>2 DEF Present, MoveTo
  <2>2. ~AcquireLock(c) /\ ~ReadEntry(c) /\ ~Judge(c)
    BY <1>1 DEF AcquireLock, ReadEntry, Judge, MoveTo
  <2>3. ASSUME NEW d \in Caller, c # d, CallerStep(d) \/ \E q \in Question : Present(d, q)
        PROVE  Still(c)
    BY <2>3, OthersStill
  <2>4. CASE \/ \E i \in Issuer : StoreGrant(i)
             \/ \E i \in Issuer, t \in Token, q \in Issuable : BuildGrant(i, t, q)
             \/ TimePasses \/ UNCHANGED tvars
    BY <2>4 DEF StoreGrant, BuildGrant, TimePasses, tvars, Still
  <2>5. Finish(c) \/ Still(c)
    BY <2>1, <2>2, <2>3, <2>4 DEF ThreadsNext, CallerStep
  <2>6. Still(c) => at[c] = "done" BY DEF Still
  <2> QED  BY <2>5, <2>6
<1> QED  BY <1>3, <1>4, <1>5

\* Nobody else stores an entry under the token of a draft.
LEMMA DraftKept ==
  ASSUME ThreadsInv, [ThreadsNext]_tvars, NEW i \in Issuer
  PROVE  DraftShape(i)'
<1> USE DEF store
<1>1. /\ draft \in [Issuer -> Opt([token : Token, grant : Grant])]
      /\ entries \in [Token -> Entry \cup {None}]
      /\ clock \in Nat /\ \A j \in Issuer : DraftShape(j)
  <2>1. ThreadsTypeOK /\ \A j \in Issuer : DraftShape(j) BY DEF ThreadsInv
  <2>2. clock \in 0..MaxClock /\ entries \in [Token -> Entry \cup {None}]
    BY <2>1 DEF ThreadsTypeOK, StoreTypeOK
  <2>3. MaxClock \in Nat BY StoreAssumption DEF StoreAssumption
  <2>4. clock \in Nat BY <2>2, <2>3
  <2> QED  BY <2>1, <2>2, <2>4 DEF ThreadsTypeOK
<1>2. None \notin [token : Token, grant : Grant]
  BY ThreadsAssumption DEF ThreadsAssumption
<1>3. CASE UNCHANGED <<entries, draft>> /\ clock' \in Nat /\ clock' >= clock
  <2>1. 0..clock \subseteq 0..clock' BY <1>1, <1>3
  <2> QED  BY <1>1, <1>3, <2>1 DEF DraftShape
<1>4. ASSUME NEW c \in Caller, CallerStep(c) \/ \E q \in Question : Present(c, q)
      PROVE  DraftShape(i)'
  <2>1. UNCHANGED <<clock, draft>>
    BY <1>4 DEF CallerStep, AcquireLock, ReadEntry, Judge, Finish, Present
  <2>2. CASE UNCHANGED entries BY <1>1, <1>3, <2>1, <2>2
  <2>3. CASE Finish(c) /\ status[c] = "granted"
    <3>1. /\ entries' = [entries EXCEPT ![question[c].token] = Consumed(local[c])]
          /\ entries[question[c].token] # None
      <4>1. at[c] = "judged" /\ CallerShape(c) BY <2>3 DEF Finish, ThreadsInv
      <4>2. local[c] \in Entry /\ local[c] = entries[question[c].token]
        BY <2>3, <4>1 DEF CallerShape
      <4> QED  BY <2>3, <4>2, StoreAssumption DEF Finish, WriteBack, StoreAssumption
    <3>2. draft[i] # None => entries'[draft[i].token] = None
      BY <1>1, <3>1 DEF DraftShape, Opt
    <3> QED  BY <1>1, <2>1, <3>2 DEF DraftShape
  <2> QED
    BY <1>4, <2>2, <2>3 DEF CallerStep, AcquireLock, ReadEntry, Judge, Finish, WriteBack, Present
<1>5. ASSUME NEW j \in Issuer, NEW t \in Token, NEW q \in Issuable, BuildGrant(j, t, q)
      PROVE  DraftShape(i)'
  <2> DEFINE new == [token |-> t, grant |-> GrantFor(q, clock)]
  <2>1. /\ entries[t] = None /\ q.ttl > 0 /\ UNCHANGED <<entries, clock>> /\ draft[j] = None
        /\ \A k \in Issuer : draft[k] # None => draft[k].token # t
        /\ \A k \in Issuer : draft'[k] = IF k = j THEN new ELSE draft[k]
    BY <1>1, <1>5 DEF BuildGrant, Fresh
  <2>2. new.token = t /\ new.grant = GrantFor(q, clock) OBVIOUS
  <2> HIDE DEF new
  <2>3. CASE i = j
    <3>1. clock \in 0..clock BY <1>1
    <3> QED  BY <2>1, <2>2, <2>3, <3>1 DEF DraftShape
  <2>4. CASE i # j
    BY <1>1, <2>1, <2>2, <2>4 DEF DraftShape
  <2> QED  BY <2>3, <2>4
<1>6. ASSUME NEW j \in Issuer, StoreGrant(j) PROVE DraftShape(i)'
  <2>1. /\ entries' = [entries EXCEPT ![draft[j].token] = NewEntry(draft[j].grant)]
        /\ draft' = [draft EXCEPT ![j] = None] /\ draft[j] # None /\ UNCHANGED clock
    BY <1>6 DEF StoreGrant
  <2>2. CASE i = j BY <1>1, <2>1, <2>2 DEF DraftShape
  <2>3. CASE i # j /\ draft[i] # None
    <3>1. draft[i].token # draft[j].token /\ draft[i].token \in Token
      BY <1>1, <2>1, <2>3 DEF DraftShape, Opt
    <3>2. entries'[draft[i].token] = None BY <1>1, <2>1, <2>3, <3>1 DEF DraftShape
    <3> QED  BY <1>1, <2>1, <2>3, <3>2 DEF DraftShape
  <2>4. CASE i # j /\ draft[i] = None BY <1>1, <2>1, <2>4 DEF DraftShape
  <2> QED  BY <2>2, <2>3, <2>4
<1>7. CASE TimePasses \/ UNCHANGED tvars
  BY <1>1, <1>3, <1>7 DEF TimePasses, Tick, tvars
<1> QED  BY <1>4, <1>5, <1>6, <1>7 DEF ThreadsNext

LEMMA ThreadsInvariant == ThreadsSpec => []ThreadsInv
<1>1. ThreadsInv /\ [ThreadsNext]_tvars => ThreadsInv'
  BY TypeKept, CallerKept, GrantKept, DraftKept DEF ThreadsInv
<1> QED  BY <1>1, InitInv, PTL DEF ThreadsSpec

-------------------------------------------------------------------------------
\* Every variable of the store and its threads has the values the code can give
\* it (InMemoryApprovalStore).
THEOREM ThreadsTypeCorrect == ThreadsSpec => []ThreadsTypeOK
<1>1. ThreadsInv => ThreadsTypeOK BY DEF ThreadsInv
<1> QED  BY <1>1, ThreadsInvariant, PTL

\* However threads interleave, the lock is released and time passes, two callers
\* are never granted the same single-use token (validate_and_consume).
THEOREM TokenServesOne == ThreadsSpec => []GrantedToOne
<1>1. ThreadsInit => GrantedToOne
  BY ThreadsAssumption DEF ThreadsInit, GrantedToOne, ThreadsAssumption, ApprovalStatus
<1>2. ThreadsInv /\ ThreadsInv' /\ GrantedToOne /\ [ThreadsNext]_tvars => GrantedToOne'
  <2> SUFFICES ASSUME ThreadsInv, ThreadsInv', GrantedToOne, [ThreadsNext]_tvars,
                      NEW c \in Caller, NEW d \in Caller, c # d,
                      status'[c] = "granted", status'[d] = "granted",
                      question'[c].token = question'[d].token
               PROVE  ~local'[c].grant.single
    BY DEF GrantedToOne
  <2>1. /\ at'[c] \in {"judged", "done"} /\ at'[d] \in {"judged", "done"}
        /\ ~(at'[c] = "judged" /\ at'[d] = "judged")
    <3>1. ThreadsTypeOK' /\ CallerShape(c)' /\ CallerShape(d)' BY DEF ThreadsInv
    <3>2. None # "granted" BY ThreadsAssumption DEF ThreadsAssumption, ApprovalStatus
    <3> QED  BY <3>1, <3>2 DEF ThreadsTypeOK, CallerShape, Critical, Place
  <2>2. ASSUME NEW x \in Caller, NEW y \in Caller, at'[x] = "judged", at'[y] = "done",
               status'[x] = "granted", status'[y] = "granted",
               question'[x].token = question'[y].token
        PROVE  ~local'[x].grant.single /\ local'[x].grant = local'[y].grant
    <3>1. CallerShape(x)' /\ GrantShape(y)' BY DEF ThreadsInv
    <3> QED  BY <2>2, <3>1 DEF CallerShape, GrantShape, Spent
  <2>3. CASE at'[c] = "judged" \/ at'[d] = "judged"
    BY <2>1, <2>2, <2>3
  <2>4. CASE at'[c] = "done" /\ at'[d] = "done"
    <3>1. ASSUME NEW x \in Caller, at'[x] = "done", status'[x] = "granted"
          PROVE  status[x] = "granted" /\ UNCHANGED <<question[x], local[x]>>
      <4>1. /\ CallerShape(x) /\ at \in [Caller -> Place]
            /\ question \in [Caller -> Opt(Question)] /\ local \in [Caller -> Opt(Entry)]
            /\ status \in [Caller -> Opt(ApprovalStatus)]
        BY DEF ThreadsInv, ThreadsTypeOK
      <4>2. CASE \E q \in Question : Present(x, q)
        <5>1. None # "granted" /\ "missing" # "granted"
          BY ThreadsAssumption DEF ThreadsAssumption, ApprovalStatus
        <5>2. at[x] = "outside" /\ status[x] = None BY <4>1, <4>2 DEF Present, CallerShape
        <5> QED  BY <3>1, <4>1, <4>2, <5>1, <5>2 DEF Present, MoveTo
      <4>3. CASE AcquireLock(x) \/ ReadEntry(x) \/ Judge(x)
        BY <3>1, <4>1, <4>3 DEF AcquireLock, ReadEntry, Judge, MoveTo
      <4>4. CASE Finish(x) BY <3>1, <4>4 DEF Finish
      <4>5. CASE \E y \in Caller : x # y /\ (CallerStep(y) \/ \E q \in Question : Present(y, q))
        BY <3>1, <4>5, OthersStill DEF Still
      <4>6. CASE \/ \E i \in Issuer : StoreGrant(i)
                 \/ \E i \in Issuer, t \in Token, q \in Issuable : BuildGrant(i, t, q)
                 \/ TimePasses \/ UNCHANGED tvars
        BY <3>1, <4>6 DEF StoreGrant, BuildGrant, TimePasses, tvars
      <4> QED  BY <4>2, <4>3, <4>4, <4>5, <4>6 DEF ThreadsNext, CallerStep
    <3>2. /\ status[c] = "granted" /\ status[d] = "granted"
          /\ question[c].token = question[d].token /\ local'[c] = local[c]
      BY <2>4, <3>1
    <3> QED  BY <3>2 DEF GrantedToOne
  <2> QED  BY <2>1, <2>3, <2>4
<1> QED  BY <1>1, <1>2, ThreadsInvariant, PTL DEF ThreadsSpec

\* A stored grant is never lost to the write back of a caller that read earlier,
\* and a mark is never taken back (validate_and_consume, issue).
THEOREM NoEntryIsLost == ThreadsSpec => NoLostEntry
<1>1. ThreadsInv /\ [ThreadsNext]_tvars =>
        [\A t \in Token : entries[t] # None =>
           /\ entries'[t] # None /\ entries'[t].grant = entries[t].grant
           /\ entries[t].consumed => entries'[t].consumed]_tvars
  BY EntryKept DEF Kept
<1> QED  BY <1>1, ThreadsInvariant, PTL DEF ThreadsSpec, NoLostEntry

-------------------------------------------------------------------------------
(***************************************************************************)
(* The threads implement the service.  What the service shows: the table    *)
(* with the write back that is still to come, and the answers given.        *)
(***************************************************************************)
EntriesSeen == [t \in Token |-> IF Pending(t) THEN Consumed(entries[t]) ELSE entries[t]]
VerdictSeen == [c \in Caller |-> IF status[c] = None THEN None
                                 ELSE [question |-> question[c], status |-> status[c]]]

\* A step that changes neither is a stutter of the service.
LEMMA QuietStep ==
  ASSUME EntriesSeen' = EntriesSeen, VerdictSeen' = VerdictSeen, UNCHANGED clock
  PROVE  UNCHANGED S!service
BY DEF EntriesSeen, VerdictSeen, S!service

\* The service's checks are the store's, made on the table it shows.
LEMMA SameVerdict ==
  ASSUME NEW token, NEW tool, NEW by
  PROVE  S!Verdict(token, tool, by) =
           IF token \in NoToken THEN "missing"
           ELSE VerdictOnEntry(EntriesSeen[token], tool, by, clock)
BY DEF S!Verdict, VerdictOnEntry, S!VerdictOnEntry, S!NoToken, NoToken, EntriesSeen,
       Spent, S!Spent, IsExpired, S!IsExpired, Mismatch, S!Mismatch

\* A write back is pending only for the caller that holds the lock.
LEMMA PendingHolds ==
  ASSUME ThreadsInv
  PROVE  /\ holder = None => \A t \in Token : ~Pending(t)
         /\ \A c \in Caller : Critical(c) /\ at[c] # "judged" => \A t \in Token : ~Pending(t)
         /\ \A c \in Caller : at[c] = "judged" =>
              \A t \in Token : Pending(t) <=> status[c] = "granted" /\ question[c].token = t
<1>1. \A c \in Caller : at[c] = "judged" => Critical(c) /\ holder = c
  BY DEF ThreadsInv, CallerShape, Critical
<1>2. \A c \in Caller : c # None BY ThreadsAssumption DEF ThreadsAssumption
<1>3. \A c, d \in Caller : Critical(c) /\ Critical(d) => c = d BY OneInside
<1> QED  BY <1>1, <1>2, <1>3 DEF Pending

LEMMA InitSeen == ThreadsInit => S!ServiceInit
<1> SUFFICES ASSUME ThreadsInit PROVE S!ServiceInit
  OBVIOUS
<1>1. \A t \in Token : ~Pending(t) BY DEF ThreadsInit, Pending
<1> QED  BY <1>1 DEF ThreadsInit, StoreInit, S!ServiceInit, S!StoreInit

\* A missing token is answered at once; any other is not answered yet.
LEMMA PresentSeen ==
  ASSUME ThreadsInv, NEW c \in Caller, NEW q \in Question, Present(c, q)
  PROVE  S!ServiceNext \/ UNCHANGED S!service
<1>1. /\ at[c] = "outside" /\ status[c] = None
      /\ at \in [Caller -> Place] /\ status \in [Caller -> Opt(ApprovalStatus)]
      /\ question \in [Caller -> Opt(Question)] /\ UNCHANGED <<entries, clock>>
  BY DEF Present, ThreadsInv, ThreadsTypeOK, CallerShape, store
<1>2. /\ \A d \in Caller : d # c => at'[d] = at[d] /\ status'[d] = status[d]
                                     /\ question'[d] = question[d]
      /\ question'[c] = q /\ at'[c] \in {"waiting", "done"}
      /\ q.token \in NoToken => status'[c] = "missing"
      /\ q.token \notin NoToken => status'[c] = None
  BY <1>1 DEF Present, MoveTo
<1>3. EntriesSeen' = EntriesSeen
  <2>1. \A t \in Token : Pending(t)' <=> Pending(t) BY <1>1, <1>2 DEF Pending
  <2> QED  BY <1>1, <2>1 DEF EntriesSeen
<1>4. CASE q.token \notin NoToken
  <2>1. VerdictSeen' = VerdictSeen BY <1>1, <1>2, <1>4 DEF VerdictSeen
  <2> QED  BY <1>1, <1>3, <2>1, QuietStep
<1>5. CASE q.token \in NoToken
  <2>1. S!Verdict(q.token, q.tool, q.by) = "missing" BY <1>5, SameVerdict
  <2>2. None # "missing" /\ "missing" # "granted"
    BY ThreadsAssumption DEF ThreadsAssumption, ApprovalStatus
  <2>3. VerdictSeen[c] = None
        /\ VerdictSeen' = [VerdictSeen EXCEPT ![c] = [question |-> q, status |-> "missing"]]
    BY <1>1, <1>2, <1>5, <2>2 DEF VerdictSeen
  <2>4. S!Ask(c, q) BY <1>1, <1>3, <2>1, <2>2, <2>3 DEF S!Ask, S!Told, EntriesSeen, VerdictSeen
  <2> QED  BY <2>4 DEF S!ServiceNext
<1> QED  BY <1>4, <1>5

\* Judging is where the question takes effect.
LEMMA JudgeSeen ==
  ASSUME ThreadsInv, ThreadsInv', NEW c \in Caller, Judge(c)
  PROVE  S!ServiceNext
<1>1. /\ at[c] = "read" /\ UNCHANGED <<entries, clock, question>>
      /\ at \in [Caller -> Place] /\ status \in [Caller -> Opt(ApprovalStatus)]
      /\ at' = [at EXCEPT ![c] = "judged"]
      /\ status' = [status EXCEPT ![c] =
           VerdictOnEntry(local[c], question[c].tool, question[c].by, clock)]
  BY DEF Judge, MoveTo, ThreadsInv, ThreadsTypeOK, store
<1>2. PICK q \in Question :
        /\ q = question[c] /\ q.token \in Token /\ local[c] = entries[q.token]
        /\ status[c] = None /\ Critical(c) /\ Critical(c)'
  BY <1>1 DEF ThreadsInv, CallerShape, Critical
<1> DEFINE v == VerdictOnEntry(local[c], q.tool, q.by, clock)
<1>3. v # None /\ q.token \notin NoToken
  <2>1. v \in ApprovalStatus BY VerdictType
  <2>2. None \notin ApprovalStatus BY ThreadsAssumption DEF ThreadsAssumption
  <2> QED  BY <1>2, <2>1, <2>2, StoreAssumption DEF StoreAssumption, NoToken
<1>4. \A t \in Token : ~Pending(t) BY <1>1, <1>2, PendingHolds
<1>5. \A t \in Token : Pending(t)' <=> v = "granted" /\ q.token = t
  <2>1. \A d \in Caller : d # c => at'[d] # "judged"
    <3>1. \A d \in Caller : at[d] = "judged" => Critical(d) BY DEF Critical
    <3> QED  BY <1>1, <1>2, <3>1, OneInside
  <2> QED  BY <1>1, <1>2, <2>1 DEF Pending
<1>6. S!Verdict(q.token, q.tool, q.by) = v
  <2>1. EntriesSeen[q.token] = entries[q.token] BY <1>2, <1>4 DEF EntriesSeen
  <2> QED  BY <1>2, <1>3, <2>1, SameVerdict
<1>v. status' = [status EXCEPT ![c] = v] BY <1>1, <1>2
<1> HIDE DEF v
<1>7. /\ VerdictSeen[c] = None
      /\ VerdictSeen' = [VerdictSeen EXCEPT ![c] = [question |-> q, status |-> v]]
  BY <1>1, <1>2, <1>3, <1>v DEF VerdictSeen
<1>8. EntriesSeen' = IF v = "granted"
                     THEN [EntriesSeen EXCEPT ![q.token] = Consumed(@)]
                     ELSE EntriesSeen
  BY <1>1, <1>2, <1>4, <1>5 DEF EntriesSeen
<1>9. S!Ask(c, q)
  <2>1. IF v = "granted" THEN S!Consume(q.token) ELSE EntriesSeen' = EntriesSeen
    BY <1>8 DEF S!Consume, EntriesSeen, Consumed, S!Consumed
  <2>2. CASE v = "granted"
    <3>1. S!Consume(q.token) BY <2>1, <2>2
    <3> QED  BY <1>1, <1>6, <1>7, <2>2, <3>1 DEF S!Ask, S!Told, VerdictSeen
  <2>3. CASE v # "granted"
    BY <1>1, <1>6, <1>7, <2>1, <2>3 DEF S!Ask, S!Told, EntriesSeen, VerdictSeen
  <2> QED  BY <2>2, <2>3
<1> QED  BY <1>9 DEF S!ServiceNext

\* The write back changes nothing that the service shows.
LEMMA FinishSeen ==
  ASSUME ThreadsInv, ThreadsInv', NEW c \in Caller, Finish(c)
  PROVE  UNCHANGED S!service
<1>1. /\ at[c] = "judged" /\ UNCHANGED <<clock, question, local, status>>
      /\ at \in [Caller -> Place] /\ at' = [at EXCEPT ![c] = "done"]
      /\ entries \in [Token -> Entry \cup {None}]
      /\ entries' = IF status[c] = "granted"
                    THEN [entries EXCEPT ![question[c].token] = Consumed(local[c])]
                    ELSE entries
  BY DEF Finish, WriteBack, MoveTo, ThreadsInv, ThreadsTypeOK, StoreTypeOK
<1>2. Critical(c) /\ question[c].token \in Token /\ local[c] = entries[question[c].token]
  BY <1>1 DEF ThreadsInv, CallerShape, Critical
<1>3. \A t \in Token : Pending(t) <=> status[c] = "granted" /\ question[c].token = t
  BY <1>1, PendingHolds
<1>4. \A t \in Token : ~Pending(t)'
  <2>1. \A d \in Caller : at[d] = "judged" => Critical(d) BY DEF Critical
  <2>2. \A d \in Caller : at'[d] # "judged" BY <1>1, <1>2, <2>1, OneInside
  <2> QED  BY <2>2 DEF Pending
<1>5. EntriesSeen' = EntriesSeen BY <1>1, <1>2, <1>3, <1>4 DEF EntriesSeen
<1>6. VerdictSeen' = VerdictSeen BY <1>1 DEF VerdictSeen
<1> QED  BY <1>1, <1>5, <1>6, QuietStep

\* Storing a grant is the issue of the service.
LEMMA StoreGrantSeen ==
  ASSUME ThreadsInv, NEW i \in Issuer, StoreGrant(i)
  PROVE  S!ServiceNext
<1>1. /\ draft[i] # None /\ holder = None
      /\ entries' = [entries EXCEPT ![draft[i].token] = NewEntry(draft[i].grant)]
      /\ UNCHANGED <<clock, at, question, status>>
      /\ draft[i] \in [token : Token, grant : Grant]
      /\ entries \in [Token -> Entry \cup {None}]
  BY DEF StoreGrant, LockFree, ThreadsInv, ThreadsTypeOK, StoreTypeOK, Opt
<1>2. PICK q \in Issuable, born \in 0..clock :
        /\ q.ttl > 0 /\ draft[i].grant = GrantFor(q, born)
        /\ entries[draft[i].token] = None /\ draft[i].token \in Token
  BY <1>1 DEF ThreadsInv, DraftShape
<1>3. /\ \A t \in Token : ~Pending(t)
      /\ \A t \in Token : ~Pending(t)'
  <2>1. \A t \in Token : ~Pending(t) BY <1>1, PendingHolds
  <2>2. \A t \in Token : Pending(t)' <=> Pending(t) BY <1>1 DEF Pending
  <2> QED  BY <2>1, <2>2
<1>4. /\ EntriesSeen[draft[i].token] = None
      /\ EntriesSeen' = [EntriesSeen EXCEPT ![draft[i].token] = NewEntry(GrantFor(q, born))]
  BY <1>1, <1>2, <1>3 DEF EntriesSeen
<1>5. VerdictSeen' = VerdictSeen BY <1>1 DEF VerdictSeen
<1>6. S!Issue(draft[i].token, q)
  BY <1>1, <1>2, <1>4 DEF S!Issue, S!NewEntry, S!GrantFor, NewEntry, GrantFor, EntriesSeen
<1> QED  BY <1>2, <1>5, <1>6 DEF S!ServiceNext, VerdictSeen

\* The other steps of the threads do not show; time passes for everybody.
LEMMA OtherStepSeen ==
  ASSUME ThreadsInv,
         \/ \E c \in Caller : AcquireLock(c) \/ ReadEntry(c)
         \/ \E i \in Issuer, t \in Token, q \in Issuable : BuildGrant(i, t, q)
         \/ TimePasses
         \/ UNCHANGED tvars
  PROVE  S!ServiceNext \/ UNCHANGED S!service
<1>1. UNCHANGED <<entries, question, status>>
  BY DEF AcquireLock, ReadEntry, BuildGrant, TimePasses, Tick, tvars, store
<1>2. /\ at \in [Caller -> Place]
      /\ \A c \in Caller : at'[c] = "judged" <=> at[c] = "judged"
  <2>1. at \in [Caller -> Place] BY DEF ThreadsInv, ThreadsTypeOK
  <2> QED
    BY <2>1 DEF AcquireLock, ReadEntry, BuildGrant, TimePasses, tvars, MoveTo
<1>3. \A t \in Token : Pending(t)' <=> Pending(t) BY <1>1, <1>2 DEF Pending
<1>4. EntriesSeen' = EntriesSeen /\ VerdictSeen' = VerdictSeen
  BY <1>1, <1>3 DEF EntriesSeen, VerdictSeen
<1>5. CASE UNCHANGED clock BY <1>4, <1>5, QuietStep
<1>6. CASE TimePasses
  BY <1>4, <1>6 DEF TimePasses, Tick, S!Tick, S!ServiceNext, EntriesSeen, VerdictSeen
<1>7. UNCHANGED clock \/ TimePasses BY DEF AcquireLock, ReadEntry, BuildGrant, tvars, store
<1> QED  BY <1>5, <1>6, <1>7

\* The lock makes a question as good as indivisible: whatever threads do between
\* each other's steps, callers see answers, and a table, that the service which
\* answers in one step could show (validate_and_consume, issue).
THEOREM ThreadsRefineService == ThreadsSpec => ImplementsService
<1>1. ThreadsInit => S!ServiceInit BY InitSeen
<1>2. ThreadsInv /\ ThreadsInv' /\ [ThreadsNext]_tvars => [S!ServiceNext]_(S!service)
  <2> SUFFICES ASSUME ThreadsInv, ThreadsInv', [ThreadsNext]_tvars
               PROVE  S!ServiceNext \/ UNCHANGED S!service
    OBVIOUS
  <2>1. ASSUME NEW c \in Caller, NEW q \in Question, Present(c, q)
        PROVE  S!ServiceNext \/ UNCHANGED S!service
    BY <2>1, PresentSeen
  <2>2. ASSUME NEW c \in Caller, Judge(c) \/ Finish(c)
        PROVE  S!ServiceNext \/ UNCHANGED S!service
    BY <2>2, JudgeSeen, FinishSeen
  <2>3. ASSUME NEW i \in Issuer, StoreGrant(i) PROVE S!ServiceNext
    BY <2>3, StoreGrantSeen
  <2>4. CASE \/ \E c \in Caller : AcquireLock(c) \/ ReadEntry(c)
             \/ \E i \in Issuer, t \in Token, q \in Issuable : BuildGrant(i, t, q)
             \/ TimePasses
             \/ UNCHANGED tvars
    BY <2>4, OtherStepSeen
  <2> QED  BY <2>1, <2>2, <2>3, <2>4 DEF ThreadsNext, CallerStep
<1> QED
  BY <1>1, <1>2, ThreadsInvariant, PTL DEF ThreadsSpec, ImplementsService, S!Service

-------------------------------------------------------------------------------
(***************************************************************************)
(* Why every caller is served: what EveryCallerServed rests on besides      *)
(* fairness.                                                                *)
(***************************************************************************)

\* Whoever waits for the lock, to ask or to store a grant, finds it free or finds
\* it with a caller inside, whose next step needs nobody.
LockComesBack ==
  (\E c \in Caller : at[c] = "waiting") \/ (\E i \in Issuer : draft[i] # None) =>
    \/ LockFree
    \/ /\ holder \in Caller
       /\ at[holder] \in {"locked", "read", "judged"}
       /\ question[holder].token \in DOMAIN entries

\* The lock is never left behind: at every moment it is free, or its holder is
\* inside the with block and can go on, so no two threads wait for each other
\* (validate_and_consume, issue).
THEOREM LockIsNeverLeftBehind == ThreadsSpec => []LockComesBack
<1>1. ThreadsInv => LockComesBack
  <2> SUFFICES ASSUME ThreadsInv, holder # None
               PROVE  /\ holder \in Caller
                      /\ at[holder] \in {"locked", "read", "judged"}
                      /\ question[holder].token \in DOMAIN entries
    BY DEF LockComesBack, LockFree
  <2>1. holder \in Caller BY DEF ThreadsInv, ThreadsTypeOK, Opt
  <2>2. Critical(holder) /\ question[holder].token \in Token
    BY <2>1 DEF ThreadsInv, CallerShape
  <2>3. DOMAIN entries = Token BY DEF ThreadsInv, ThreadsTypeOK, StoreTypeOK
  <2> QED  BY <2>1, <2>2, <2>3 DEF Critical
<1> QED  BY <1>1, ThreadsInvariant, PTL

\* How many places a caller still has before it.
Ahead ==
  [outside |-> 5, waiting |-> 4, locked |-> 3, read |-> 2, judged |-> 1, done |-> 0]

\* A caller only goes forward, one that steps does, and it keeps the lock from
\* the moment it has it until it is done: no other caller and no issuer takes it
\* away or sends the caller back.
OnlyForward ==
  /\ \A c \in Caller : at'[c] # at[c] => Ahead[at'[c]] < Ahead[at[c]]
  /\ \A c \in Caller : CallerStep(c) => at'[c] # at[c]
  /\ \A c \in Caller : holder = c /\ holder' # c => holder' = None /\ at'[c] = "done"

LEMMA ForwardStep == ThreadsInv /\ [ThreadsNext]_tvars => OnlyForward
<1> SUFFICES ASSUME ThreadsInv, [ThreadsNext]_tvars PROVE OnlyForward
  OBVIOUS
<1>1. at \in [Caller -> Place] BY DEF ThreadsInv, ThreadsTypeOK
<1>2. ASSUME NEW d \in Caller, CallerStep(d)
      PROVE  at'[d] # at[d] /\ Ahead[at'[d]] < Ahead[at[d]]
  BY <1>1, <1>2 DEF CallerStep, AcquireLock, ReadEntry, Judge, Finish, MoveTo, Ahead
<1>3. ASSUME NEW c \in Caller, at'[c] # at[c]
      PROVE  Ahead[at'[c]] < Ahead[at[c]]
  <2>1. ASSUME NEW d \in Caller, CallerStep(d) \/ \E q \in Question : Present(d, q), d # c
        PROVE  FALSE
    BY <1>3, <2>1, OthersStill DEF Still
  <2>2. ASSUME NEW q \in Question, Present(c, q) PROVE Ahead[at'[c]] < Ahead[at[c]]
    BY <1>1, <2>2 DEF Present, MoveTo, Ahead
  <2> QED
    BY <1>2, <1>3, <2>1, <2>2
    DEF ThreadsNext, BuildGrant, StoreGrant, TimePasses, tvars
<1>4. ASSUME NEW c \in Caller, holder = c, holder' # c
      PROVE  holder' = None /\ at'[c] = "done"
  <2>1. Critical(c) /\ c # None
    BY <1>4, ThreadsAssumption DEF ThreadsInv, CallerShape, ThreadsAssumption
  <2>2. ASSUME NEW d \in Caller, Finish(d) PROVE holder' = None /\ at'[c] = "done"
    <3>1. d = c BY <2>1, <2>2, OneInside DEF Finish, Critical
    <3> QED  BY <1>1, <2>2, <3>1 DEF Finish, NextHolder, MoveTo
  <2>3. ASSUME NEW d \in Caller, AcquireLock(d) PROVE FALSE
    BY <1>4, <2>1, <2>3 DEF AcquireLock, LockFree
  <2> QED
    BY <1>4, <2>2, <2>3
    DEF ThreadsNext, CallerStep, Present, ReadEntry, Judge, BuildGrant, StoreGrant,
        TimePasses, tvars
<1> QED  BY <1>2, <1>3, <1>4 DEF OnlyForward

\* Callers only go forward and are never sent back, so a caller is done after at
\* most five steps of its own, and everybody inside is out after three
\* (validate_and_consume).
THEOREM CallersOnlyGoForward == ThreadsSpec => [][OnlyForward]_tvars
BY ThreadsInvariant, ForwardStep, PTL DEF ThreadsSpec
==============================================================================
