------------------------ MODULE UpstreamReads_proofs ------------------------
(***************************************************************************)
(* Proofs about UpstreamReads, for any repository, any limit of the listing *)
(* and any number of retries and commits: the types, the budget of requests *)
(* and that nothing is served that was not there.                           *)
(***************************************************************************)
EXTENDS UpstreamReads, FiniteSetTheorems, WellFoundedInduction, TLAPS

\* What each phase says of the counters: github_get_json has sent as many
\* requests as it counted attempts, and the other reads keep one request for
\* every path they still have to fetch.
Progress ==
  /\ phase = "idle" => asked = 0 /\ attempt = 0 /\ found = {}
  /\ phase = "listing" => request.op \in Listing /\ asked = 0
  /\ phase = "fetching" =>
       /\ todo # {}
       /\ request.op \in Fetching \cup {"search", "architecture"}
       /\ asked + Cardinality(todo) <= Budget
  /\ phase = "asking" => request.op \in Github /\ asked = attempt
  /\ phase = "pausing" =>
       request.op \in Github /\ asked = attempt + 1 /\ attempt < MaxRetries

\* Once a read began, its history holds what is in the repository, and
\* whatever it found is in its history.
Witnessed(d) == \E f \in File : WasAt(d.path, f) /\ f.hits = d.hits /\ f.kind \in Legible

Honest ==
  /\ phase # "idle" => \A p \in Path : WasAt(p, repo[p])
  /\ \A d \in found : Witnessed(d)

ReadInv == TypeOK /\ Progress /\ WithinBudget /\ Honest /\ ServedWasThere

-----------------------------------------------------------------------------
\* The budget of a read is a positive number.
LEMMA BudgetType ==
  ASSUME TypeOK
  PROVE  /\ Budget \in Nat
         /\ request.op \in Listing => Budget >= 1
         /\ request.op \in {"search", "architecture"} => Budget = 1 + MaxFiles
         /\ request.op \in Github => Budget = 1 + MaxRetries
         /\ request.op \in Fetching => Budget = Cardinality(request.paths)
<1>1. IsFiniteSet(request.paths) /\ Cardinality(request.paths) \in Nat
  BY FS_Subset, FS_CardinalityType, ReadsAssumption DEF TypeOK, RequestType, ReadsAssumption
<1>2. QED
  BY <1>1, ReadsAssumption
     DEF Budget, TypeOK, RequestType, ReadsAssumption, Listing, Fetching, Registry, Github

\* The paths still to fetch are counted by a number, one less after each.
LEMMA TodoCount ==
  ASSUME TypeOK
  PROVE  /\ IsFiniteSet(todo) /\ Cardinality(todo) \in Nat
         /\ todo # {} => Cardinality(todo) >= 1
         /\ \A p \in todo : Cardinality(todo \ {p}) = Cardinality(todo) - 1
<1>1. IsFiniteSet(todo) BY FS_Subset, ReadsAssumption DEF TypeOK, ReadsAssumption
<1>2. Cardinality(todo) \in Nat BY <1>1, FS_CardinalityType
<1>3. todo # {} => Cardinality(todo) >= 1 BY <1>1, <1>2, FS_EmptySet
<1>4. \A p \in todo : Cardinality(todo \ {p}) = Cardinality(todo) - 1
  BY <1>1, FS_RemoveElement
<1>5. QED BY <1>1, <1>2, <1>3, <1>4

\* A read that has not ended may send one more request.
LEMMA Sending ==
  ASSUME TypeOK, Progress, phase \in {"listing", "fetching", "asking"},
         NEW o \in Fault \cup {"ok", "absent"}, Ask(o), request' = request
  PROVE  /\ asked' = asked + 1 /\ asked' <= Budget /\ Budget' = Budget
         /\ asked' \in Nat /\ last' \in Fault \cup {"ok", "absent"}
<1>1. Budget' = Budget BY DEF Budget
<1>2. asked \in Nat BY DEF TypeOK
<1>3. asked + 1 <= Budget
  <2>1. CASE phase = "listing"
    BY <2>1, <1>2, BudgetType DEF Progress
  <2>2. CASE phase = "fetching"
    BY <2>2, <1>2, BudgetType, TodoCount DEF Progress
  <2>3. CASE phase = "asking"
    BY <2>3, <1>2, BudgetType, ReadsAssumption DEF Progress, TypeOK, ReadsAssumption
  <2>4. QED BY <2>1, <2>2, <2>3
<1>4. QED BY <1>1, <1>2, <1>3, BudgetType DEF Ask

\* The errors a read ends in are errors of the contract, and a GitHub read is
\* rate limited by a refusal only.
LEMMA ErrorsAreClasses ==
  /\ \A o \in Fault : DocsError(o) \in ErrorClass
  /\ \A o \in (Fault \ {"untyped"}) \cup {"absent"}, op \in Github :
       /\ GithubErrors(op, o) \subseteq ErrorClass
       /\ "rate_limited" \in GithubErrors(op, o) => o \in Refusal
  /\ \A f \in File \cup {Absent} : ReadError(f) \in ErrorClass \ {"rate_limited"}
  /\ \A f \in File \cup {Absent} :
       ReadError(f) = "none" => f \in File /\ f.kind \in Legible
<1>1. \A o \in Fault : DocsError(o) \in ErrorClass
  BY DEF Fault, Refusal, DocsError, CommonError, ErrorClass, McpClass
<1>2. \A o \in (Fault \ {"untyped"}) \cup {"absent"}, op \in Github :
        /\ GithubErrors(op, o) \subseteq ErrorClass
        /\ "rate_limited" \in GithubErrors(op, o) => o \in Refusal
  <2> SUFFICES ASSUME NEW o \in (Fault \ {"untyped"}) \cup {"absent"}, NEW op \in Github
               PROVE  /\ GithubErrors(op, o) \subseteq ErrorClass
                      /\ "rate_limited" \in GithubErrors(op, o) => o \in Refusal
    OBVIOUS
  <2>1. CASE o \in Refusal \cup {"misshapen", "hollow", "absent"}
    BY <2>1 DEF Refusal, GithubErrors, CommonError, ErrorClass, McpClass
  <2>2. CASE o \in {"http401", "http_other", "timed_out", "unreachable", "reset", "garbled"}
    BY <2>2 DEF Refusal, GithubErrors, CommonError, ErrorClass, McpClass
  <2> QED  BY <2>1, <2>2 DEF Fault
<1>3. ASSUME NEW f \in File \cup {Absent}
      PROVE  /\ FetchError(f) \in {"none", "not_found", "validation", "upstream"}
             /\ FetchError(f) = "none" => f \in File /\ f.kind \in Legible
             /\ f = Absent => FetchError(f) = "not_found"
  BY DEF File, Legible, FetchError
<1>4. ASSUME NEW f \in File \cup {Absent}
      PROVE  /\ ReadError(f) \in ErrorClass \ {"rate_limited"}
             /\ ReadError(f) = "none" => FetchError(f) = "none"
  <2>1. RegistryError(f) \in {"none", "not_found", "validation"} BY DEF RegistryError
  <2>2. QED BY <2>1, <1>3 DEF ReadError, ErrorClass, McpClass
<1>5. QED BY <1>1, <1>2, <1>3, <1>4

\* A search ends with some of what it found.
LEMMA Concluding ==
  ASSUME NEW S \in SUBSET Hit, Conclude(S)
  PROVE  /\ phase' = "done"
         /\ answer' \in [class : {"none", "not_found"}, found : SUBSET S]
BY DEF Conclude, Finish

\* Commits and the history: what is witnessed stays so.
LEMMA WitnessedStays ==
  ASSUME past \subseteq past', NEW d, Witnessed(d)
  PROVE  Witnessed(d)'
BY DEF Witnessed, WasAt

-----------------------------------------------------------------------------
LEMMA ReadInvInit == Init => ReadInv
<1> SUFFICES ASSUME Init PROVE ReadInv OBVIOUS
<1>1. TypeOK
  <2>1. request \in RequestType BY DEF Init, RequestType, Listing
  <2>2. answer \in [class : ErrorClass, found : SUBSET Hit]
    BY DEF Init, NoAnswer, ErrorClass
  <2>3. attempt \in 0..MaxRetries /\ changes \in 0..MaxChanges /\ asked \in Nat
    BY ReadsAssumption DEF Init, ReadsAssumption
  <2>4. QED BY <2>1, <2>2, <2>3 DEF Init, TypeOK
<1>2. Progress BY DEF Init, Progress
<1>3. WithinBudget BY <1>1, BudgetType DEF Init, WithinBudget, Github, Listing
<1>4. Honest /\ ServedWasThere BY DEF Init, Honest, ServedWasThere
<1>5. QED BY <1>1, <1>2, <1>3, <1>4 DEF ReadInv

LEMMA BeginKeeps ==
  ASSUME ReadInv, NEW q \in Request, Begin(q)
  PROVE  ReadInv'
<1> USE DEF ReadInv
<1>1. q \in RequestType /\ (q.op \in Fetching => q.paths # {})
  BY ReadsAssumption DEF ReadsAssumption
<1>2. q.op \in Listing \/ q.op \in Fetching \/ q.op \in Github
  BY <1>1 DEF RequestType
<1>3. TypeOK'
  <2>1. past' \in SUBSET (Path \X (File \cup {Absent}))
    BY DEF Begin, TypeOK, Contents
  <2>2. todo' \in SUBSET Path BY <1>1 DEF Begin, TypeOK, RequestType
  <2>3. answer' \in [class : ErrorClass, found : SUBSET Hit]
    BY DEF Begin, TypeOK, Finish, ErrorClass, McpClass
  <2>4. phase' \in {"idle", "listing", "fetching", "asking", "pausing", "done"}
    BY <1>2 DEF Begin, Finish, Listing, Fetching, Registry, Github
  <2>5. QED BY <1>1, <2>1, <2>2, <2>3, <2>4 DEF Begin, TypeOK
<1>4. asked' = 0 /\ attempt' = 0 /\ found' = {}
  BY DEF Begin, Progress
<1>5. Progress'
  <2>1. CASE ~q.valid
    BY <2>1 DEF Begin, Finish, Progress
  <2>2. CASE q.valid /\ q.op \in Listing
    BY <2>2, <1>4 DEF Begin, Progress, Listing, Fetching, Registry, Github
  <2>3. CASE q.valid /\ q.op \in Fetching
    <3>1. todo' = q.paths /\ request' = q /\ phase' = "fetching"
      BY <2>3 DEF Begin, Listing, Fetching
    <3>2. Budget' = Cardinality(todo)'
      BY <2>3, <3>1, <1>3, BudgetType DEF Budget, Listing, Fetching, Registry, Github
    <3>3. Cardinality(todo)' \in Nat
      BY <1>3, FS_Subset, FS_CardinalityType, ReadsAssumption DEF TypeOK, ReadsAssumption
    <3>4. QED BY <1>1, <1>4, <2>3, <3>1, <3>2, <3>3 DEF Progress
  <2>4. CASE q.valid /\ q.op \in Github
    BY <2>4, <1>4 DEF Begin, Progress, Listing, Fetching, Registry, Github
  <2>5. QED BY <1>2, <2>1, <2>2, <2>3, <2>4
<1>6. WithinBudget'
  <2>1. Budget' \in Nat
    <3>1. IsFiniteSet(q.paths) /\ Cardinality(q.paths) \in Nat
      BY <1>1, FS_Subset, FS_CardinalityType, ReadsAssumption DEF RequestType, ReadsAssumption
    <3>2. request' = q BY DEF Begin
    <3>3. QED BY <3>1, <3>2, <1>1, ReadsAssumption
              DEF Budget, ReadsAssumption, RequestType, Listing, Fetching, Registry, Github
  <2>2. phase' = "done" => answer'.class = "validation"
    BY <1>2 DEF Begin, Finish, Listing, Fetching, Registry, Github
  <2>3. QED BY <2>1, <2>2, <1>4 DEF WithinBudget
<1>7. Honest'
  BY <1>4 DEF Begin, Honest, WasAt
<1>8. ServedWasThere'
  <2>1. phase' = "done" => answer'.found = {}
    BY <1>2 DEF Begin, Finish, Listing, Fetching, Registry, Github
  <2>2. QED BY <2>1 DEF ServedWasThere
<1>9. QED BY <1>3, <1>5, <1>6, <1>7, <1>8

\* A request that ends the read, with a class and a result that is witnessed.
LEMMA Ending ==
  ASSUME ReadInv, phase \in {"listing", "fetching", "asking"},
         NEW o \in Fault \cup {"ok", "absent"}, Ask(o),
         NEW c \in ErrorClass, NEW S \in SUBSET Hit, Finish(c, S),
         request.op # "list" => \A d \in S : Witnessed(d),
         request.op \in Github /\ c = "rate_limited" => attempt = MaxRetries,
         phase # "asking" => request.op \notin Github,
         found' \in SUBSET Hit, \A d \in found' : Witnessed(d), todo' \in SUBSET Path,
         UNCHANGED <<repo, request, attempt, past, changes>>
  PROVE  ReadInv'
<1> USE DEF ReadInv
<1>1. asked' = asked + 1 /\ asked' <= Budget /\ Budget' = Budget
      /\ asked' \in Nat /\ last' \in Fault \cup {"ok", "absent"}
  BY Sending
<1>2. phase' = "done" /\ answer' = [class |-> c, found |-> S] BY DEF Finish
<1>3. TypeOK' BY <1>1, <1>2 DEF TypeOK
<1>4. Progress' BY <1>2 DEF Progress
<1>5. WithinBudget'
  <2>1. request.op \in Github /\ c = "rate_limited" => asked' = Budget
    BY <1>1, BudgetType, ReadsAssumption DEF Progress, ReadsAssumption, Listing, Github, Fetching, Registry
  <2>2. QED BY <1>1, <1>2, <2>1 DEF WithinBudget
<1>6. Honest' BY DEF Honest, Witnessed, WasAt
<1>7. ServedWasThere' BY <1>2 DEF ServedWasThere, Witnessed, WasAt
<1>8. QED BY <1>3, <1>4, <1>5, <1>6, <1>7

LEMMA FailingKeeps ==
  ASSUME ReadInv, NEW o \in Fault \cup {"absent"},
         (o \in Fault /\ DocsFault(o)) \/ GithubFault(o)
  PROVE  ReadInv'
<1> USE DEF ReadInv
<1>1. found' \in SUBSET Hit /\ todo' \in SUBSET Path /\ (\A d \in found' : Witnessed(d))
      /\ Ask(o) /\ UNCHANGED <<repo, request, attempt, past, changes>>
  BY DEF DocsFault, GithubFault, Fail, TypeOK, Honest
<1>2. CASE o \in Fault /\ DocsFault(o)
  <2>1. DocsError(o) \in ErrorClass BY <1>2, ErrorsAreClasses
  <2>2. phase \in {"listing", "fetching"} /\ request.op \notin Github
    BY <1>2 DEF DocsFault, Progress, Listing, Fetching, Registry, Github
  <2>3. Finish(DocsError(o), {}) BY <1>2 DEF DocsFault, Fail
  <2>4. QED BY <1>1, <2>1, <2>2, <2>3, Ending
<1>3. CASE GithubFault(o)
  <2>1. phase = "asking" /\ request.op \in Github /\ o \in (Fault \ {"untyped"}) \cup {"absent"}
    BY <1>3 DEF GithubFault, Progress
  <2>2. PICK e \in GithubErrors(request.op, o) : Finish(e, {})
    BY <1>3 DEF GithubFault, Fail
  <2>3. e \in ErrorClass /\ (e = "rate_limited" => o \in Refusal)
    BY <2>1, <2>2, ErrorsAreClasses
  <2>4. e = "rate_limited" => attempt = MaxRetries
    <3>1. o \in Refusal => ~(attempt < MaxRetries) BY <1>3 DEF GithubFault, ShouldRetry
    <3>2. QED BY <2>3, <3>1, ReadsAssumption DEF TypeOK, ReadsAssumption
  <2>5. QED BY <1>1, <2>1, <2>2, <2>3, <2>4, Ending
<1>4. QED BY <1>2, <1>3

\* The steps of github_get_json that do not fail.
LEMMA GithubKeeps ==
  ASSUME ReadInv, NEW o \in Fault, GithubOk \/ GithubRetry(o) \/ Resume
  PROVE  ReadInv'
<1> USE DEF ReadInv
<1>1. CASE GithubOk
  <2>1. Finish("none", {}) /\ "none" \in ErrorClass BY <1>1 DEF GithubOk, ErrorClass
  <2>2. QED BY <1>1, <2>1, Ending DEF GithubOk, TypeOK, Honest
<1>2. CASE GithubRetry(o)
  <2>1. asked' = asked + 1 /\ asked' <= Budget /\ Budget' = Budget
        /\ asked' \in Nat /\ last' \in Fault \cup {"ok", "absent"}
    BY <1>2, Sending DEF GithubRetry
  <2>2. TypeOK' BY <1>2, <2>1 DEF GithubRetry, TypeOK
  <2>3. Progress' BY <1>2, <2>1 DEF GithubRetry, ShouldRetry, Progress
  <2>4. WithinBudget' BY <1>2, <2>1 DEF GithubRetry, WithinBudget
  <2>5. Honest' /\ ServedWasThere'
    BY <1>2 DEF GithubRetry, Honest, ServedWasThere, Witnessed, WasAt
  <2>6. QED BY <2>2, <2>3, <2>4, <2>5
<1>3. CASE Resume
  <2>1. attempt' = attempt + 1 /\ attempt' \in 0..MaxRetries /\ asked = attempt + 1
        /\ request.op \in Github /\ phase' = "asking"
    BY <1>3, ReadsAssumption DEF Resume, Progress, TypeOK, ReadsAssumption
  <2>2. TypeOK' BY <1>3, <2>1 DEF Resume, TypeOK
  <2>3. Progress' BY <1>3, <2>1 DEF Resume, Progress
  <2>4. WithinBudget' BY <1>3 DEF Resume, WithinBudget, Budget
  <2>5. Honest' /\ ServedWasThere'
    BY <1>3 DEF Resume, Honest, ServedWasThere, Witnessed, WasAt
  <2>6. QED BY <2>2, <2>3, <2>4, <2>5
<1>4. QED BY <1>1, <1>2, <1>3

\* The listing: the answer, or the paths to fetch, no more than the budget allows.
LEMMA ListingsBound ==
  ASSUME NEW all \in SUBSET Path, NEW S \in Listings(all)
  PROVE  S \in SUBSET Path /\ Cardinality(S) \in Nat /\ Cardinality(S) <= MaxFiles
<1>1. S \in SUBSET Path /\ Cardinality(S) <= MaxFiles
  BY ReadsAssumption DEF Listings, ReadsAssumption
<1>2. QED BY <1>1, FS_Subset, FS_CardinalityType, ReadsAssumption DEF ReadsAssumption

LEMMA GetTreeKeeps ==
  ASSUME ReadInv, GetTree
  PROVE  ReadInv'
<1> USE DEF ReadInv
<1>1. PICK S \in Listings({p \in Path : Listable(p, repo[p])}) :
        IF request.op = "list"
        THEN /\ Finish("none", {[path |-> p, hits |-> 0] : p \in S \cap request.paths})
             /\ UNCHANGED todo
        ELSE /\ todo' = S
             /\ IF S = {} THEN Conclude({})
                ELSE phase' = "fetching" /\ UNCHANGED answer
  BY DEF GetTree
<1>2. S \in SUBSET Path /\ Cardinality(S) \in Nat /\ Cardinality(S) <= MaxFiles
  BY ListingsBound
<1>3. phase = "listing" /\ Ask("ok") /\ UNCHANGED <<repo, request, found, attempt, past, changes>>
  BY DEF GetTree
<1>4. found' \in SUBSET Hit /\ (\A d \in found' : Witnessed(d)) /\ request.op \notin Github
  BY <1>3 DEF TypeOK, Honest, Progress, Listing, Github
<1>5. {"none", "not_found"} \subseteq ErrorClass BY DEF ErrorClass, McpClass
<1>6. CASE request.op = "list"
  <2>1. {[path |-> p, hits |-> 0] : p \in S \cap request.paths} \in SUBSET Hit
    BY <1>2, ReadsAssumption DEF Hit, ReadsAssumption
  <2>2. todo' \in SUBSET Path BY <1>1, <1>6 DEF TypeOK
  <2>3. QED BY <1>1, <1>3, <1>4, <1>5, <1>6, <2>1, <2>2, Ending
<1>7. CASE request.op # "list" /\ S = {}
  <2>1. Conclude({}) /\ todo' = {} BY <1>1, <1>7
  <2>2. phase' = "done" /\ answer' \in [class : {"none", "not_found"}, found : SUBSET {}]
    BY <2>1, Concluding
  <2>3. PICK c \in {"none", "not_found"} : answer' = [class |-> c, found |-> {}]
    BY <2>2
  <2>4. Finish(c, {}) BY <2>2, <2>3 DEF Finish
  <2>5. QED BY <1>3, <1>4, <1>5, <2>1, <2>4, Ending
<1>8. CASE request.op # "list" /\ S # {}
  <2>1. todo' = S /\ phase' = "fetching" /\ answer' = answer BY <1>1, <1>8
  <2>2. asked' = asked + 1 /\ asked' <= Budget /\ Budget' = Budget
        /\ asked' \in Nat /\ last' \in Fault \cup {"ok", "absent"}
    BY <1>3, Sending
  <2>3. TypeOK' BY <1>2, <1>3, <2>1, <2>2 DEF TypeOK
  <2>4. Progress'
    <3>1. request.op \in {"search", "architecture"} /\ asked = 0
      BY <1>3, <1>8 DEF Progress, Listing
    <3>2. Budget = 1 + MaxFiles BY <3>1, BudgetType
    <3>3. asked' + Cardinality(todo') <= Budget'
      BY <1>2, <2>1, <2>2, <3>1, <3>2, ReadsAssumption DEF ReadsAssumption
    <3>4. QED BY <1>3, <1>8, <2>1, <3>1, <3>3 DEF Progress
  <2>5. WithinBudget' BY <2>1, <2>2 DEF WithinBudget
  <2>6. Honest' /\ ServedWasThere'
    BY <1>3, <2>1 DEF Honest, ServedWasThere, Witnessed, WasAt
  <2>7. QED BY <2>3, <2>4, <2>5, <2>6
<1>9. QED BY <1>6, <1>7, <1>8

\* One document fetched: what is kept was there.
LEMMA KeptIsWitnessed ==
  ASSUME ReadInv, phase = "fetching", NEW p \in todo, ReadError(repo[p]) = "none"
  PROVE  LET new == Keep([path |-> p, hits |-> repo[p].hits])
         IN  new \in SUBSET Hit /\ \A d \in new : Witnessed(d)
<1> USE DEF ReadInv
<1>1. p \in Path /\ WasAt(p, repo[p]) BY DEF TypeOK, Honest
<1>2. repo[p] \in File /\ repo[p].kind \in Legible
  <2>1. repo[p] \in File \cup {Absent} BY <1>1 DEF TypeOK, Contents
  <2>2. QED BY <2>1, ErrorsAreClasses
<1>3. repo[p].hits \in 0..MaxHits BY <1>2, ReadsAssumption DEF File, ReadsAssumption
<1>4. [path |-> p, hits |-> repo[p].hits] \in Hit BY <1>1, <1>3 DEF Hit
<1>5. Witnessed([path |-> p, hits |-> repo[p].hits]) BY <1>1, <1>2 DEF Witnessed
<1>6. QED BY <1>4, <1>5 DEF Keep

\* The read goes on with one path less.
LEMMA GoingOn ==
  ASSUME ReadInv, phase = "fetching", NEW p \in todo, todo # {p}, todo' = todo \ {p},
         NEW o \in Fault \cup {"ok", "absent"}, Ask(o),
         found' \in SUBSET Hit, \A d \in found' : Witnessed(d),
         UNCHANGED <<repo, phase, request, attempt, answer, past, changes>>
  PROVE  ReadInv'
<1> USE DEF ReadInv
<1>1. asked' = asked + 1 /\ asked' <= Budget /\ Budget' = Budget
      /\ asked' \in Nat /\ last' \in Fault \cup {"ok", "absent"}
  BY Sending
<1>2. TypeOK' BY <1>1 DEF TypeOK
<1>3. Progress'
  <2>1. Cardinality(todo') = Cardinality(todo) - 1 /\ Cardinality(todo) \in Nat
    BY TodoCount
  <2>2. asked \in Nat /\ asked + Cardinality(todo) <= Budget /\ Budget \in Nat
    BY BudgetType DEF Progress, TypeOK
  <2>3. asked' + Cardinality(todo') <= Budget' BY <1>1, <2>1, <2>2
  <2>4. QED BY <2>3 DEF Progress
<1>4. WithinBudget' BY <1>1 DEF WithinBudget
<1>5. Honest' /\ ServedWasThere' BY DEF Honest, ServedWasThere, Witnessed, WasAt
<1>6. QED BY <1>2, <1>3, <1>4, <1>5

LEMMA GetFileKeeps ==
  ASSUME ReadInv, GetFile
  PROVE  ReadInv'
<1> USE DEF ReadInv
<1>1. PICK p \in todo :
        /\ Ask(IF repo[p] = Absent THEN "absent" ELSE "ok")
        /\ \/ ReadError(repo[p]) = "none" /\ Take(p)
           \/ /\ TriesNext(repo[p], p)
              /\ todo' = todo \ {p} /\ UNCHANGED <<phase, answer, found>>
           \/ /\ ReadError(repo[p]) # "none" /\ Fail(ReadError(repo[p]))
  BY DEF GetFile
<1> DEFINE o == IF repo[p] = Absent THEN "absent" ELSE "ok"
<1>2. o \in Fault \cup {"ok", "absent"} /\ Ask(o) BY <1>1
<1>3. phase = "fetching" /\ UNCHANGED <<repo, request, attempt, past, changes>>
      /\ request.op \notin Github /\ todo \in SUBSET Path
  BY DEF GetFile, Progress, TypeOK, Fetching, Registry, Github
<1>4. {"none", "not_found"} \subseteq ErrorClass BY DEF ErrorClass, McpClass
<1> HIDE DEF o
<1>5. CASE ReadError(repo[p]) = "none" /\ Take(p)
  <2>1. found' \in SUBSET Hit /\ (\A d \in found' : Witnessed(d)) /\ todo' = todo \ {p}
    BY <1>3, <1>5, KeptIsWitnessed DEF Take, TypeOK, Honest
  <2>2. CASE request.op \in Fetching
    <3>1. Finish("none", found') BY <1>5, <2>2 DEF Take
    <3>2. QED BY <1>2, <1>3, <1>4, <2>1, <3>1, Ending
  <2>3. CASE request.op \notin Fetching /\ todo' = {}
    <3>1. Conclude(found') BY <1>5, <2>3 DEF Take
    <3>2. phase' = "done" /\ answer' \in [class : {"none", "not_found"}, found : SUBSET found']
      BY <2>1, <3>1, Concluding
    <3>3. PICK c \in {"none", "not_found"}, S \in SUBSET found' :
            answer' = [class |-> c, found |-> S]
      BY <3>2
    <3>4. Finish(c, S) BY <3>2, <3>3 DEF Finish
    <3>5. S \in SUBSET Hit /\ \A d \in S : Witnessed(d) BY <2>1
    <3>6. todo' \in SUBSET Path BY <1>3, <2>1
    <3>7. QED BY <1>2, <1>3, <1>4, <2>1, <3>4, <3>5, <3>6, Ending
  <2>4. CASE request.op \notin Fetching /\ todo' # {}
    <3>1. UNCHANGED <<phase, answer>> /\ todo # {p} BY <1>5, <2>1, <2>4 DEF Take
    <3>2. QED BY <1>2, <1>3, <2>1, <3>1, GoingOn
  <2>5. QED BY <2>2, <2>3, <2>4
<1>6. CASE /\ TriesNext(repo[p], p)
           /\ todo' = todo \ {p} /\ UNCHANGED <<phase, answer, found>>
  <2>1. todo # {p} BY <1>6 DEF TriesNext
  <2>2. found' \in SUBSET Hit /\ \A d \in found' : Witnessed(d) BY <1>6 DEF TypeOK, Honest
  <2>3. QED BY <1>2, <1>3, <1>6, <2>1, <2>2, GoingOn
<1>7. CASE ReadError(repo[p]) # "none" /\ Fail(ReadError(repo[p]))
  <2>1. ReadError(repo[p]) \in ErrorClass
    <3>1. repo[p] \in File \cup {Absent} BY <1>3 DEF TypeOK, Contents
    <3>2. QED BY <3>1, ErrorsAreClasses
  <2>2. Finish(ReadError(repo[p]), {}) /\ UNCHANGED <<todo, found>> BY <1>7 DEF Fail
  <2>3. found' \in SUBSET Hit /\ (\A d \in found' : Witnessed(d)) /\ todo' \in SUBSET Path
    BY <1>3, <2>2 DEF TypeOK, Honest
  <2>4. QED BY <1>2, <1>3, <2>1, <2>2, <2>3, Ending
<1>8. QED BY <1>1, <1>5, <1>6, <1>7

LEMMA CommitKeeps ==
  ASSUME ReadInv, NEW S \in SUBSET Path, NEW g \in [S -> File \cup {Absent}], Commit(S, g)
  PROVE  ReadInv'
<1> USE DEF ReadInv
<1>1. past \subseteq past' /\ past' \in SUBSET (Path \X (File \cup {Absent}))
  BY DEF Commit, TypeOK
<1>2. repo' \in Contents BY DEF Commit, TypeOK, Contents
<1>3. changes' \in 0..MaxChanges BY ReadsAssumption DEF Commit, TypeOK, ReadsAssumption
<1>4. TypeOK' BY <1>1, <1>2, <1>3 DEF Commit, TypeOK
<1>5. Progress' /\ WithinBudget' BY DEF Commit, Progress, WithinBudget, Budget
<1>6. Honest'
  <2>1. \A p \in Path : WasAt(p, repo[p])' BY DEF Commit, Honest, WasAt
  <2>2. \A d \in found' : Witnessed(d)' BY <1>1, WitnessedStays DEF Commit, Honest
  <2>3. QED BY <2>1, <2>2 DEF Honest
<1>7. ServedWasThere' BY DEF Commit, ServedWasThere
<1>8. QED BY <1>4, <1>5, <1>6, <1>7

-----------------------------------------------------------------------------
\* The invariant of the three theorems below.
LEMMA ReadInvariant == Spec => []ReadInv
<1>1. Init => ReadInv BY ReadInvInit
<1>2. ReadInv /\ [Next]_vars => ReadInv'
  <2> SUFFICES ASSUME ReadInv, [Next]_vars PROVE ReadInv' OBVIOUS
  <2>1. ASSUME NEW q \in Request, Begin(q) PROVE ReadInv' BY <2>1, BeginKeeps
  <2>2. CASE GetTree BY <2>2, GetTreeKeeps
  <2>3. CASE GetFile BY <2>3, GetFileKeeps
  <2>4. CASE GithubOk \/ Resume
    <3>1. "reset" \in Fault BY DEF Fault
    <3>2. QED BY <2>4, <3>1, GithubKeeps
  <2>5. ASSUME NEW o \in Fault, DocsFault(o) \/ GithubRetry(o) PROVE ReadInv'
    BY <2>5, FailingKeeps, GithubKeeps
  <2>6. ASSUME NEW o \in Fault \cup {"absent"}, GithubFault(o) PROVE ReadInv'
    BY <2>6, FailingKeeps
  <2>7. ASSUME NEW S \in SUBSET Path \ {{}}, NEW g \in [S -> File \cup {Absent}], Commit(S, g)
        PROVE ReadInv'
    BY <2>7, CommitKeeps
  <2>8. CASE UNCHANGED vars
    BY <2>8 DEF vars, ReadInv, TypeOK, Progress, WithinBudget, Budget, Honest,
                ServedWasThere, Witnessed, WasAt
  <2>9. QED BY <2>1, <2>2, <2>3, <2>4, <2>5, <2>6, <2>7, <2>8 DEF Next, Step
<1>3. QED BY <1>1, <1>2, PTL DEF Spec

\* Every read is well typed: it can end in no error class but those of the
\* contract, for any contents of the repository.
THEOREM ReadsTypeCorrect == Spec => []TypeOK
<1>1. ReadInv => TypeOK BY DEF ReadInv
<1>2. QED BY <1>1, ReadInvariant, PTL

\* A read stays within its budget of requests, whatever the services answer and
\* whatever is committed meanwhile, and a GitHub read reports a rate limit only
\* after spending it (github_get_json, list_documents, get_adr).
THEOREM ReadsStayInBudget == Spec => []WithinBudget
<1>1. ReadInv => WithinBudget BY DEF ReadInv
<1>2. QED BY <1>1, ReadInvariant, PTL

\* Whatever a read serves was in the repository during the read (search_docs,
\* get_doc, get_adr, get_project_architecture).
THEOREM NothingInvented == Spec => []ServedWasThere
<1>1. ReadInv => ServedWasThere BY DEF ReadInv
<1>2. QED BY <1>1, ReadInvariant, PTL

-----------------------------------------------------------------------------
(***************************************************************************)
(* Why every read ends: what EveryReadEnds rests on besides fairness.       *)
(***************************************************************************)

\* A set of naturals that is not empty has a least member.
Lesser == {p \in Nat \X Nat : p[1] < p[2]}
LEMMA LesserEnds == IsWellFoundedOn(Lesser, Nat)
BY NatLessThanWellFounded DEF Lesser, OpToRel

LEMMA Least ==
  ASSUME NEW S, S \subseteq Nat, S # {}
  PROVE  \E n \in S : \A m \in S : n <= m
<1>1. PICK n \in S : \A m \in S : ~ (<<m, n>> \in Lesser) BY LesserEnds, WFMin
<1>2. ASSUME NEW m \in S PROVE n <= m
  <2>1. m \in Nat /\ n \in Nat OBVIOUS
  <2>2. m < n => <<m, n>> \in Lesser BY <2>1 DEF Lesser
  <2>3. ~ (m < n) BY <1>1, <2>2
  <2>4. QED BY <2>1, <2>3
<1>3. QED BY <1>2

\* The order of search_docs ranks any results there are: one of them goes before
\* all the others, and only one does, so that get_project_architecture serves one
\* document and its choice does not depend on the order of the tree.
THEOREM RankingHasOneFirst ==
  ASSUME NEW S \in SUBSET Hit, S # {}
  PROVE  /\ \E d \in S : \A e \in S \ {d} : Before(d, e)
         /\ \A d, e \in S : /\ \A x \in S \ {d} : Before(d, x)
                            /\ \A x \in S \ {e} : Before(e, x)
                            => d = e
<1>1. \A d \in S : d.path \in Nat /\ d.hits \in Nat /\ d.hits <= MaxHits
                   /\ d = [path |-> d.path, hits |-> d.hits]
  <2>1. TAKE d \in S
  <2>2. Path \subseteq Nat /\ MaxHits \in Nat BY ReadsAssumption DEF ReadsAssumption
  <2>3. d \in Hit OBVIOUS
  <2>4. d.path \in Path /\ d.hits \in 0..MaxHits BY <2>3 DEF Hit
  <2>5. d = [path |-> d.path, hits |-> d.hits] BY <2>3 DEF Hit
  <2>6. QED BY <2>2, <2>4, <2>5
<1>2. MaxHits \in Nat BY ReadsAssumption DEF ReadsAssumption
<1> DEFINE misses == {MaxHits - d.hits : d \in S}
<1>3. misses \subseteq Nat /\ misses # {} BY <1>1, <1>2
<1>4. PICK n \in misses : \A m \in misses : n <= m
  <2> HIDE DEF misses
  <2>1. QED BY <1>3, Least
<1>5. PICK b \in S : n = MaxHits - b.hits OBVIOUS
<1>6. \A e \in S : b.hits >= e.hits
  <2>1. TAKE e \in S
  <2>2. n <= MaxHits - e.hits BY <1>4
  <2>3. QED BY <1>1, <1>2, <1>5, <2>2
<1> DEFINE places == {d.path : d \in {x \in S : x.hits = b.hits}}
<1>7. places \subseteq Nat /\ places # {} BY <1>1, <1>5
<1>8. PICK k \in places : \A m \in places : k <= m
  <2> HIDE DEF places
  <2>1. QED BY <1>7, Least
<1>9. PICK d \in S : d.hits = b.hits /\ d.path = k OBVIOUS
<1>10. ASSUME NEW e \in S \ {d} PROVE Before(d, e)
  <2>1. CASE e.hits = b.hits
    <3>1. e.path \in places BY <2>1
    <3>2. k <= e.path BY <1>8, <3>1
    <3>3. e.path # d.path BY <1>1, <1>9, <2>1
    <3>4. QED BY <1>1, <1>9, <2>1, <3>2, <3>3 DEF Before
  <2>2. CASE e.hits # b.hits
    BY <1>1, <1>6, <1>9, <2>2 DEF Before
  <2>3. QED BY <2>1, <2>2
<1>11. ASSUME NEW x \in S, NEW y \in S, x # y, Before(x, y), Before(y, x) PROVE FALSE
  BY <1>1, <1>11 DEF Before
<1>12. QED BY <1>9, <1>10, <1>11

\* max_files cuts a tree of any size: there is a listing of it.
LEMMA ListingExists ==
  ASSUME NEW all \in SUBSET Path
  PROVE  \E S \in SUBSET all : S \in Listings(all)
<1>1. IsFiniteSet(all) /\ Cardinality(all) \in Nat /\ MaxFiles \in Nat /\ MaxFiles > 0
  <2>1. IsFiniteSet(Path) /\ MaxFiles \in Nat \ {0} BY ReadsAssumption DEF ReadsAssumption
  <2>2. IsFiniteSet(all) BY <2>1, FS_Subset
  <2>3. QED BY <2>1, <2>2, FS_CardinalityType
<1>2. CASE Cardinality(all) <= MaxFiles BY <1>2 DEF Listings
<1>3. CASE ~(Cardinality(all) <= MaxFiles)
  <2> DEFINE sizes == {n \in Nat : n >= MaxFiles /\ \E S \in SUBSET all : Cardinality(S) = n}
  <2>1. sizes \subseteq Nat /\ Cardinality(all) \in sizes BY <1>1, <1>3
  <2>2. PICK n \in sizes : \A m \in sizes : n <= m
    <3> HIDE DEF sizes
    <3>1. QED BY <2>1, Least
  <2>3. n \in Nat /\ n >= MaxFiles OBVIOUS
  <2>4. PICK S \in SUBSET all : Cardinality(S) = n OBVIOUS
  <2>5. IsFiniteSet(S) BY <1>1, FS_Subset
  <2>6. n = MaxFiles
    <3>1. SUFFICES ASSUME n > MaxFiles PROVE FALSE BY <1>1, <2>3
    <3>2. S # {} BY <1>1, <2>3, <2>4, <3>1, FS_EmptySet
    <3>3. PICK p \in S : TRUE BY <3>2
    <3>4. Cardinality(S \ {p}) = n - 1 BY <2>4, <2>5, FS_RemoveElement
    <3>5. S \ {p} \in SUBSET all /\ n - 1 \in Nat /\ n - 1 >= MaxFiles
      BY <1>1, <2>3, <3>1
    <3>6. n - 1 \in sizes BY <3>4, <3>5
    <3>7. n <= n - 1 BY <2>2, <3>6
    <3>8. QED BY <2>3, <3>7
  <2>7. S \in Listings(all) BY <1>3, <2>4, <2>6 DEF Listings
  <2>8. QED BY <2>7
<1>4. QED BY <1>2, <1>3

\* What the next request of a read that has not ended needs, if it is answered.
Offered == {p \in Path : Listable(p, repo[p])}
CanGoOn ==
  \/ phase = "listing" /\ \E S \in SUBSET Path : S \in Listings(Offered)
  \/ phase = "fetching" /\ \E p \in todo : /\ \A q \in todo : p <= q
                                           /\ repo[p] \in File \cup {Absent}
  \/ phase = "asking" /\ request.op \in Github
  \/ phase = "pausing" /\ attempt < MaxRetries

\* No read is ever stuck: one that listed a tree has a next path to fetch, one that
\* pauses has an attempt left, whatever was committed meanwhile.
NeverStuck == phase \notin {"idle", "done"} => CanGoOn
THEOREM NoReadIsStuck == Spec => []NeverStuck
<1>1. ReadInv => NeverStuck
  <2> SUFFICES ASSUME ReadInv, phase \notin {"idle", "done"} PROVE CanGoOn BY DEF NeverStuck
  <2> USE DEF ReadInv
  <2>1. CASE phase = "listing"
    <3>1. Offered \in SUBSET Path BY DEF Offered
    <3>2. \E S \in SUBSET Offered : S \in Listings(Offered) BY <3>1, ListingExists
    <3>3. QED BY <2>1, <3>1, <3>2 DEF CanGoOn
  <2>2. CASE phase = "fetching"
    <3>1. todo # {} /\ todo \subseteq Path /\ todo \subseteq Nat
      BY <2>2, ReadsAssumption DEF Progress, TypeOK, ReadsAssumption
    <3>2. PICK p \in todo : \A q \in todo : p <= q BY <3>1, Least
    <3>3. repo[p] \in File \cup {Absent} BY <3>1, <3>2 DEF TypeOK, Contents
    <3>4. QED BY <2>2, <3>2, <3>3 DEF CanGoOn
  <2>3. CASE phase \in {"asking", "pausing"} BY <2>3 DEF Progress, CanGoOn
  <2>4. QED BY <2>1, <2>2, <2>3 DEF TypeOK
<1>2. QED BY <1>1, ReadInvariant, PTL

\* The requests and pauses a read may still make.
Left ==
  CASE phase = "listing"  -> 1 + MaxFiles
    [] phase = "fetching" -> Cardinality(todo)
    [] phase = "asking"   -> 2 * (MaxRetries - attempt) + 1
    [] phase = "pausing"  -> 2 * (MaxRetries - attempt)
    [] OTHER              -> 0

\* Each step of a read leaves it less to do, and no commit leaves it more.
WearsOut ==
  /\ Step => Left \in Nat /\ Left' \in Nat /\ Left' < Left
  /\ phase # "idle" /\ ~Step => Left' = Left

LEMMA LeftType == ReadInv => Left \in Nat /\ (phase \notin {"idle", "done"} => Left >= 1)
<1> SUFFICES ASSUME ReadInv PROVE Left \in Nat /\ (phase \notin {"idle", "done"} => Left >= 1)
  OBVIOUS
<1>1. MaxFiles \in Nat /\ MaxRetries \in Nat /\ attempt \in Nat /\ attempt <= MaxRetries
  BY ReadsAssumption DEF ReadInv, TypeOK, ReadsAssumption
<1>2. phase = "fetching" => Cardinality(todo) \in Nat /\ Cardinality(todo) >= 1
  BY TodoCount DEF ReadInv, Progress
<1>3. phase = "pausing" => attempt < MaxRetries BY DEF ReadInv, Progress
<1>4. phase \in {"idle", "listing", "fetching", "asking", "pausing", "done"}
  BY DEF ReadInv, TypeOK
<1>5. QED BY <1>1, <1>2, <1>3, <1>4 DEF Left

\* A step that ends the read.
LEMMA EndingWearsOut ==
  ASSUME ReadInv, phase \notin {"idle", "done"}, phase' = "done"
  PROVE  Left' \in Nat /\ Left' < Left
<1>1. Left' = 0 BY DEF Left
<1>2. QED BY <1>1, LeftType

LEMMA GetTreeWearsOut ==
  ASSUME ReadInv, GetTree
  PROVE  Left' \in Nat /\ Left' < Left
<1>1. PICK S \in Listings(Offered) :
        IF request.op = "list"
        THEN phase' = "done"
        ELSE /\ todo' = S
             /\ IF S = {} THEN Conclude({}) ELSE phase' = "fetching"
  BY DEF GetTree, Finish, Offered
<1>2. Cardinality(S) \in Nat /\ Cardinality(S) <= MaxFiles BY ListingsBound DEF Offered
<1>3. phase = "listing" BY DEF GetTree
<1>4. CASE phase' = "done" BY <1>3, <1>4, EndingWearsOut
<1>5. CASE todo' = S /\ phase' = "fetching"
  BY <1>2, <1>3, <1>5, ReadsAssumption DEF Left, ReadsAssumption
<1>6. CASE Conclude({})
  <2>1. phase' = "done" BY <1>6, Concluding
  <2>2. QED BY <1>4, <2>1
<1>7. QED BY <1>1, <1>4, <1>5, <1>6

LEMMA GetFileWearsOut ==
  ASSUME ReadInv, GetFile
  PROVE  Left' \in Nat /\ Left' < Left
<1>1. PICK p \in todo :
        \/ ReadError(repo[p]) = "none" /\ Take(p)
        \/ /\ TriesNext(repo[p], p)
           /\ todo' = todo \ {p} /\ UNCHANGED phase
        \/ Fail(ReadError(repo[p]))
  BY DEF GetFile
<1>2. phase = "fetching" /\ TypeOK /\ UNCHANGED <<request, repo>> BY DEF GetFile, ReadInv
<1>3. CASE phase' = "done" BY <1>2, <1>3, EndingWearsOut
<1>4. CASE todo' = todo \ {p} /\ phase' = phase
  <2>1. Cardinality(todo \ {p}) = Cardinality(todo) - 1 /\ Cardinality(todo) \in Nat
        /\ Cardinality(todo) >= 1
    BY <1>2, TodoCount
  <2>2. QED BY <1>2, <1>4, <2>1 DEF Left
<1>5. CASE ReadError(repo[p]) = "none" /\ Take(p)
  <2>1. CASE request.op \in Fetching \/ phase' = phase
    BY <1>3, <1>4, <1>5, <2>1 DEF Take, Finish
  <2>2. CASE Conclude(found')
    <3>1. phase' = "done" BY <2>2 DEF Conclude, Finish
    <3>2. QED BY <1>3, <3>1
  <2>3. QED BY <1>5, <2>1, <2>2 DEF Take
<1>6. CASE Fail(ReadError(repo[p])) BY <1>3, <1>6 DEF Fail, Finish
<1>7. QED BY <1>1, <1>4, <1>5, <1>6

\* A read takes a bounded number of steps, whatever the services answer: the walk
\* over a listing and the retries of github_get_json only ever shorten what is
\* left, and a commit does not prolong it (search_docs, github_get_json).
THEOREM ReadsWearOut == Spec => [][WearsOut]_vars
<1>1. ReadInv /\ [Next]_vars => [WearsOut]_vars
  <2> SUFFICES ASSUME ReadInv, Next PROVE WearsOut OBVIOUS
  <2>1. ASSUME Step PROVE Left \in Nat /\ Left' \in Nat /\ Left' < Left
    <3>1. Left \in Nat BY LeftType
    <3>2. CASE GetTree \/ GetFile BY <3>1, <3>2, GetTreeWearsOut, GetFileWearsOut
    <3>3. CASE GithubOk \/ \E o \in Fault : DocsFault(o)
      BY <3>1, <3>3, EndingWearsOut DEF GithubOk, DocsFault, Fail, Finish
    <3>4. CASE \E o \in Fault \cup {"absent"} : GithubFault(o)
      BY <3>1, <3>4, EndingWearsOut DEF GithubFault, Fail, Finish
    <3>5. MaxRetries \in Nat /\ attempt \in Nat
      BY ReadsAssumption DEF ReadInv, TypeOK, ReadsAssumption
    <3>6. CASE \E o \in Fault : GithubRetry(o)
      <4>1. phase = "asking" /\ phase' = "pausing" /\ attempt < MaxRetries /\ attempt' = attempt
        BY <3>6 DEF GithubRetry, ShouldRetry
      <4>2. QED BY <3>5, <4>1 DEF Left
    <3>7. CASE Resume
      <4>1. phase = "pausing" /\ phase' = "asking" /\ attempt < MaxRetries
            /\ attempt' = attempt + 1
        BY <3>7 DEF Resume, ReadInv, Progress
      <4>2. QED BY <3>5, <4>1 DEF Left
    <3>8. QED BY <2>1, <3>2, <3>3, <3>4, <3>6, <3>7 DEF Step
  <2>2. ASSUME phase # "idle", ~Step PROVE Left' = Left
    <3>1. UNCHANGED <<phase, todo, attempt>> BY <2>2 DEF Next, Begin, Commit
    <3>2. QED BY <3>1 DEF Left
  <2>3. QED BY <2>1, <2>2 DEF WearsOut
<1>2. QED BY <1>1, ReadInvariant, PTL DEF Spec
=============================================================================
