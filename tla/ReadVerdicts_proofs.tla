------------------------- MODULE ReadVerdicts_proofs -------------------------
(***************************************************************************)
(* Proofs of what the answers of a read mean, for any repository and any    *)
(* commits made to it during the read: a search that answers has whatever   *)
(* stood still, "not found" was absent, and earlier names go before later   *)
(* ones.  They rest on the invariant of UpstreamReads_proofs.               *)
(***************************************************************************)
EXTENDS UpstreamReads_proofs

HitAt(p) == [path |-> p, hits |-> repo[p].hits]

\* The candidates already tried were missing, and nothing is found before the last.
Names ==
  phase = "fetching" /\ request.op \in Fetching =>
    /\ todo \subseteq request.paths /\ found = {}
    /\ request.op = "get" => request.paths = todo /\ \E p \in Path : todo = {p}
    /\ \A q \in request.paths \ todo : WasAt(q, Absent)

\* A search walks over what was listed, which was there when it was.
Listed ==
  phase = "fetching" /\ request.op \notin Fetching =>
    \A p \in todo : \E f \in File : WasAt(p, f)

\* What stood still and matches is found or still to be fetched.
Covered ==
  phase = "fetching" /\ request.op \notin Fetching /\ NeverCut =>
    \A p \in TextPath : StoodStill(p) /\ Matched(p) => p \in todo \/ HitAt(p) \in found

Verdicts == NotFoundWasAbsent /\ FirstNameWins /\ StableMatchIsServed
VerdictInv == Verdicts /\ Names /\ Listed /\ Covered

-----------------------------------------------------------------------------
\* The history only grows: a listing that cannot have been cut could not have
\* been cut before, and a path that stood still stood still before.
LEMMA LookingBack ==
  ASSUME TypeOK, past \subseteq past', past' \subseteq Path \X (File \cup {Absent})
  PROVE  /\ NeverCut' => NeverCut
         /\ \A p \in Path : WasAt(p, repo[p]) /\ StoodStill(p)' =>
              StoodStill(p) /\ repo'[p] = repo[p]
<1> DEFINE All == {p \in Path : \E f \in File : WasAt(p, f) /\ Listable(p, f)}
<1>1. IsFiniteSet(All') /\ All \subseteq All'
  <2>1. All \subseteq All' BY DEF WasAt
  <2>2. All' \subseteq Path OBVIOUS
  <2>3. QED BY <2>1, <2>2, FS_Subset, ReadsAssumption DEF ReadsAssumption
<1>2. NeverCut' => NeverCut
  <2>1. IsFiniteSet(All) /\ Cardinality(All) <= Cardinality(All')
    BY <1>1, FS_Subset
  <2>2. Cardinality(All) \in Nat /\ Cardinality(All') \in Nat
    BY <1>1, <2>1, FS_CardinalityType
  <2>3. QED BY <2>1, <2>2, ReadsAssumption DEF NeverCut, ReadsAssumption
<1>3. ASSUME NEW p \in Path, WasAt(p, repo[p]), StoodStill(p)'
      PROVE  StoodStill(p) /\ repo'[p] = repo[p]
  <2>1. repo[p] \in File \cup {Absent} BY DEF TypeOK, Contents
  <2>2. \A f \in File \cup {Absent} : WasAt(p, f) => f = repo'[p]
    BY <1>3 DEF StoodStill, WasAt
  <2>3. repo[p] = repo'[p] BY <1>3, <2>1, <2>2
  <2>4. QED BY <2>2, <2>3 DEF StoodStill
<1>4. QED BY <1>2, <1>3

\* The end of a search or of the choice of an architecture document.
LEMMA ConcludingWell ==
  ASSUME NEW S \in SUBSET Hit, Conclude(S), UNCHANGED <<repo, request, past>>,
         request.op \in {"search", "architecture"},
         NeverCut => \A p \in TextPath : StoodStill(p) /\ Matched(p) => HitAt(p) \in S
  PROVE  Verdicts'
<1> DEFINE scoped == {d \in S : d.path \in request.paths}
<1>1. NeverCut => \A p \in TextPath \cap request.paths :
        StoodStill(p) /\ Matched(p) => HitAt(p) \in scoped
  BY DEF HitAt
<1>2. request.op \notin Fetching BY DEF Fetching, Registry
<1>3. FirstNameWins' BY <1>2 DEF FirstNameWins
<1>4. CASE request.op = "search"
  <2>1. answer' = [class |-> "none", found |-> scoped] BY <1>4 DEF Conclude, Finish
  <2>2. NotFoundWasAbsent' BY <2>1 DEF NotFoundWasAbsent
  <2>3. StableMatchIsServed'
    BY <1>1, <1>4, <2>1
       DEF StableMatchIsServed, Done, NeverCut, StoodStill, Matched, WasAt, HitAt
  <2>4. QED BY <1>3, <2>2, <2>3 DEF Verdicts
<1>5. CASE request.op = "architecture" /\ scoped = {}
  <2>1. answer' = [class |-> "not_found", found |-> {}] BY <1>5 DEF Conclude, Finish
  <2>2. NeverCut => ~ \E p \in TextPath \cap request.paths : StoodStill(p) /\ Matched(p)
    BY <1>1, <1>5
  <2>3. NotFoundWasAbsent'
    BY <1>5, <2>2
       DEF NotFoundWasAbsent, Registry, NeverCut, StoodStill, Matched, WasAt
  <2>4. StableMatchIsServed' BY <2>1 DEF StableMatchIsServed
  <2>5. QED BY <1>3, <2>3, <2>4 DEF Verdicts
<1>6. CASE request.op = "architecture" /\ scoped # {}
  <2>1. PICK d \in scoped :
          (\A e \in scoped \ {d} : Before(d, e)) /\ Finish("none", {d})
    BY <1>6 DEF Conclude
  <2>2. answer' = [class |-> "none", found |-> {d}] BY <2>1 DEF Finish
  <2>3. NotFoundWasAbsent' BY <2>2 DEF NotFoundWasAbsent
  <2>4. \A e \in scoped : ~ Before(e, d)
    <3>1. ASSUME NEW e \in Hit PROVE e.hits \in Nat /\ e.path \in Nat
      <4>1. e.hits \in 0..MaxHits /\ e.path \in Path BY DEF Hit
      <4>2. MaxHits \in Nat /\ Path \subseteq Nat BY ReadsAssumption DEF ReadsAssumption
      <4>3. e.path \in Nat BY <4>1, <4>2
      <4>4. QED BY <4>1, <4>2, <4>3
    <3>2. d \in Hit /\ scoped \subseteq Hit OBVIOUS
    <3>3. SUFFICES ASSUME NEW e \in scoped, Before(e, d) PROVE FALSE OBVIOUS
    <3>4. e # d => Before(d, e) BY <2>1
    <3>5. /\ d.hits \in Nat /\ d.path \in Nat /\ e.hits \in Nat /\ e.path \in Nat
      BY <3>1, <3>2, <3>3
    <3> HIDE DEF scoped
    <3>6. e = d BY <3>3, <3>4, <3>5 DEF Before
    <3>7. QED BY <3>3, <3>5, <3>6 DEF Before
  <2>5. StableMatchIsServed'
    <3>1. SUFFICES ASSUME NeverCut, NEW p \in TextPath \cap request.paths,
                          StoodStill(p), Matched(p)
                   PROVE  ~ Before(HitAt(p), d)
      BY <1>6, <2>2
         DEF StableMatchIsServed, Done, NeverCut, StoodStill, Matched, WasAt, HitAt
    <3>2. QED BY <1>1, <2>4, <3>1
  <2>6. QED BY <1>3, <2>3, <2>5 DEF Verdicts
<1>7. QED BY <1>4, <1>5, <1>6

\* A read that ends in an error other than "not found", and in "unavailable"
\* only because the service was out of reach, says nothing of the repository.
LEMMA FailingQuietly ==
  ASSUME NEW c, answer' = [class |-> c, found |-> {}], c \notin {"none", "not_found"},
         c = "unavailable" => last' = "unreachable"
  PROVE  Verdicts'
BY DEF Verdicts, NotFoundWasAbsent, FirstNameWins, StableMatchIsServed

-----------------------------------------------------------------------------
LEMMA VerdictBegin ==
  ASSUME ReadInv, NEW q \in Request, Begin(q)
  PROVE  VerdictInv'
<1>1. found' = {} /\ request' = q BY DEF Begin, ReadInv, Progress
<1>2. q.op \in Fetching => q.paths # {} /\ (q.op = "get" => \E p \in Path : q.paths = {p})
  BY ReadsAssumption DEF ReadsAssumption
<1>3. CASE phase' = "done"
  <2>1. answer' = [class |-> "validation", found |-> {}]
    BY <1>3 DEF Begin, Finish
  <2>2. Verdicts' BY <2>1 DEF Verdicts, NotFoundWasAbsent, FirstNameWins, StableMatchIsServed
  <2>3. QED BY <1>3, <2>2 DEF VerdictInv, Names, Listed, Covered
<1>4. CASE phase' = "fetching"
  <2>1. q.op \in Fetching /\ todo' = q.paths BY <1>4 DEF Begin, Finish
  <2>2. QED BY <1>1, <1>2, <1>4, <2>1
        DEF VerdictInv, Verdicts, NotFoundWasAbsent, FirstNameWins, StableMatchIsServed,
            Names, Listed, Covered
<1>5. CASE phase' \notin {"done", "fetching"}
  BY <1>5 DEF VerdictInv, Verdicts, NotFoundWasAbsent, FirstNameWins, StableMatchIsServed,
              Names, Listed, Covered
<1>6. QED BY <1>3, <1>4, <1>5

\* The listing: everything listed is there, and all of it unless it is cut.
LEMMA VerdictGetTree ==
  ASSUME ReadInv, GetTree
  PROVE  VerdictInv'
<1> USE DEF ReadInv
<1> DEFINE all == {p \in Path : Listable(p, repo[p])}
<1>1. PICK S \in Listings(all) :
        IF request.op = "list"
        THEN /\ Finish("none", {[path |-> p, hits |-> 0] : p \in S \cap request.paths})
             /\ UNCHANGED todo
        ELSE /\ todo' = S
             /\ IF S = {} THEN Conclude({})
                ELSE phase' = "fetching" /\ UNCHANGED answer
  BY DEF GetTree
<1>2. phase = "listing" /\ request.op \in {"list", "search", "architecture"}
      /\ UNCHANGED <<repo, request, found, past>>
  BY DEF GetTree, Progress, Listing
<1>3. request.op \notin Fetching BY <1>2 DEF Fetching, Registry
<1>4. \A p \in Path : WasAt(p, repo[p]) BY <1>2 DEF Honest
<1>5. S \subseteq all BY DEF Listings
<1>6. \A p \in all : repo[p] \in File BY DEF Listable, TypeOK, Contents
<1>7. NeverCut => all \subseteq S
  <2> DEFINE was == {p \in Path : \E f \in File : WasAt(p, f) /\ Listable(p, f)}
  <2>1. all \subseteq was BY <1>4, <1>6
  <2>2. IsFiniteSet(was) BY FS_Subset, ReadsAssumption DEF ReadsAssumption
  <2>3. IsFiniteSet(all) /\ Cardinality(all) <= Cardinality(was) BY <2>1, <2>2, FS_Subset
  <2>4. Cardinality(all) \in Nat /\ Cardinality(was) \in Nat
    BY <2>2, <2>3, FS_CardinalityType
  <2>5. NeverCut => Cardinality(all) <= MaxFiles
    BY <2>3, <2>4, ReadsAssumption DEF NeverCut, ReadsAssumption
  <2>6. QED BY <2>5 DEF Listings
<1>8. \A p \in TextPath : Matched(p) => p \in all
  BY ReadsAssumption DEF Matched, Listable, ReadsAssumption
<1>9. CASE request.op = "list"
  <2>1. phase' = "done" /\ answer'.class = "none" BY <1>1, <1>9 DEF Finish
  <2>2. QED BY <1>2, <1>3, <1>9, <2>1
        DEF VerdictInv, Verdicts, NotFoundWasAbsent, FirstNameWins, StableMatchIsServed,
            Done, Names, Listed, Covered
<1>10. CASE request.op # "list" /\ S = {}
  <2>1. NeverCut => \A p \in TextPath : StoodStill(p) /\ Matched(p) => HitAt(p) \in {}
    BY <1>7, <1>8, <1>10
  <2>2. Conclude({}) BY <1>1, <1>10
  <2>3. Verdicts'
    <3>1. request.op \in {"search", "architecture"} BY <1>2, <1>10
    <3>2. QED BY <1>2, <2>1, <2>2, <3>1, ConcludingWell
  <2>4. phase' = "done" BY <2>2 DEF Conclude, Finish
  <2>5. QED BY <2>3, <2>4 DEF VerdictInv, Names, Listed, Covered
<1>11. CASE request.op # "list" /\ S # {}
  <2>1. phase' = "fetching" /\ todo' = S BY <1>1, <1>11
  <2>2. Verdicts'
    BY <2>1 DEF Verdicts, NotFoundWasAbsent, FirstNameWins, StableMatchIsServed
  <2>3. Names' BY <1>2, <1>3 DEF Names
  <2>4. Listed' BY <1>2, <1>4, <1>5, <1>6, <2>1 DEF Listed, WasAt
  <2>5. Covered'
    BY <1>2, <1>7, <1>8, <2>1 DEF Covered, NeverCut, StoodStill, Matched, WasAt
  <2>6. QED BY <2>2, <2>3, <2>4, <2>5 DEF VerdictInv
<1>12. QED BY <1>9, <1>10, <1>11

\* What the errors of a read of one path say of what was there.
LEMMA ErrorsTellWhatWasThere ==
  ASSUME NEW f \in File \cup {Absent}
  PROVE  /\ FetchError(f) = "not_found" => f = Absent
         /\ ReadError(f) = "unavailable" => f = Absent /\ request.op \in Registry
         /\ ReadError(f) = "not_found" =>
              IF request.op \in Registry THEN f = [hits |-> 0, kind |-> "plain"]
              ELSE f = Absent
         /\ ReadError(f) = "none" => FetchError(f) = "none"
<1>1. FetchError(f) = "not_found" => f = Absent BY DEF FetchError, File, Legible
<1>2. FetchError(f) \in {"none", "not_found", "validation", "upstream"}
  BY DEF FetchError, File, Legible
<1>3. FetchError(f) = "none" => f \in File BY DEF FetchError
<1>4. RegistryError(f) \in {"none", "not_found", "validation"} BY DEF RegistryError
<1>5. RegistryError(f) = "not_found" => f.kind = "plain" /\ f.hits = 0
  BY DEF RegistryError
<1>6. f \in File /\ f.kind = "plain" /\ f.hits = 0 => f = [hits |-> 0, kind |-> "plain"]
  BY DEF File, Legible
<1>7. QED BY <1>1, <1>2, <1>3, <1>4, <1>5, <1>6 DEF ReadError

\* The candidates before the one that is read were missing.
LEMMA EarlierWereMissing ==
  ASSUME ReadInv, VerdictInv, phase = "fetching", request.op \in Fetching,
         NEW p \in todo, \A q \in todo : p <= q
  PROVE  \A q \in request.paths : q < p => WasAt(q, Absent)
<1>1. p \in Nat /\ request.paths \subseteq Nat
  BY ReadsAssumption DEF ReadInv, TypeOK, RequestType, ReadsAssumption
<1>2. ASSUME NEW q \in request.paths, q < p PROVE WasAt(q, Absent)
  <2>1. q \in Nat /\ q < p BY <1>1, <1>2
  <2>2. q \notin todo
    <3>1. SUFFICES ASSUME q \in todo PROVE FALSE OBVIOUS
    <3>2. p <= q BY <3>1
    <3>3. QED BY <1>1, <2>1, <3>2
  <2>3. QED BY <2>2 DEF VerdictInv, Names
<1>3. QED BY <1>2

LEMMA VerdictGetFile ==
  ASSUME ReadInv, VerdictInv, GetFile
  PROVE  VerdictInv'
<1> USE DEF ReadInv
<1>1. PICK p \in todo :
        /\ \A q \in todo : p <= q
        /\ Ask(IF repo[p] = Absent THEN "absent" ELSE "ok")
        /\ \/ ReadError(repo[p]) = "none" /\ Take(p)
           \/ /\ TriesNext(repo[p], p)
              /\ todo' = todo \ {p} /\ UNCHANGED <<phase, answer, found>>
           \/ /\ ReadError(repo[p]) # "none" /\ ~TriesNext(repo[p], p)
              /\ Fail(ReadError(repo[p]))
  BY DEF GetFile
<1>2. phase = "fetching" /\ UNCHANGED <<repo, request, past>>
      /\ request.op \in Fetching \cup {"search", "architecture"}
  BY DEF GetFile, Progress
<1>3. p \in Path /\ repo[p] \in File \cup {Absent} /\ WasAt(p, repo[p])
  BY <1>2 DEF TypeOK, Contents, Honest
<1>4. \A q \in request.paths : request.op \in Fetching /\ q < p => WasAt(q, Absent)
  BY <1>1, <1>2, EarlierWereMissing
<1>5. CASE ReadError(repo[p]) = "none" /\ Take(p) /\ request.op \in Fetching
  <2>1. found' = {HitAt(p)} BY <1>2, <1>5 DEF Take, Keep, HitAt, VerdictInv, Names
  <2>2. phase' = "done" /\ answer' = [class |-> "none", found |-> {HitAt(p)}]
    BY <1>5, <2>1 DEF Take, Finish
  <2>3. request.op \notin {"search", "architecture"} BY <1>5 DEF Fetching, Registry
  <2>4. FirstNameWins' BY <1>2, <1>4, <1>5, <2>2 DEF FirstNameWins, HitAt, WasAt
  <2>5. QED BY <1>2, <2>2, <2>3, <2>4
        DEF VerdictInv, Verdicts, NotFoundWasAbsent, StableMatchIsServed, Done,
            Names, Listed, Covered
<1>6. CASE ReadError(repo[p]) = "none" /\ Take(p) /\ request.op \notin Fetching
  <2>1. todo' = todo \ {p} /\ found' \in SUBSET Hit
        /\ found' = found \cup Keep([path |-> p, hits |-> repo[p].hits])
    BY <1>2, <1>6, KeptIsWitnessed DEF Take, TypeOK
  <2>2. Matched(p) => HitAt(p) \in found' BY <2>1 DEF Keep, Matched, HitAt
  <2>3. NeverCut => \A q \in TextPath :
          StoodStill(q) /\ Matched(q) => q \in todo' \/ HitAt(q) \in found'
    BY <1>2, <1>6, <2>1, <2>2 DEF VerdictInv, Covered
  <2>4. CASE todo' = {}
    <3>1. Conclude(found') BY <1>6, <2>4 DEF Take
    <3>2. request.op \in {"search", "architecture"} BY <1>2, <1>6
    <3>3. NeverCut => \A q \in TextPath : StoodStill(q) /\ Matched(q) => HitAt(q) \in found'
      BY <2>3, <2>4
    <3>4. UNCHANGED <<repo, request, past>> BY <1>2
    <3>5. Verdicts' BY <2>1, <3>1, <3>2, <3>3, <3>4, ConcludingWell
    <3>6. phase' = "done" BY <3>1 DEF Conclude, Finish
    <3>7. QED BY <3>5, <3>6 DEF VerdictInv, Names, Listed, Covered
  <2>5. CASE todo' # {}
    <3>1. phase' = "fetching" BY <1>2, <1>6, <2>5 DEF Take
    <3>2. Verdicts'
      BY <3>1 DEF Verdicts, NotFoundWasAbsent, FirstNameWins, StableMatchIsServed
    <3>3. Names' BY <1>2, <1>6 DEF Names
    <3>4. Listed' BY <1>2, <1>6, <2>1 DEF VerdictInv, Listed, WasAt
    <3>5. Covered'
      BY <1>2, <2>3 DEF Covered, NeverCut, StoodStill, Matched, WasAt, HitAt
    <3>6. QED BY <3>2, <3>3, <3>4, <3>5 DEF VerdictInv
  <2>6. QED BY <2>4, <2>5
<1>7. CASE /\ TriesNext(repo[p], p)
           /\ todo' = todo \ {p} /\ UNCHANGED <<phase, answer, found>>
  <2>1. request.op \in Fetching \ {"get"} /\ WasAt(p, Absent)
    BY <1>3, <1>7, ErrorsTellWhatWasThere DEF TriesNext, Fetching, Registry
  <2>2. Verdicts'
    BY <1>2, <1>7 DEF Verdicts, NotFoundWasAbsent, FirstNameWins, StableMatchIsServed
  <2>3. Names' BY <1>2, <1>7, <2>1 DEF VerdictInv, Names, WasAt
  <2>4. Listed' /\ Covered' BY <1>2, <2>1 DEF Listed, Covered
  <2>5. QED BY <2>2, <2>3, <2>4 DEF VerdictInv
<1>8. CASE /\ ReadError(repo[p]) # "none" /\ ~TriesNext(repo[p], p)
           /\ Fail(ReadError(repo[p]))
  <2>1. phase' = "done" /\ answer' = [class |-> ReadError(repo[p]), found |-> {}]
    BY <1>8 DEF Fail, Finish
  <2>2. Names' /\ Listed' /\ Covered' BY <2>1 DEF Names, Listed, Covered
  \* Where a read that tries several names gives up, all of them were missing.
  <2>3. request.op \in {"adr"} \cup Registry /\ FetchError(repo[p]) = "not_found" =>
          \A q \in request.paths : WasAt(q, Absent)
    <3>1. SUFFICES ASSUME request.op \in {"adr"} \cup Registry,
                          FetchError(repo[p]) = "not_found"
                   PROVE  \A q \in request.paths : WasAt(q, Absent)
      OBVIOUS
    <3>2. todo = {p} BY <1>8, <3>1 DEF TriesNext
    <3>3. repo[p] = Absent BY <1>3, <3>1, ErrorsTellWhatWasThere
    <3>4. request.op \in Fetching BY <3>1 DEF Fetching
    <3>5. QED BY <1>2, <1>3, <3>2, <3>3, <3>4 DEF VerdictInv, Names
  <2>4. CASE ReadError(repo[p]) = "not_found"
    <3>1. answer'.class = "not_found" /\ answer'.found = {} BY <2>1, <2>4
    <3>2. StableMatchIsServed' /\ FirstNameWins'
      BY <3>1 DEF StableMatchIsServed, FirstNameWins
    <3>3. CASE request.op \in Registry
      <4>1. repo[p] = [hits |-> 0, kind |-> "plain"]
        BY <1>3, <2>4, <3>3, ErrorsTellWhatWasThere
      <4>2. request.op \in Fetching \ {"get", "adr"}
        BY <3>3 DEF Fetching, Registry
      <4>3. p \in request.paths BY <1>2, <4>2 DEF VerdictInv, Names
      <4>4. WasAt(p, [hits |-> 0, kind |-> "plain"]) BY <1>3, <4>1
      <4>5. NotFoundWasAbsent'
        BY <1>2, <1>4, <3>3, <4>2, <4>3, <4>4 DEF NotFoundWasAbsent, WasAt, Registry
      <4>6. QED BY <2>2, <3>2, <4>5 DEF VerdictInv, Verdicts
    <3>4. CASE request.op \in {"get", "adr"}
      <4>1. WasAt(p, Absent) /\ FetchError(repo[p]) = "not_found"
        <5>1. request.op \notin Registry BY <3>4 DEF Registry
        <5>2. FetchError(repo[p]) = "not_found" BY <2>4, <5>1 DEF ReadError
        <5>3. QED BY <1>3, <5>2, ErrorsTellWhatWasThere
      <4>2. \A q \in request.paths : WasAt(q, Absent)
        <5>1. CASE request.op = "adr" BY <2>3, <4>1, <5>1
        <5>2. CASE request.op = "get"
          <6>1. request.op \in Fetching BY <5>2 DEF Fetching
          <6>2. request.paths = todo /\ \E q \in Path : todo = {q}
            BY <1>2, <5>2, <6>1 DEF VerdictInv, Names
          <6>3. QED BY <4>1, <6>2
        <5>3. QED BY <3>4, <5>1, <5>2
      <4>3. NotFoundWasAbsent'
        BY <1>2, <3>4, <4>2 DEF NotFoundWasAbsent, WasAt, Registry
      <4>4. QED BY <2>2, <3>2, <4>3 DEF VerdictInv, Verdicts
    <3>5. CASE request.op \notin Fetching
      <4>1. request.op \in {"search", "architecture"} BY <1>2, <3>5
      <4>2. repo[p] = Absent
        BY <1>3, <2>4, <3>5, ErrorsTellWhatWasThere DEF Fetching
      <4>3. \E f \in File : WasAt(p, f) BY <1>2, <3>5 DEF VerdictInv, Listed
      <4>4. NotFoundWasAbsent'
        BY <1>2, <1>3, <4>1, <4>2, <4>3 DEF NotFoundWasAbsent, WasAt, Registry
      <4>5. QED BY <2>2, <3>2, <4>4 DEF VerdictInv, Verdicts
    <3>6. QED BY <3>3, <3>4, <3>5 DEF Fetching
  <2>5. CASE ReadError(repo[p]) = "unavailable"
    <3>1. repo[p] = Absent /\ request.op \in Registry
      BY <1>3, <2>5, ErrorsTellWhatWasThere
    <3>2. \A q \in request.paths : WasAt(q, Absent)
      BY <2>3, <3>1 DEF FetchError
    <3>3. FirstNameWins' BY <1>2, <2>1, <3>2 DEF FirstNameWins, WasAt
    <3>4. NotFoundWasAbsent' /\ StableMatchIsServed'
      BY <2>1, <2>5 DEF NotFoundWasAbsent, StableMatchIsServed
    <3>5. QED BY <2>2, <3>3, <3>4 DEF VerdictInv, Verdicts
  <2>6. CASE ReadError(repo[p]) \notin {"none", "not_found", "unavailable"}
    BY <2>1, <2>2, <2>6, FailingQuietly DEF VerdictInv
  <2>7. QED BY <1>8, <2>4, <2>5, <2>6
<1>9. QED BY <1>1, <1>5, <1>6, <1>7, <1>8

\* The requests that fail, and the steps of github_get_json.
LEMMA VerdictFault ==
  ASSUME ReadInv, VerdictInv, NEW o \in Fault \cup {"absent"},
         \/ o \in Fault /\ (DocsFault(o) \/ GithubRetry(o))
         \/ GithubFault(o) \/ GithubOk \/ Resume
  PROVE  VerdictInv'
<1>1. CASE o \in Fault /\ DocsFault(o)
  <2>1. phase' = "done" /\ answer' = [class |-> DocsError(o), found |-> {}] /\ last' = o
    BY <1>1 DEF DocsFault, Fail, Finish, Ask
  <2>2. DocsError(o) \notin {"none", "not_found"}
        /\ (DocsError(o) = "unavailable" => o = "unreachable")
    BY <1>1 DEF DocsError, CommonError, Fault, Refusal
  <2>3. Verdicts' BY <2>1, <2>2, FailingQuietly
  <2>4. QED BY <2>1, <2>3 DEF VerdictInv, Names, Listed, Covered
<1>2. CASE GithubFault(o) \/ GithubOk
  <2>1. phase' = "done" /\ request' = request /\ request.op \in Github
    BY <1>2 DEF GithubFault, GithubOk, Fail, Finish, ReadInv, Progress
  <2>2. request'.op \notin Fetching \cup {"search", "architecture"}
    BY <2>1 DEF Github, Fetching, Registry
  <2>3. Verdicts'
    <3>1. FirstNameWins' BY <2>2 DEF FirstNameWins
    <3>2. StableMatchIsServed' BY <2>2 DEF StableMatchIsServed, Done
    <3>3. NotFoundWasAbsent'
      BY <2>1, <2>2 DEF NotFoundWasAbsent, Fetching
    <3>4. QED BY <3>1, <3>2, <3>3 DEF Verdicts
  <2>4. QED BY <2>1, <2>3 DEF VerdictInv, Names, Listed, Covered
<1>3. CASE (o \in Fault /\ GithubRetry(o)) \/ Resume
  <2>1. phase' \notin {"done", "fetching"} BY <1>3 DEF GithubRetry, Resume
  <2>2. QED BY <2>1 DEF VerdictInv, Verdicts, NotFoundWasAbsent, FirstNameWins,
                        StableMatchIsServed, Names, Listed, Covered
<1>4. QED BY <1>1, <1>2, <1>3

LEMMA VerdictCommit ==
  ASSUME ReadInv, ReadInv', VerdictInv,
         NEW S \in SUBSET Path, NEW g \in [S -> File \cup {Absent}], Commit(S, g)
  PROVE  VerdictInv'
<1>1. past \subseteq past' /\ phase' = phase /\ phase \in {"listing", "fetching"}
      /\ UNCHANGED <<request, todo, found>>
  BY DEF Commit
<1>2. Verdicts'
  BY <1>1 DEF Verdicts, NotFoundWasAbsent, FirstNameWins, StableMatchIsServed
<1>3. \A p, f : WasAt(p, f) => WasAt(p, f)' BY <1>1 DEF WasAt
<1>4. Names' BY <1>1, <1>3 DEF VerdictInv, Names
<1>5. Listed' BY <1>1, <1>3 DEF VerdictInv, Listed
<1>6. Covered'
  <2>1. SUFFICES ASSUME phase = "fetching", request.op \notin Fetching, NeverCut',
                        NEW p \in TextPath, StoodStill(p)', Matched(p)'
                 PROVE  p \in todo \/ HitAt(p)' \in found
    BY <1>1 DEF Covered
  <2>2. TypeOK /\ past' \subseteq Path \X (File \cup {Absent}) BY DEF ReadInv, TypeOK
  <2>3. p \in Path /\ WasAt(p, repo[p])
    BY <2>1, ReadsAssumption DEF ReadInv, Honest, ReadsAssumption
  <2>4. NeverCut /\ StoodStill(p) /\ repo'[p] = repo[p]
    BY <1>1, <2>1, <2>2, <2>3, LookingBack
  <2>5. Matched(p) /\ HitAt(p)' = HitAt(p) BY <2>1, <2>4 DEF Matched, HitAt
  <2>6. QED BY <2>1, <2>4, <2>5 DEF VerdictInv, Covered
<1>7. QED BY <1>2, <1>4, <1>5, <1>6 DEF VerdictInv

-----------------------------------------------------------------------------
\* The invariant of the theorems below.
LEMMA VerdictInvariant == Spec => []VerdictInv
<1>1. Init => VerdictInv
  BY DEF Init, VerdictInv, Verdicts, NotFoundWasAbsent, FirstNameWins,
         StableMatchIsServed, Names, Listed, Covered
<1>2. ReadInv /\ ReadInv' /\ VerdictInv /\ [Next]_vars => VerdictInv'
  <2> SUFFICES ASSUME ReadInv, ReadInv', VerdictInv, [Next]_vars PROVE VerdictInv' OBVIOUS
  <2>1. ASSUME NEW q \in Request, Begin(q) PROVE VerdictInv' BY <2>1, VerdictBegin
  <2>2. CASE GetTree BY <2>2, VerdictGetTree
  <2>3. CASE GetFile BY <2>3, VerdictGetFile
  <2>4. CASE GithubOk \/ Resume
    <3>1. "absent" \in Fault \cup {"absent"} OBVIOUS
    <3>2. QED BY <2>4, <3>1, VerdictFault
  <2>5. ASSUME NEW o \in Fault, DocsFault(o) \/ GithubRetry(o) PROVE VerdictInv'
    BY <2>5, VerdictFault
  <2>6. ASSUME NEW o \in Fault \cup {"absent"}, GithubFault(o) PROVE VerdictInv'
    BY <2>6, VerdictFault
  <2>7. ASSUME NEW S \in SUBSET Path \ {{}}, NEW g \in [S -> File \cup {Absent}], Commit(S, g)
        PROVE VerdictInv'
    BY <2>7, VerdictCommit
  <2>8. CASE UNCHANGED vars
    BY <2>8 DEF vars, VerdictInv, Verdicts, NotFoundWasAbsent, FirstNameWins,
                StableMatchIsServed, Done, NeverCut, StoodStill, Matched, WasAt,
                Names, Listed, Covered, HitAt
  <2>9. QED BY <2>1, <2>2, <2>3, <2>4, <2>5, <2>6, <2>7, <2>8 DEF Next, Step
<1>3. QED BY <1>1, <1>2, ReadInvariant, PTL DEF Spec

\* A search that answers has every document that stood still during it, is text,
\* matches and is in its scope, and the architecture served is one that none of
\* those precedes, for any repository, any limit of the listing that did not cut
\* it, and any commits (search_docs, get_project_architecture).
THEOREM NothingStableIsMissed == Spec => []StableMatchIsServed
<1>1. VerdictInv => StableMatchIsServed BY DEF VerdictInv, Verdicts
<1>2. QED BY <1>1, VerdictInvariant, PTL

\* "Not found" is never said of what was there all along (get_doc, get_adr,
\* get_project, search_docs, get_project_architecture).
THEOREM NotFoundIsTrue == Spec => []NotFoundWasAbsent
<1>1. VerdictInv => NotFoundWasAbsent BY DEF VerdictInv, Verdicts
<1>2. QED BY <1>1, VerdictInvariant, PTL

\* A document with several names is served under the first that it has, and a
\* registry is reported as unavailable only after all of its names were missing
\* (get_adr, _load_registry).
THEOREM FirstNameAlwaysWins == Spec => []FirstNameWins
<1>1. VerdictInv => FirstNameWins BY DEF VerdictInv, Verdicts
<1>2. QED BY <1>1, VerdictInvariant, PTL
==============================================================================
