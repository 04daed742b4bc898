---------------------------- MODULE UpstreamReads ----------------------------
(***************************************************************************)
(* One read of an outside repository on behalf of a tool body: the          *)
(* YASIN-DOCS adapter (adapters/docs.py), which lists the tree and fetches  *)
(* files one GET at a time, the project registry (project_registry.py),     *)
(* which reads the first file there is of its candidates through it, and    *)
(* the GitHub adapter (adapters/github.py), which sends one GET through     *)
(* github_get_json (reliability/http_retry.py).                             *)
(*                                                                          *)
(* Reads share nothing, so one is enough; what interferes with it is the    *)
(* repository, which anyone may change between two of its requests.  A path *)
(* is a number, in the order of str; a file is the number of times the      *)
(* query occurs in it (for the registry: of its usable entries, or of those *)
(* with the name asked for) and what its contents and size make of it:      *)
(*   plain   listed, and its encoded body passes the limit of one response  *)
(*   broken  like plain, but no YAML mapping or list                        *)
(*   wide    listed, but its base64 body is over that limit                 *)
(*   huge    over MAX_DOCUMENT_BYTES: not listed                            *)
(*   module  not a file (a submodule): not listed                           *)
(***************************************************************************)
EXTENDS Naturals, FiniteSets, ErrorContract

CONSTANTS
  Path,         \* the paths of the repository
  TextPath,     \* those _is_text_document accepts
  MaxHits,      \* bound of a file's occurrences of the query
  MayHold,      \* for each path, the files that may be put there
  MaxFiles,     \* max_files of the adapter
  MaxRetries,   \* MAX_SAFE_RETRIES
  MaxChanges,   \* bound of the commits made to the repository during a read
  MaxTouched,   \* bound of the files one commit changes
  Request,      \* what tools may ask: records of RequestType
  Absent        \* no file at a path

Listing  == {"list", "search", "architecture"}
Registry == {"projects", "project"}   \* list_projects; get_project, list_dependencies
Fetching == {"get", "adr"} \cup Registry
Github   == {"github_item", "github_list"}

\* paths: where one document is fetched, its candidates in turn; otherwise the paths the answer
\* is restricted to.  valid: the arguments pass the checks made before any request.
RequestType == [op : Listing \cup Fetching \cup Github, paths : SUBSET Path,
                valid : BOOLEAN]

\* The hits of a file whose body no read accepts do not matter.
Legible == {"plain", "broken"}
File == [hits : 0..MaxHits, kind : Legible]
          \cup [hits : {0}, kind : {"wide", "huge", "module"}]

ReadsAssumption ==
  /\ Path \subseteq Nat /\ IsFiniteSet(Path) /\ TextPath \subseteq Path
  /\ MaxHits \in Nat /\ MaxFiles \in Nat \ {0}
  /\ MaxRetries \in Nat /\ MaxChanges \in Nat /\ MaxTouched \in Nat
  /\ Request \subseteq RequestType
  /\ \A q \in Request : q.op \in Fetching => q.paths # {}
  /\ \A q \in Request : q.op = "get" => \E p \in Path : q.paths = {p}
  /\ MayHold \in [Path -> SUBSET File] /\ Absent \notin File
ASSUME ReadsAssumption

VARIABLES
  repo,     \* the repository: a file or Absent at every path
  phase,    \* idle, listing, fetching, asking, pausing or done
  request,  \* what was asked
  todo,     \* the paths still to fetch
  found,    \* what was read so far: [path, hits]
  attempt,  \* github_get_json's attempt
  answer,   \* the error class, "none" for a result, and the result
  asked,    \* history: requests sent
  last,     \* history: what the last request came to
  past,     \* history: what was ever at each path during the read
  changes   \* commits made to the repository so far

vars == <<repo, phase, request, todo, found, attempt, answer, asked, last, past,
          changes>>

Hit == [path : Path, hits : 0..MaxHits]
NoAnswer == [class |-> "none", found |-> {}]

\* What urlopen and the body of the response may come to, besides the file.
\* unreachable: a URLError, a timeout while connecting included.  timed_out: a
\* timeout while waiting for or reading the response.  reset: an OSError of
\* neither kind.  garbled: no JSON, a truncated tree, a body over the limit.
\* misshapen: no object, or no list where the operation asks for one.  hollow: an
\* object or a list with something in it that the operation stumbles over (an item
\* that is no object, a size that is no number, a content that is no base64).
\* untyped: an object that does not call itself a file.
Refusal == {"http403", "http429"}
Fault   == Refusal \cup {"http401", "http_other", "timed_out", "unreachable",
                         "reset", "garbled", "misshapen", "hollow", "untyped"}

\* The errors both clients raise alike.
CommonError ==
  [http401 |-> "unauthenticated", http_other |-> "upstream", timed_out |-> "timeout",
   unreachable |-> "unavailable", reset |-> "raw", garbled |-> "upstream"]

\* docs._request_json, and what list_documents and get_doc make of the object:
\* the listing trusts its items, the fetching checks type and content.
DocsError(o) ==
  CASE o = "http403" -> "rate_limited"
    [] o \in {"http429", "misshapen"} -> "upstream"
    [] o = "hollow"  -> IF phase = "listing" THEN "raw" ELSE "upstream"
    [] o = "untyped" -> "validation"
    [] OTHER -> CommonError[o]

\* github_get_json, and the adapter's use of the payload, of which only lists are
\* checked: the payload of a list operation, and the list inside an object (of
\* workflow runs, of search results).  The AttributeError, TypeError or ValueError
\* of anything else that is not what it should be is no McpError.
GithubErrors(op, o) ==
  CASE o \in Refusal -> {"rate_limited"}
    [] o = "misshapen" -> {IF op = "github_list" THEN "upstream" ELSE "raw"}
    [] o = "hollow" -> IF op = "github_list" THEN {"raw"} ELSE {"raw", "upstream"}
    [] o = "absent" -> {"not_found"}
    [] OTHER -> {CommonError[o]}

\* list_documents takes the item
Listable(p, f) == p \in TextPath /\ f # Absent /\ f.kind \in Legible \cup {"wide"}

\* The order of search_docs: most matches first, then by path.
Before(d, e) == d.hits > e.hits \/ (d.hits = e.hits /\ d.path < e.path)

-----------------------------------------------------------------------------
Contents == {c \in [Path -> File \cup {Absent}] :
               \A p \in Path : c[p] \in MayHold[p] \cup {Absent}}

Init ==
  /\ repo \in Contents
  /\ phase = "idle"
  /\ request = [op |-> "list", paths |-> {}, valid |-> FALSE]
  /\ todo = {} /\ found = {} /\ attempt = 0 /\ asked = 0 /\ changes = 0
  /\ past = {} /\ answer = NoAnswer /\ last = "ok"

Finish(c, S) == phase' = "done" /\ answer' = [class |-> c, found |-> S]
Fail(c) == Finish(c, {}) /\ UNCHANGED <<todo, found>>

\* The checks of the arguments: the query, path, name, limit or identifier.
Begin(q) ==
  /\ phase = "idle"
  /\ request' = q
  /\ past' = {<<p, repo[p]>> : p \in Path}
  /\ IF ~q.valid
     THEN Finish("validation", {}) /\ UNCHANGED todo
     ELSE /\ phase' = CASE q.op \in Listing -> "listing"
                        [] q.op \in Fetching -> "fetching"
                        [] OTHER -> "asking"
          /\ todo' = IF q.op \in Fetching THEN q.paths ELSE {}
          /\ UNCHANGED answer
  /\ UNCHANGED <<repo, found, attempt, asked, last, changes>>

\* The end of search_docs, in the scope search_docs_scoped gives it, and of
\* get_project_architecture, which takes the first of the ranked results whose
\* path says architecture.
Conclude(S) ==
  LET scoped == {d \in S : d.path \in request.paths}
  IN IF request.op = "search" THEN Finish("none", scoped)
     ELSE IF scoped = {} THEN Finish("not_found", {})
     ELSE \E d \in scoped : (\A e \in scoped \ {d} : Before(d, e)) /\ Finish("none", {d})

\* What a read may send: one request for the tree, one for every file, the
\* retries of github_get_json.
Budget ==
  CASE request.op \in Github -> 1 + MaxRetries
    [] request.op \in Fetching -> Cardinality(request.paths)
    [] request.op = "list" -> 1
    [] OTHER -> 1 + MaxFiles

\* A request is sent and comes to o.  The history stops counting beyond the budget.
Ask(o) ==
  /\ asked' = IF asked <= Budget THEN asked + 1 ELSE asked
  /\ last' = o

\* What list_documents may return of the documents there are: it stops at
\* max_files in the order of the tree, which it does not choose.
Listings_TooLong(all) == \* seeded fault: the limit tested after one more was taken
  {S \in SUBSET all : S = all \/ Cardinality(S) = MaxFiles + 1}
Listings(all) ==
  IF Cardinality(all) <= MaxFiles THEN {all}
  ELSE {S \in SUBSET all : Cardinality(S) = MaxFiles}

\* list_documents: one request for the tree.
GetTree ==
  /\ phase = "listing"
  /\ Ask("ok")
  /\ \E listed \in Listings({p \in Path : Listable(p, repo[p])}) :
       IF request.op = "list"
       THEN /\ Finish("none", {[path |-> p, hits |-> 0] : p \in listed \cap request.paths})
            /\ UNCHANGED todo
       ELSE /\ todo' = listed
            /\ IF listed = {} THEN Conclude({})
               ELSE phase' = "fetching" /\ UNCHANGED answer
  /\ UNCHANGED <<repo, request, found, attempt, past, changes>>

\* How get_doc fails on what is at a path, "none" when it does not.
FetchError_Cut(f) == \* seeded fault: a body cut at the limit is taken for the whole
  IF f = Absent THEN "not_found"
  ELSE IF f.kind = "module" THEN "validation" ELSE "none"
FetchError(f) ==
  IF f = Absent THEN "not_found"
  ELSE CASE f.kind \in Legible -> "none"
         [] f.kind = "module" -> "validation"
         [] f.kind \in {"wide", "huge"} -> "upstream"

\* search_docs keeps the documents that match.
Keep_Twice(d) == IF request.op \in Fetching \/ d.hits > 1 THEN {d} ELSE {} \* seeded fault: off by one
Keep(d) == IF request.op \in Fetching \/ d.hits > 0 THEN {d} ELSE {}

\* _parse_registry, _extract_entries and get_project, on the document that was
\* read: no YAML, a scalar or an empty file; no entry with the name asked for.
RegistryError(f) ==
  CASE f.kind = "broken" -> "validation"
    [] f.kind = "plain" /\ f.hits = 0 /\ request.op = "project" -> "not_found"
    [] OTHER -> "none"

\* How the read ends on what is at its next path, "none" when it takes it.
\* _load_registry reports a registry that is under none of its names as an
\* unavailable dependency, where get_adr repeats the NotFoundError.
ReadError(f) ==
  LET e == FetchError(f)
  IN IF request.op \notin Registry THEN e
     ELSE CASE e = "not_found" -> "unavailable"
            [] e = "none"      -> RegistryError(f)
            [] OTHER           -> e

\* get_adr and _load_registry catch NotFoundError and go on to their next candidate.
TriesNext_Never(f, p) == FALSE \* seeded fault: the error is not caught
TriesNext_AnyError(f, p) == \* seeded fault: except McpError
  FetchError(f) # "none" /\ request.op \in {"adr"} \cup Registry /\ todo # {p}
TriesNext(f, p) ==
  FetchError(f) = "not_found" /\ request.op \in {"adr"} \cup Registry /\ todo # {p}

\* A document was read; it is the answer, or the search goes on with the next.
Take(p) ==
  /\ found' = found \cup Keep([path |-> p, hits |-> repo[p].hits])
  /\ todo' = todo \ {p}
  /\ IF request.op \in Fetching THEN Finish("none", found')
     ELSE IF todo' = {} THEN Conclude(found')
     ELSE UNCHANGED <<phase, answer>>

\* get_doc of the next path, as search_docs, get_adr, the registry or a tool
\* calls it.
GetFile ==
  /\ phase = "fetching"
  /\ \E p \in todo :
       /\ \A q \in todo : p <= q
       /\ LET f == repo[p] e == ReadError(f)
          IN /\ Ask(IF f = Absent THEN "absent" ELSE "ok")
             /\ \/ e = "none" /\ Take(p)
                \/ TriesNext(f, p) /\ todo' = todo \ {p} /\ UNCHANGED <<phase, answer, found>>
                \/ e # "none" /\ ~TriesNext(f, p) /\ Fail(e)
  /\ UNCHANGED <<repo, request, attempt, past, changes>>

\* A request of the documentation adapter that fails: nothing is retried, and
\* get_adr and the registry catch NotFoundError only.
DocsFault(o) ==
  /\ phase \in {"listing", "fetching"}
  /\ o = "untyped" => phase = "fetching"
  /\ Ask(o)
  /\ Fail(DocsError(o))
  /\ UNCHANGED <<repo, request, attempt, past, changes>>

\* policy.should_retry(error_kind="rate_limit", attempt=attempt)
ShouldRetry_Late == attempt <= MaxRetries \* seeded fault: off by one
ShouldRetry == attempt < MaxRetries

GithubOk ==
  /\ phase = "asking"
  /\ Ask("ok")
  /\ Finish("none", {})
  /\ UNCHANGED <<repo, request, todo, found, attempt, past, changes>>

GithubRetry(o) ==
  /\ phase = "asking" /\ o \in Refusal /\ ShouldRetry
  /\ Ask(o)
  /\ phase' = "pausing"
  /\ UNCHANGED <<repo, request, todo, found, attempt, answer, past, changes>>

GithubFault(o) ==
  /\ phase = "asking" /\ o # "untyped"
  /\ o \in Refusal => ~ShouldRetry
  /\ Ask(o)
  /\ \E e \in GithubErrors(request.op, o) : Fail(e)
  /\ UNCHANGED <<repo, request, attempt, past, changes>>

\* The sleep ends.
Resume_Uncounted == \* seeded fault: the attempt is not counted
  /\ phase = "pausing"
  /\ phase' = "asking"
  /\ UNCHANGED <<repo, request, todo, found, attempt, answer, asked, last, past, changes>>
Resume ==
  /\ phase = "pausing"
  /\ attempt' = attempt + 1
  /\ phase' = "asking"
  /\ UNCHANGED <<repo, request, todo, found, answer, asked, last, past, changes>>

\* Somebody pushes a commit, which changes the files of S at once.
Commit(S, g) ==
  /\ phase \in {"listing", "fetching"} /\ changes < MaxChanges
  /\ \A p \in S : g[p] \in (MayHold[p] \cup {Absent}) \ {repo[p]}
  /\ repo' = [p \in Path |-> IF p \in S THEN g[p] ELSE repo[p]]
  /\ past' = past \cup {<<p, g[p]>> : p \in S}
  /\ changes' = changes + 1
  /\ UNCHANGED <<phase, request, todo, found, attempt, answer, asked, last>>

Step ==
  \/ GetTree \/ GetFile \/ GithubOk \/ Resume
  \/ \E o \in Fault : DocsFault(o) \/ GithubRetry(o)
  \/ \E o \in Fault \cup {"absent"} : GithubFault(o)

Next ==
  \/ \E q \in Request : Begin(q)
  \/ Step
  \/ \E S \in SUBSET Path \ {{}} : Cardinality(S) <= MaxTouched
       /\ \E g \in [S -> File \cup {Absent}] : Commit(S, g)

Spec == Init /\ [][Next]_vars
FairSpec == Spec /\ WF_vars(Step)

-----------------------------------------------------------------------------
\* Every variable has the values the code can give it.
TypeOK ==
  /\ repo \in Contents
  /\ phase \in {"idle", "listing", "fetching", "asking", "pausing", "done"}
  /\ request \in RequestType
  /\ todo \in SUBSET Path /\ found \in SUBSET Hit
  /\ attempt \in 0..MaxRetries /\ asked \in Nat /\ changes \in 0..MaxChanges
  /\ answer \in [class : ErrorClass, found : SUBSET Hit]
  /\ last \in Fault \cup {"ok", "absent"}
  /\ past \in SUBSET (Path \X (File \cup {Absent}))

Done(op) == phase = "done" /\ request.op = op
WasAt(p, f)    == <<p, f>> \in past
StoodStill(p)  == \A f \in File \cup {Absent} : WasAt(p, f) => f = repo[p]
Matched(p)     == repo[p] # Absent /\ repo[p].kind \in Legible /\ repo[p].hits > 0
\* The listing cannot have been cut by max_files.
NeverCut ==
  Cardinality({p \in Path : \E f \in File : WasAt(p, f) /\ Listable(p, f)}) <= MaxFiles

\* Whatever is served was in the repository, with these contents, at some
\* moment of the read; a search never invents or mixes a document
\* (search_docs, get_doc).
ServedWasThere ==
  phase = "done" /\ request.op # "list" =>
    \A d \in answer.found : \E f \in File :
      WasAt(d.path, f) /\ f.hits = d.hits /\ f.kind \in Legible

\* A search that answers has every document that stood still during it, is text,
\* matches and is in its scope, whatever was committed meanwhile elsewhere;
\* get_project_architecture serves one that none of those precedes
\* (list_documents, search_docs, search_docs_scoped, get_project_architecture).
StableMatchIsServed ==
  phase = "done" /\ answer.class = "none" /\ NeverCut =>
    \A p \in TextPath \cap request.paths :
      StoodStill(p) /\ Matched(p) =>
        /\ Done("search") => [path |-> p, hits |-> repo[p].hits] \in answer.found
        /\ Done("architecture") =>
             \A d \in answer.found : ~ Before([path |-> p, hits |-> repo[p].hits], d)

\* "Not found" is said of something that was not there: each path get_doc or
\* get_adr was asked for; the project, in a registry that no other one preceded;
\* for a search, a document that was there and went; for the architecture of a
\* project that, or no match that stood still.
NotFoundWasAbsent ==
  phase = "done" /\ answer.class = "not_found" =>
    LET vanished == \E p \in Path : WasAt(p, Absent) /\ \E f \in File : WasAt(p, f)
    IN CASE request.op \in {"get", "adr"} -> \A p \in request.paths : WasAt(p, Absent)
         [] request.op \in Registry ->
              \E p \in request.paths :
                /\ WasAt(p, [hits |-> 0, kind |-> "plain"])
                /\ \A q \in request.paths : q < p => WasAt(q, Absent)
         [] request.op = "search" -> vanished
         [] request.op = "architecture" ->
              vanished \/ (NeverCut =>
                ~ \E p \in TextPath \cap request.paths : StoodStill(p) /\ Matched(p))
         [] OTHER -> request.op \in Github

\* Of the names a document may have, an earlier one goes before a later one: what
\* get_adr or the registry serves was missing under every earlier name, and a
\* registry reported as unavailable was missing under all of them (unless the
\* service was out of reach), whatever was renamed meanwhile (get_adr,
\* _load_registry).
FirstNameWins ==
  phase = "done" /\ request.op \in Fetching =>
    /\ \A d \in answer.found : \A q \in request.paths : q < d.path => WasAt(q, Absent)
    /\ answer.class = "unavailable" /\ last # "unreachable" =>
         \A q \in request.paths : WasAt(q, Absent)

\* A read sends no more requests than its budget, and a GitHub read says it is
\* rate limited only after the whole of it was refused
\* (github_get_json, list_documents, get_adr).
WithinBudget ==
  /\ asked <= Budget
  /\ phase = "done" /\ request.op \in Github /\ answer.class = "rate_limited" =>
       asked = Budget

\* Every read that began ends: the retries and the walk over the listing cannot
\* go on for ever, even though the repository changes.
EveryReadEnds == phase # "idle" ~> phase = "done"
=============================================================================
