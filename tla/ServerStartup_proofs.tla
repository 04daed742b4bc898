------------------------- MODULE ServerStartup_proofs -------------------------
(***************************************************************************)
(* Theorems about ServerStartup, for any groups of contracts, any host and  *)
(* any number of attempts.                                                  *)
(*                                                                          *)
(* OnlyFreshRegistriesServe speaks of runtimes that are there.  What makes  *)
(* it hold is what an attempt leaves in its registry, however it ends:      *)
(* UsedInv says that a registry once used holds one of the docs contracts,  *)
(* so that the next attempt with it never gets past them.  Likewise,        *)
(* ServedUnderItsRisk and OperationsTogether rest on what an attempt owns   *)
(* of its registry when it begins to serve (OwnInv).                        *)
(***************************************************************************)
EXTENDS ServerStartup, TLAPS

Marked(r)  == \E n \in Defines["docs"] : registry[r][n] # None
Halted     == \E n \in todo \cap Defines["docs"] : registry[using.registry][n] # None

AttemptInv ==
  /\ stage = "idle" => using = None
  /\ stage # "idle" => using.registry \in tried
  /\ stage = "docs" => todo \subseteq Defines["docs"]
  /\ stage = "docs" => \A n \in Defines["docs"] \ todo : registry[using.registry][n] # None
  /\ stage \notin {"idle", "docs"} => using.fresh /\ Marked(using.registry)
  /\ stage = "docs" => using.fresh \/ Halted

UsedInv ==
  \A r \in tried :
    \/ Marked(r)
    \/ stage = "docs" /\ using.registry = r /\ using.fresh

StartupInv == TypeOK /\ AttemptInv /\ UsedInv /\ OnlyFreshRegistriesServe

-------------------------------------------------------------------------------
\* What a contract's risk becomes is a risk.
LEMMA RiskType ==
  ASSUME NEW x PROVE AsRisk(x) \in RiskLevel
  BY DEF AsRisk, RiskLevel

\* Filling a gate's catalog keeps what it has, and adds risks only.
LEMMA ClassifiedKeeps ==
  ASSUME NEW k \in [Tool -> Opt(RiskLevel)], NEW r
  PROVE  /\ Classified(k, RiskCatalog(r)) \in [Tool -> Opt(RiskLevel)]
         /\ \A n \in Tool : k[n] # None => Classified(k, RiskCatalog(r))[n] = k[n]
  BY RiskType DEF Classified, RiskCatalog, Opt

\* Only these two actions write a registry or a catalog.
LEMMA Writers ==
  ASSUME [Next]_vars
  PROVE  \/ \E n \in Tool : RegisterOne(n)
         \/ Classify
         \/ UNCHANGED <<registry, catalog>>
  BY DEF Next, vars, local, Begin, RegisterOne, Duplicate, NextGroup, RegistrationsEnd, Provider,
     ProviderRaises, Classify, Serve, ServeOperations, Return, PathChanges

-------------------------------------------------------------------------------
LEMMA TypeInit == Init /\ StartupAssumption => TypeOK
  <1> SUFFICES ASSUME Init, StartupAssumption PROVE TypeOK
    OBVIOUS
  <1>1. /\ registry \in [Reg -> [Tool -> Opt(RiskLevel \cup {NoRisk})]]
        /\ catalog \in [GateId -> [Tool -> Opt(RiskLevel)]]
    BY DEF Init, StartupAssumption
  <1>2. host \in [registry : [Reg -> HostRegistry], catalog : [GateId -> HostCatalog]]
    BY DEF Init
  <1>3. attempts \in 0..MaxAttempts /\ runtimes \in Seq(Runtime)
    BY DEF Init, StartupAssumption
  <1>4. stage = "idle" /\ using \in Opt(Attempt)
    BY DEF Init, Opt
  <1>5. /\ gateway \in BOOLEAN /\ opsThere \in BOOLEAN /\ flareThere \in BOOLEAN
        /\ tried \in SUBSET Reg /\ todo \in SUBSET Tool /\ served \in SUBSET Tool
    BY DEF Init
  <1> QED BY <1>1, <1>2, <1>3, <1>4, <1>5 DEF TypeOK

LEMMA TypeStep == TypeOK /\ [Next]_vars /\ StartupAssumption => TypeOK'
  <1> SUFFICES ASSUME TypeOK, [Next]_vars, StartupAssumption PROVE TypeOK'
    OBVIOUS
  <1>0. /\ \A g \in Group : Wanted(g) \in SUBSET Tool /\ ServedOf[g] \in SUBSET Tool
        /\ Serving \in SUBSET Tool
        /\ \A g \in Group \ {"governance"} : After[g] \in Group
    <2>1. \A g \in Group : Wanted(g) \in SUBSET Tool /\ ServedOf[g] \in SUBSET Tool
      BY DEF StartupAssumption, Wanted
    <2>2. Serving \in SUBSET Tool
      BY <2>1 DEF Serving, Always, Group
    <2>3. \A g \in Group \ {"governance"} : After[g] \in Group
      BY DEF After, Group
    <2> QED BY <2>1, <2>2, <2>3
  <1>1. ASSUME NEW r \in Reg, NEW k \in GateId, Begin(r, k) PROVE TypeOK'
    <2>1. using' \in Attempt
      BY <1>1 DEF Begin, Attempt
    <2>2. attempts' \in 0..MaxAttempts
      BY <1>1 DEF Begin, TypeOK, StartupAssumption
    <2>3. stage' \in Group /\ todo' \in SUBSET Tool
      BY <1>0, <1>1 DEF Begin, Group
    <2>4. using' # None
      BY <2>1 DEF Attempt, StartupAssumption
    <2> QED BY <1>1, <2>1, <2>2, <2>3, <2>4 DEF Begin, TypeOK, Opt
  <1>2. ASSUME NEW n \in Tool, RegisterOne(n) PROVE TypeOK'
    <2>1. using.registry \in Reg
      BY <1>2 DEF RegisterOne, TypeOK, Attempt, Opt, Group
    <2>2. registry' \in [Reg -> [Tool -> Opt(RiskLevel \cup {NoRisk})]]
      BY <1>2, <2>1 DEF RegisterOne, TypeOK, Opt, StartupAssumption
    <2> QED BY <1>2, <2>2 DEF RegisterOne, TypeOK
  <1>3. ASSUME NEW n \in Tool, Duplicate(n) PROVE TypeOK'
    BY <1>3 DEF Duplicate, Abort, TypeOK, Opt
  <1>4. CASE NextGroup
    <2>1. stage' \in Group /\ todo' \in SUBSET Tool
      BY <1>0, <1>4 DEF NextGroup
    <2>2. stage # "idle" /\ opsThere' \in BOOLEAN
      BY <1>4 DEF NextGroup, Group, TypeOK
    <2> QED BY <1>4, <2>1, <2>2 DEF NextGroup, TypeOK
  <1>5. CASE RegistrationsEnd
    BY <1>5 DEF RegistrationsEnd, TypeOK
  <1>6. ASSUME NEW b \in BOOLEAN, Provider(b) PROVE TypeOK'
    BY <1>6 DEF Provider, TypeOK
  <1>7. CASE ProviderRaises
    BY <1>7 DEF ProviderRaises, Abort, TypeOK, Opt
  <1>8. CASE Classify
    <2>1. using.gate \in GateId
      BY <1>8 DEF Classify, TypeOK, Attempt, Opt
    <2>2. catalog' \in [GateId -> [Tool -> Opt(RiskLevel)]]
      BY <1>8, <2>1, ClassifiedKeeps DEF Classify, TypeOK
    <2> QED BY <1>0, <1>8, <2>2 DEF Classify, TypeOK
  <1>9. ASSUME NEW n \in Tool, Serve(n) PROVE TypeOK'
    BY <1>9 DEF Serve, TypeOK
  <1>10. CASE ServeOperations
    <2>1. todo' \in SUBSET Tool
      BY <1>0, <1>10 DEF ServeOperations, Group
    <2> QED BY <1>10, <2>1 DEF ServeOperations, TypeOK
  <1>11. CASE Return
    <2>1. [on |-> using, served |-> served, ops |-> opsThere, flare |-> flareThere] \in Runtime
      BY <1>11 DEF Return, TypeOK, Runtime, Opt
    <2>2. runtimes' \in Seq(Runtime)
      BY <1>11, <2>1 DEF Return, TypeOK
    <2> QED BY <1>11, <2>2 DEF Return, TypeOK, Opt
  <1>12. CASE PathChanges
    BY <1>12 DEF PathChanges, local, TypeOK
  <1>13. CASE UNCHANGED vars
    BY <1>13 DEF vars, TypeOK
  <1> QED
    BY <1>1, <1>2, <1>3, <1>4, <1>5, <1>6, <1>7, <1>8, <1>9, <1>10, <1>11, <1>12, <1>13 DEF Next

\* Whatever the host brings and wherever create fails, catalogs hold risks only
\* and every runtime handed out is whole.
THEOREM StartupTypeCorrect == Spec => []TypeOK
  <1>1. StartupAssumption
    BY StartupAssumption
  <1> QED BY <1>1, TypeInit, TypeStep, PTL DEF Spec

-------------------------------------------------------------------------------
\* No step of create edits or removes a contract or a classification.
LEMMA EntriesKept ==
  ASSUME TypeOK, [Next]_vars
  PROVE  /\ \A k \in GateId, n \in Tool : catalog[k][n] # None => catalog'[k][n] = catalog[k][n]
         /\ \A r \in Reg, n \in Tool : registry[r][n] # None => registry'[r][n] = registry[r][n]
  <1>1. ASSUME NEW n \in Tool, RegisterOne(n)
        PROVE  \A r \in Reg, m \in Tool : registry[r][m] # None => registry'[r][m] = registry[r][m]
    BY <1>1 DEF RegisterOne, Taken, TypeOK
  <1>2. ASSUME Classify
        PROVE  \A k \in GateId, n \in Tool : catalog[k][n] # None => catalog'[k][n] = catalog[k][n]
    <2>1. \A k \in GateId : catalog[k] \in [Tool -> Opt(RiskLevel)]
      BY DEF TypeOK
    <2> QED BY <1>2, <2>1, ClassifiedKeeps DEF Classify, TypeOK
  <1>3. (\E n \in Tool : RegisterOne(n)) => UNCHANGED catalog
    BY DEF RegisterOne
  <1>4. Classify => UNCHANGED registry
    BY DEF Classify
  <1> QED BY <1>1, <1>2, <1>3, <1>4, Writers

\* A gate shared by several runtimes never changes the risk of a tool it knows.
THEOREM NoRiskRewritten == Spec => RiskNeverRewritten
  <1>1. TypeOK /\ [Next]_vars =>
          [/\ \A k \in GateId, n \in Tool : catalog[k][n] # None => catalog'[k][n] = catalog[k][n]
           /\ \A r \in Reg, n \in Tool : registry[r][n] # None => registry'[r][n] = registry[r][n]]_vars
    BY EntriesKept
  <1> QED BY <1>1, StartupTypeCorrect, PTL DEF Spec, RiskNeverRewritten

-------------------------------------------------------------------------------
LEMMA UsedInit == Init => AttemptInv /\ UsedInv /\ OnlyFreshRegistriesServe
  BY DEF Init, AttemptInv, UsedInv, OnlyFreshRegistriesServe, Built

\* Once marked, always marked.
LEMMA MarkedKept ==
  ASSUME TypeOK, [Next]_vars, StartupAssumption, NEW r \in Reg, Marked(r) PROVE Marked(r)'
  <1>1. PICK n \in Defines["docs"] : registry[r][n] # None
    BY DEF Marked
  <1>2. n \in Tool
    BY DEF StartupAssumption, Group
  <1>3. registry'[r][n] # None
    BY <1>1, <1>2, EntriesKept
  <1> QED BY <1>3 DEF Marked

LEMMA UsedStep == StartupInv /\ [Next]_vars /\ StartupAssumption => StartupInv'
  <1> SUFFICES ASSUME StartupInv, [Next]_vars, StartupAssumption PROVE StartupInv'
    OBVIOUS
  <1> USE DEF StartupInv
  <1>t. TypeOK'
    BY TypeStep
  <1>g. /\ Group = {"docs", "github", "registry", "runflare", "operations", "governance"}
        /\ Defines["docs"] \subseteq Tool /\ Defines["docs"] # {}
        /\ Wanted("docs") = Defines["docs"] /\ tried \subseteq Reg
    BY DEF Group, StartupAssumption, Wanted, TypeOK
  <1>m. \A r \in tried : Marked(r) => Marked(r)'
    BY <1>g, MarkedKept
  \* Steps that leave the registries and the attempt as they are, and its stage
  \* where it was or further on.
  <1>o. ASSUME UNCHANGED <<registry, using, tried, runtimes>>,
               stage \notin {"idle", "docs"}, stage' \notin {"idle", "docs"}
        PROVE  StartupInv'
    BY <1>t, <1>o DEF AttemptInv, UsedInv, OnlyFreshRegistriesServe, Built, Marked, Halted
  \* Steps that end the attempt.
  <1>e. ASSUME UNCHANGED <<registry, tried>>, stage' = "idle", using' = None,
               stage # "idle", stage = "docs" => Marked(using.registry)
        PROVE  AttemptInv' /\ UsedInv'
    BY <1>e DEF AttemptInv, UsedInv, Marked, Halted
  <1>1. ASSUME NEW r \in Reg, NEW k \in GateId, Begin(r, k) PROVE StartupInv'
    <2>1. /\ stage = "idle" /\ stage' = "docs" /\ todo' = Defines["docs"]
          /\ using' = [registry |-> r, gate |-> k, fresh |-> r \notin tried]
          /\ tried' = tried \cup {r} /\ UNCHANGED <<registry, runtimes>>
      BY <1>g, <1>1 DEF Begin
    <2>2. r \in tried => Marked(r)
      BY <2>1 DEF UsedInv
    <2>3. AttemptInv'
      BY <2>1, <2>2 DEF AttemptInv, Marked, Halted
    <2>4. UsedInv'
      BY <2>1 DEF UsedInv, Marked
    <2>5. OnlyFreshRegistriesServe'
      BY <2>1 DEF OnlyFreshRegistriesServe, Built
    <2> QED BY <1>t, <2>3, <2>4, <2>5
  <1>2. ASSUME NEW n \in Tool, RegisterOne(n) PROVE StartupInv'
    <2>1. /\ stage \in Group /\ stage # "idle" /\ using \in Attempt /\ using.registry \in Reg
          /\ DefinedRisk[n] # None
      BY <1>2, <1>g DEF RegisterOne, TypeOK, Attempt, Opt, StartupAssumption
    <2>2. /\ registry[using.registry][n] = None /\ registry'[using.registry][n] # None
          /\ \A m \in Tool \ {n} : registry'[using.registry][m] = registry[using.registry][m]
      BY <1>2, <2>1 DEF RegisterOne, Taken, TypeOK
    <2>3. todo' = todo \ {n} /\ UNCHANGED <<stage, using, tried, runtimes>>
      BY <1>2 DEF RegisterOne
    <2>4. stage = "docs" /\ Halted => Halted'
      BY <1>g, <2>2, <2>3 DEF Halted
    <2>5. stage = "docs" => \A m \in Defines["docs"] \ todo' : registry'[using.registry][m] # None
      BY <1>g, <2>2, <2>3 DEF AttemptInv
    <2>6. UsedInv'
      BY <1>m, <2>3 DEF UsedInv
    <2>7. stage \notin {"idle", "docs"} => Marked(using.registry)'
      BY <1>m, <2>1, <2>3 DEF AttemptInv, Marked
    <2>8. AttemptInv'
      BY <2>1, <2>3, <2>4, <2>5, <2>7 DEF AttemptInv, Halted, Marked
    <2>9. OnlyFreshRegistriesServe'
      BY <2>3 DEF OnlyFreshRegistriesServe, Built
    <2> QED BY <1>t, <2>6, <2>8, <2>9
  <1>3. ASSUME NEW n \in Tool, Duplicate(n) PROVE StartupInv'
    <2>1. /\ stage \in Group /\ n \in todo /\ registry[using.registry][n] # None
          /\ stage' = "idle" /\ using' = None /\ UNCHANGED <<registry, tried, runtimes>>
      BY <1>3 DEF Duplicate, Taken, Abort
    <2>2. stage = "docs" => Marked(using.registry)
      BY <1>g, <2>1 DEF AttemptInv, Marked, Halted
    <2>3. OnlyFreshRegistriesServe'
      BY <2>1 DEF OnlyFreshRegistriesServe, Built
    <2> QED BY <1>t, <1>e, <1>g, <2>1, <2>2, <2>3
  <1>4. CASE NextGroup
    <2>1. /\ stage \in Group \ {"governance"} /\ todo = {}
          /\ stage' \in {"github", "registry", "runflare", "operations", "governance"}
          /\ UNCHANGED <<registry, using, tried, runtimes>>
      BY <1>4, <1>g DEF NextGroup, After
    <2>2. CASE stage = "docs"
      <3>1. using.fresh /\ Marked(using.registry)
        BY <1>g, <2>1, <2>2 DEF AttemptInv, Halted, Marked
      <3>2. AttemptInv' /\ UsedInv'
        BY <2>1, <2>2, <3>1 DEF AttemptInv, UsedInv, Marked, Halted
      <3>3. OnlyFreshRegistriesServe'
        BY <2>1 DEF OnlyFreshRegistriesServe, Built
      <3> QED BY <1>t, <3>2, <3>3
    <2>3. CASE stage # "docs"
      BY <1>g, <1>o, <2>1, <2>3
    <2> QED BY <2>2, <2>3
  <1>5. CASE RegistrationsEnd \/ Classify \/ ServeOperations
    BY <1>5, <1>o DEF RegistrationsEnd, Classify, ServeOperations
  <1>6. ASSUME NEW b \in BOOLEAN, Provider(b) PROVE StartupInv'
    BY <1>6, <1>o DEF Provider
  <1>7. CASE ProviderRaises
    <2>1. OnlyFreshRegistriesServe'
      BY <1>7 DEF ProviderRaises, Abort, OnlyFreshRegistriesServe, Built
    <2> QED BY <1>7, <1>e, <1>t, <2>1 DEF ProviderRaises, Abort
  <1>8. ASSUME NEW n \in Tool, Serve(n) PROVE StartupInv'
    BY <1>8, <1>o DEF Serve
  <1>9. CASE Return
    <2>1. /\ AttemptInv' /\ UsedInv'
      BY <1>9, <1>e DEF Return
    <2>2. using.fresh
      BY <1>9 DEF Return, AttemptInv
    <2> DEFINE rt == [on |-> using, served |-> served, ops |-> opsThere, flare |-> flareThere]
    <2>3. runtimes' = Append(runtimes, rt) /\ runtimes \in Seq(Runtime)
      BY <1>9 DEF Return, TypeOK
    <2>4. rt.on.fresh
      BY <2>2
    <2> HIDE DEF rt
    <2>5. OnlyFreshRegistriesServe'
      BY <2>3, <2>4 DEF OnlyFreshRegistriesServe, Built
    <2> QED BY <1>t, <2>1, <2>5
  <1>10. CASE PathChanges \/ UNCHANGED vars
    BY <1>10, <1>t DEF PathChanges, local, vars, AttemptInv, UsedInv, OnlyFreshRegistriesServe,
       Built, Marked, Halted
  <1> QED
    BY <1>1, <1>2, <1>3, <1>4, <1>5, <1>6, <1>7, <1>8, <1>9, <1>10 DEF Next

\* No registry yields a runtime after an attempt with it: neither one that
\* serves already nor one that a failure left half filled.
THEOREM OneRuntimeOnARegistry == Spec => []OnlyFreshRegistriesServe
  <1>1. StartupAssumption
    BY StartupAssumption
  <1>2. Init /\ StartupAssumption => StartupInv
    BY TypeInit, UsedInit DEF StartupInv
  <1>3. StartupInv => OnlyFreshRegistriesServe
    BY DEF StartupInv
  <1> QED BY <1>1, <1>2, <1>3, UsedStep, PTL DEF Spec

-------------------------------------------------------------------------------
\* What a group registered, or will have when its turn is over.
WantedThen(g) == IF g = "operations" /\ ~opsThere THEN {} ELSE Defines[g]
Before == [docs |-> {}, github |-> {"docs"}, registry |-> {"docs", "github"},
           runflare |-> {"docs", "github", "registry"},
           operations |-> {"docs", "github", "registry", "runflare"},
           governance |-> {"docs", "github", "registry", "runflare", "operations"}]
Later == {"provider", "classify", "serve", "serve_ops"}
Own == {n \in Tool : registry[using.registry][n] = DefinedRisk[n]}

OwnInv ==
  /\ stage \in Group => /\ \A g \in Before[stage] : WantedThen(g) \subseteq Own
                        /\ WantedThen(stage) \ todo \subseteq Own
  /\ stage \in Later => \A g \in Group : WantedThen(g) \subseteq Own

ServeInv ==
  /\ stage \in Group \cup {"provider", "classify"} => served = {}
  /\ stage \in {"serve", "serve_ops"} =>
       /\ served \cup todo \subseteq Own
       /\ \A n \in Tool : registry[using.registry][n] # None => catalog[using.gate][n] # None
  /\ stage = "serve" => (served \cup todo) \cap ServedOf["operations"] = {}
  /\ stage = "serve_ops" =>
       (served \cup todo) \cap ServedOf["operations"] =
          IF opsThere THEN ServedOf["operations"] ELSE {}

HostsOrOwn ==
  /\ \A r \in Reg, n \in Tool :
       registry[r][n] \in {None, DefinedRisk[n]} \/ host.registry[r][n] # None
  /\ \A k \in GateId, n \in Tool :
       \/ catalog[k][n] \in {None, DefinedRisk[n]}
       \/ host.catalog[k][n] # None
       \/ \E r \in Reg : host.registry[r][n] # None

Sound(rt) ==
  /\ \A n \in rt.served : /\ registry[rt.on.registry][n] = DefinedRisk[n]
                          /\ catalog[rt.on.gate][n] # None
  /\ rt.served \cap ServedOf["operations"] = IF rt.ops THEN ServedOf["operations"] ELSE {}
  /\ rt.ops => \A n \in Defines["operations"] : registry[rt.on.registry][n] # None
BuiltInv == \A rt \in Built : Sound(rt)

RiskInv == TypeOK /\ OwnInv /\ ServeInv /\ HostsOrOwn /\ BuiltInv

LEMMA RiskInit == Init /\ StartupAssumption => RiskInv
  <1> SUFFICES ASSUME Init, StartupAssumption PROVE RiskInv
    OBVIOUS
  <1>1. HostsOrOwn
    BY DEF Init, HostsOrOwn
  <1>2. OwnInv /\ ServeInv
    BY DEF Init, OwnInv, ServeInv, Later, Group
  <1>3. BuiltInv
    BY DEF Init, BuiltInv, Built
  <1> QED BY <1>1, <1>2, <1>3, TypeInit DEF RiskInv

\* Everything in Built stays sound: what it relies on is never rewritten.
LEMMA SoundKept ==
  ASSUME TypeOK, BuiltInv, [Next]_vars, StartupAssumption, NEW rt \in Built
  PROVE  Sound(rt)'
  <1>1. rt \in Runtime
    BY DEF TypeOK, Built
  <1>2. rt.on.registry \in Reg /\ rt.on.gate \in GateId /\ rt.served \in SUBSET Tool
    BY <1>1 DEF Runtime, Attempt
  <1>3. Defines["operations"] \subseteq Tool /\ \A n \in Tool : DefinedRisk[n] # None
    BY DEF StartupAssumption, Group
  <1> QED BY <1>2, <1>3, EntriesKept DEF BuiltInv, Sound

\* The entries both tables get are the definitions', unless they come of the host's.
LEMMA HostsOrOwnStep ==
  ASSUME TypeOK, HostsOrOwn, [Next]_vars, StartupAssumption PROVE HostsOrOwn'
  <1>0. host' = host
    BY DEF Next, vars, local, Begin, RegisterOne, Duplicate, NextGroup, RegistrationsEnd, Provider,
       ProviderRaises, Classify, Serve, ServeOperations, Return, PathChanges
  <1>1. ASSUME NEW n \in Tool, RegisterOne(n) PROVE HostsOrOwn'
    BY <1>0, <1>1 DEF RegisterOne, HostsOrOwn, TypeOK
  <1>2. CASE Classify
    <2>1. using.gate \in GateId /\ using.registry \in Reg
      BY <1>2 DEF Classify, TypeOK, Attempt, Opt
    <2>2. ASSUME NEW k \in GateId, NEW n \in Tool
          PROVE  \/ catalog'[k][n] \in {None, DefinedRisk[n]}
                 \/ host.catalog[k][n] # None
                 \/ \E r \in Reg : host.registry[r][n] # None
      <3>1. \/ catalog'[k][n] = catalog[k][n]
            \/ registry[using.registry][n] # None
               /\ catalog'[k][n] = AsRisk(registry[using.registry][n])
            \/ catalog'[k][n] = None
        BY <1>2, <2>1 DEF Classify, Classified, RiskCatalog, TypeOK
      <3>2. registry[using.registry][n] = DefinedRisk[n] =>
              AsRisk(registry[using.registry][n]) = DefinedRisk[n]
        BY DEF AsRisk, StartupAssumption
      <3> QED BY <2>1, <3>1, <3>2 DEF HostsOrOwn
    <2>3. registry' = registry
      BY <1>2 DEF Classify
    <2> QED BY <1>0, <2>2, <2>3 DEF HostsOrOwn
  <1>3. CASE UNCHANGED <<registry, catalog>>
    BY <1>0, <1>3 DEF HostsOrOwn
  <1> QED BY <1>1, <1>2, <1>3, Writers

LEMMA RiskStep == RiskInv /\ [Next]_vars /\ StartupAssumption => RiskInv'
  <1> SUFFICES ASSUME RiskInv, [Next]_vars, StartupAssumption PROVE RiskInv'
    OBVIOUS
  <1>a. TypeOK /\ OwnInv /\ ServeInv /\ HostsOrOwn /\ BuiltInv
    BY DEF RiskInv
  <1>b. TypeOK' /\ HostsOrOwn'
    BY <1>a, TypeStep, HostsOrOwnStep
  <1>g. /\ Group = {"docs", "github", "registry", "runflare", "operations", "governance"}
        /\ Later = {"provider", "classify", "serve", "serve_ops"}
        /\ \A g \in Group : Defines[g] \subseteq Tool /\ ServedOf[g] \subseteq Defines[g]
        /\ \A g \in Group : g # "operations" => ServedOf[g] \cap ServedOf["operations"] = {}
        /\ \A n \in Tool : DefinedRisk[n] # None
    BY DEF Group, Later, StartupAssumption
  <1>s. SUFFICES OwnInv' /\ ServeInv' /\ BuiltInv'
    BY <1>b DEF RiskInv
  <1>p. ASSUME runtimes' = runtimes PROVE BuiltInv'
    <2>1. Built' = Built
      BY <1>p DEF Built
    <2> QED BY <1>a, <2>1, SoundKept DEF BuiltInv
  <1>1. ASSUME NEW r \in Reg, NEW k \in GateId, Begin(r, k) PROVE OwnInv' /\ ServeInv' /\ BuiltInv'
    <2>1. stage' = "docs" /\ todo' = Defines["docs"] /\ served' = {} /\ runtimes' = runtimes
      BY <1>1 DEF Begin, Wanted
    <2>2. OwnInv'
      BY <1>g, <2>1 DEF OwnInv, Before, WantedThen
    <2>3. ServeInv'
      BY <1>g, <2>1 DEF ServeInv
    <2> QED BY <1>p, <2>1, <2>2, <2>3
  <1>2. ASSUME NEW n \in Tool, RegisterOne(n) PROVE OwnInv' /\ ServeInv' /\ BuiltInv'
    <2>1. stage \in Group /\ using \in Attempt /\ using.registry \in Reg
      BY <1>2, <1>a, <1>g DEF RegisterOne, TypeOK, Attempt, Opt
    <2>2. todo' = todo \ {n} /\ UNCHANGED <<stage, using, opsThere, served, runtimes>>
      BY <1>2 DEF RegisterOne
    <2>3. Own \cup {n} \subseteq Own'
      BY <1>2, <1>a, <1>g, <2>1, <2>2 DEF RegisterOne, Taken, Own, TypeOK
    <2>4. OwnInv'
      BY <1>a, <1>g, <2>1, <2>2, <2>3 DEF OwnInv, WantedThen
    <2>5. ServeInv'
      BY <1>a, <1>g, <2>1, <2>2 DEF ServeInv
    <2> QED BY <1>p, <2>2, <2>4, <2>5
  <1>3. ASSUME stage' = "idle", runtimes' = runtimes PROVE OwnInv' /\ ServeInv' /\ BuiltInv'
    BY <1>3, <1>g, <1>p DEF OwnInv, ServeInv
  <1>4. CASE NextGroup
    <2>1. /\ stage \in Group \ {"governance"} /\ todo = {} /\ stage' = After[stage]
          /\ todo' = Wanted(stage')
          /\ opsThere' = IF stage' = "operations" THEN gateway ELSE opsThere
          /\ UNCHANGED <<registry, using, served, runtimes>>
      BY <1>4 DEF NextGroup
    <2>2. stage' \in Group /\ Before[stage'] = Before[stage] \cup {stage}
      BY <1>g, <2>1 DEF After, Before
    <2>3. Own' = Own
      BY <2>1 DEF Own
    <2>4. \A g \in Before[stage'] : WantedThen(g)' \subseteq WantedThen(g)
      BY <1>g, <2>1, <2>2 DEF WantedThen, Before, After
    <2>5. \A g \in Before[stage'] : WantedThen(g) \subseteq Own
      BY <1>a, <2>1, <2>2 DEF OwnInv
    <2>6. WantedThen(stage)' \subseteq todo'
      BY <2>1 DEF WantedThen, Wanted
    <2>7. OwnInv'
      BY <1>g, <2>2, <2>3, <2>4, <2>5, <2>6 DEF OwnInv
    <2>8. ServeInv'
      BY <1>a, <1>g, <2>1, <2>2 DEF ServeInv
    <2> QED BY <1>p, <2>1, <2>7, <2>8
  <1>5. CASE RegistrationsEnd
    <2>1. /\ stage = "governance" /\ todo = {} /\ stage' = "provider"
          /\ UNCHANGED <<registry, using, served, opsThere, todo, runtimes>>
      BY <1>5 DEF RegistrationsEnd
    <2>2. \A g \in Group : WantedThen(g) \subseteq Own
      BY <1>a, <1>g, <2>1 DEF OwnInv, Before
    <2>3. OwnInv'
      BY <1>g, <2>1, <2>2 DEF OwnInv, WantedThen, Own
    <2>4. ServeInv'
      BY <1>a, <1>g, <2>1 DEF ServeInv
    <2> QED BY <1>p, <2>1, <2>3, <2>4
  <1>6. ASSUME NEW b \in BOOLEAN, Provider(b) PROVE OwnInv' /\ ServeInv' /\ BuiltInv'
    <2>1. /\ stage = "provider" /\ stage' = "classify"
          /\ UNCHANGED <<registry, using, served, opsThere, runtimes>>
      BY <1>6 DEF Provider
    <2>2. OwnInv'
      BY <1>a, <1>g, <2>1 DEF OwnInv, WantedThen, Own
    <2>3. ServeInv'
      BY <1>a, <1>g, <2>1 DEF ServeInv
    <2> QED BY <1>p, <2>1, <2>2, <2>3
  <1>7. CASE Classify
    <2>1. /\ stage = "classify" /\ stage' = "serve" /\ todo' = Serving
          /\ UNCHANGED <<registry, using, served, opsThere, runtimes>>
      BY <1>7 DEF Classify
    <2>2. using.gate \in GateId /\ using.registry \in Reg
      BY <1>a, <2>1 DEF TypeOK, Attempt, Opt
    <2>3. OwnInv'
      BY <1>a, <1>g, <2>1 DEF OwnInv, WantedThen, Own
    <2>4. Serving \subseteq Own
      <3>1. ServedOf["runflare"] \subseteq Own
        BY <1>a, <1>g, <2>1 DEF OwnInv, WantedThen
      <3>2. \A g \in Always : ServedOf[g] \subseteq Own
        BY <1>a, <1>g, <2>1 DEF OwnInv, WantedThen, Always
      <3> QED BY <3>1, <3>2 DEF Serving
    <2>5. Serving \cap ServedOf["operations"] = {}
      BY <1>g DEF Serving, Always
    <2>6. \A n \in Tool : registry[using.registry][n] # None => catalog'[using.gate][n] # None
      <3>1. \A n \in Tool : registry[using.registry][n] # None =>
              RiskCatalog(registry[using.registry])[n] # None
        BY RiskType DEF RiskCatalog, StartupAssumption
      <3> QED BY <1>7, <1>a, <2>2, <3>1 DEF Classify, Classified, TypeOK
    <2>7. Own' = Own /\ served' = {}
      BY <1>a, <2>1 DEF Own, ServeInv
    <2>8. ServeInv'
      BY <1>g, <2>1, <2>4, <2>5, <2>6, <2>7 DEF ServeInv
    <2> QED BY <1>p, <2>1, <2>3, <2>8
  <1>8. ASSUME NEW n \in Tool, Serve(n) PROVE OwnInv' /\ ServeInv' /\ BuiltInv'
    <2>1. /\ stage \in {"serve", "serve_ops"} /\ n \in todo
          /\ served' = served \cup {n} /\ todo' = todo \ {n}
          /\ UNCHANGED <<registry, catalog, stage, using, opsThere, runtimes>>
      BY <1>8 DEF Serve
    <2>2. OwnInv'
      BY <1>a, <1>g, <2>1 DEF OwnInv, WantedThen, Own
    <2>3. served' \cup todo' = served \cup todo /\ Own' = Own
      BY <2>1 DEF Own
    <2>4. ServeInv'
      BY <1>a, <1>g, <2>1, <2>3 DEF ServeInv
    <2> QED BY <1>p, <2>1, <2>2, <2>4
  <1>9. CASE ServeOperations
    <2>1. /\ stage = "serve" /\ todo = {} /\ stage' = "serve_ops"
          /\ todo' = IF opsThere THEN ServedOf["operations"] ELSE {}
          /\ UNCHANGED <<registry, catalog, using, opsThere, served, runtimes>>
      BY <1>9 DEF ServeOperations, OpsServed
    <2>2. OwnInv'
      BY <1>a, <1>g, <2>1 DEF OwnInv, WantedThen, Own
    <2>3. todo' \subseteq Own /\ Own' = Own
      BY <1>a, <1>g, <2>1 DEF OwnInv, WantedThen, Own
    <2>4. ServeInv'
      BY <1>a, <1>g, <2>1, <2>3 DEF ServeInv
    <2> QED BY <1>p, <2>1, <2>2, <2>4
  <1>10. CASE Return
    <2> DEFINE rt == [on |-> using, served |-> served, ops |-> opsThere, flare |-> flareThere]
    <2>1. /\ stage = "serve_ops" /\ todo = {} /\ stage' = "idle"
          /\ UNCHANGED <<registry, catalog>>
      BY <1>10 DEF Return
    <2>2. runtimes' = Append(runtimes, rt) /\ runtimes \in Seq(Runtime)
      BY <1>10, <1>a DEF Return, TypeOK
    <2>3. Built' = Built \cup {rt}
      <3> HIDE DEF rt
      <3> QED BY <2>2 DEF Built
    <2>4. served \subseteq Own /\ \A n \in Own : registry[using.registry][n] # None
      BY <1>a, <1>g, <2>1 DEF ServeInv, Own
    <2>5. ASSUME NEW x, x = rt PROVE Sound(x)'
      <3>1. \A n \in served : /\ registry[using.registry][n] = DefinedRisk[n]
                              /\ catalog[using.gate][n] # None
        BY <1>a, <2>1, <2>4 DEF ServeInv, Own
      <3>2. served \cap ServedOf["operations"] = IF opsThere THEN ServedOf["operations"] ELSE {}
        BY <1>a, <2>1 DEF ServeInv
      <3>3. opsThere => \A n \in Defines["operations"] : registry[using.registry][n] # None
        BY <1>a, <1>g, <2>1, <2>4 DEF OwnInv, WantedThen
      <3> QED BY <2>1, <2>5, <3>1, <3>2, <3>3 DEF Sound
    <2> HIDE DEF rt
    <2>6. BuiltInv'
      BY <1>a, <2>3, <2>5, SoundKept DEF BuiltInv
    <2>7. OwnInv' /\ ServeInv'
      BY <1>g, <2>1 DEF OwnInv, ServeInv
    <2> QED BY <2>6, <2>7
  <1>11. CASE PathChanges \/ UNCHANGED vars
    <2>1. UNCHANGED <<registry, catalog, stage, using, todo, opsThere, served, runtimes>>
      BY <1>11 DEF PathChanges, local, vars
    <2> QED BY <1>a, <1>p, <2>1 DEF OwnInv, ServeInv, WantedThen, Own
  <1>12. ASSUME NEW n \in Tool, Duplicate(n) PROVE OwnInv' /\ ServeInv' /\ BuiltInv'
    BY <1>3, <1>12 DEF Duplicate, Abort
  <1>13. CASE ProviderRaises
    BY <1>3, <1>13 DEF ProviderRaises, Abort
  <1> QED
    BY <1>1, <1>2, <1>4, <1>5, <1>6, <1>7, <1>8, <1>9, <1>10, <1>11, <1>12, <1>13 DEF Next

LEMMA RiskAlways == Spec => []RiskInv
  <1>1. StartupAssumption
    BY StartupAssumption
  <1> QED BY <1>1, RiskInit, RiskStep, PTL DEF Spec

\* Every tool a runtime serves is in its registry and known to its gate, under
\* the risk of its definition unless the host itself named it.
THEOREM ServedAsDefined == Spec => []ServedUnderItsRisk
  <1>1. RiskInv => ServedUnderItsRisk
    <2> SUFFICES ASSUME RiskInv, NEW rt \in Built, NEW n \in rt.served
                 PROVE  /\ registry[rt.on.registry][n] = DefinedRisk[n]
                        /\ catalog[rt.on.gate][n] # None
                        /\ \/ catalog[rt.on.gate][n] = DefinedRisk[n]
                           \/ host.catalog[rt.on.gate][n] # None
                           \/ \E r \in Reg : host.registry[r][n] # None
      BY DEF ServedUnderItsRisk
    <2>1. rt \in Runtime
      BY DEF RiskInv, TypeOK, Built
    <2>2. rt.on.gate \in GateId /\ n \in Tool
      BY <2>1 DEF Runtime, Attempt
    <2> QED BY <2>2 DEF RiskInv, BuiltInv, Sound, HostsOrOwn
  <1> QED BY <1>1, RiskAlways, PTL

\* The operations tools of a runtime are announced, served all together and all
\* registered, or neither announced nor served.
THEOREM OperationsAllOrNone == Spec => []OperationsTogether
  <1>1. RiskInv => OperationsTogether
    BY DEF RiskInv, BuiltInv, Sound, OperationsTogether
  <1> QED BY <1>1, RiskAlways, PTL

-------------------------------------------------------------------------------
\* The tools of a runtime whose provider was built, or not, and whose operations
\* were registered, or not.
Whole(flare, ops) ==
  (UNION {ServedOf[g] : g \in Always})
  \cup (IF flare THEN ServedOf["runflare"] ELSE {})
  \cup (IF ops THEN ServedOf["operations"] ELSE {})

\* What an attempt has served and still has to, once it serves.
WholeInv ==
  /\ stage \in Group \cup {"provider", "classify"} => served = {}
  /\ stage = "serve" => served \cup todo = Whole(flareThere, FALSE)
  /\ stage = "serve_ops" => served \cup todo = Whole(flareThere, opsThere)
  /\ \A rt \in Built : rt.served = Whole(rt.flare, rt.ops)

LEMMA WholeStep == TypeOK /\ WholeInv /\ [Next]_vars => WholeInv'
  <1> SUFFICES ASSUME TypeOK, WholeInv, [Next]_vars PROVE WholeInv'
    OBVIOUS
  <1>b. ASSUME UNCHANGED runtimes PROVE \A rt \in Built' : rt.served = Whole(rt.flare, rt.ops)
    BY <1>b DEF WholeInv, Built
  <1>1. ASSUME NEW r \in Reg, NEW k \in GateId, Begin(r, k) PROVE WholeInv'
    BY <1>b, <1>1 DEF Begin, WholeInv
  <1>2. ASSUME NEW n \in Tool, RegisterOne(n) PROVE WholeInv'
    BY <1>b, <1>2 DEF RegisterOne, WholeInv, Group
  <1>3. CASE ProviderRaises \/ \E n \in Tool : Duplicate(n)
    BY <1>b, <1>3 DEF Duplicate, ProviderRaises, Abort, WholeInv, Group
  <1>4. CASE NextGroup \/ RegistrationsEnd
    <2>1. stage' \in Group \cup {"provider"} /\ served' = served /\ runtimes' = runtimes
          /\ stage \in Group
      BY <1>4 DEF NextGroup, RegistrationsEnd, After, Group
    <2> QED BY <1>b, <2>1 DEF WholeInv, Group
  <1>5. ASSUME NEW there \in BOOLEAN, Provider(there) PROVE WholeInv'
    BY <1>b, <1>5 DEF Provider, WholeInv, Group
  <1>6. CASE Classify
    <2>1. /\ stage = "classify" /\ stage' = "serve" /\ todo' = Serving
          /\ UNCHANGED <<flareThere, served, runtimes>>
      BY <1>6 DEF Classify
    <2>2. served = {} BY <2>1 DEF WholeInv
    <2>3. Serving = Whole(flareThere, FALSE) BY DEF Serving, Whole
    <2> QED BY <1>b, <2>1, <2>2, <2>3 DEF WholeInv, Group
  <1>7. ASSUME NEW n \in Tool, Serve(n) PROVE WholeInv'
    <2>1. /\ stage \in {"serve", "serve_ops"} /\ served' \cup todo' = served \cup todo
          /\ UNCHANGED <<stage, flareThere, opsThere, runtimes>>
      BY <1>7 DEF Serve
    <2> QED BY <1>b, <2>1 DEF WholeInv, Group
  <1>8. CASE ServeOperations
    <2>1. /\ stage = "serve" /\ todo = {} /\ stage' = "serve_ops"
          /\ todo' = IF opsThere THEN ServedOf["operations"] ELSE {}
          /\ UNCHANGED <<flareThere, opsThere, served, runtimes>>
      BY <1>8 DEF ServeOperations, OpsServed
    <2>2. served = Whole(flareThere, FALSE) BY <2>1 DEF WholeInv
    <2>3. served' \cup todo' = Whole(flareThere, opsThere) BY <2>1, <2>2 DEF Whole
    <2> QED BY <1>b, <2>1, <2>3 DEF WholeInv, Group
  <1>9. CASE Return
    <2> DEFINE rt == [on |-> using, served |-> served, ops |-> opsThere, flare |-> flareThere]
    <2>1. /\ stage = "serve_ops" /\ todo = {} /\ stage' = "idle"
          /\ runtimes' = Append(runtimes, rt) /\ runtimes \in Seq(Runtime)
      BY <1>9 DEF Return, TypeOK
    <2>2. rt.served = Whole(rt.flare, rt.ops) BY <2>1 DEF WholeInv
    <2> HIDE DEF rt
    <2>3. Built' = Built \cup {rt} BY <2>1 DEF Built
    <2> QED BY <2>1, <2>2, <2>3 DEF WholeInv, Group
  <1>10. CASE PathChanges \/ UNCHANGED vars
    <2>1. UNCHANGED <<stage, todo, served, flareThere, opsThere, runtimes>>
      BY <1>10 DEF PathChanges, local, vars
    <2> QED BY <1>b, <2>1 DEF WholeInv
  <1> QED
    BY <1>1, <1>2, <1>3, <1>4, <1>5, <1>6, <1>7, <1>8, <1>9, <1>10 DEF Next

\* No runtime is handed out half built: whatever happened on the way and to the
\* gateway meanwhile, it serves every tool of the groups that are always there,
\* the Runflare tools exactly when it has a provider, the operations tools
\* exactly when they were registered, and nothing else (create).
RuntimesWhole == \A rt \in Built : rt.served = Whole(rt.flare, rt.ops)
THEOREM RuntimesAreWhole == Spec => []RuntimesWhole
  <1>1. Init => WholeInv
    BY DEF Init, WholeInv, Built, Group
  <1>2. WholeInv => RuntimesWhole
    BY DEF WholeInv, RuntimesWhole
  <1> QED BY <1>1, <1>2, WholeStep, StartupTypeCorrect, PTL DEF Spec
==============================================================================
