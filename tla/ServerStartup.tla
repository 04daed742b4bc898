----------------------------- MODULE ServerStartup -----------------------------
(***************************************************************************)
(* ServerRuntime.create (server/runtime.py) and the registrations it calls  *)
(* (capabilities/*_registration.py): a host builds runtimes one after       *)
(* another from registries and gates of its own, which outlive an attempt   *)
(* that fails midway.                                                       *)
(*                                                                          *)
(*   idle -> docs -> github -> registry -> runflare -> operations           *)
(*        -> governance -> provider -> classify -> serve -> serve_ops       *)
(*        -> idle                                                           *)
(*                                                                          *)
(* Meanwhile the operations gateway may appear on PATH or vanish.  Within a *)
(* group the order of the contracts decides nothing, and is left open.      *)
(***************************************************************************)
EXTENDS Naturals, Sequences, GovernanceTypes

CONSTANTS
  Reg,           \* CapabilityRegistry objects
  GateId,        \* GovernanceGate objects: the host's, and the one create makes
  Defines,       \* the contracts a group registers
  ServedOf,      \* the tools a group adds to the server
  DefinedRisk,   \* the risk in each contract
  HostRegistry,  \* what the host may have registered on its own
  HostCatalog,   \* what the host may have classified on its own
  NoRisk,        \* a "risk" in a contract that is no RiskLevel
  MaxAttempts    \* bound: how often the host tries

Group == {"docs", "github", "registry", "runflare", "operations", "governance"}

StartupAssumption ==
  /\ Defines \in [Group -> SUBSET Tool] /\ ServedOf \in [Group -> SUBSET Tool]
  /\ \A g \in Group : ServedOf[g] \subseteq Defines[g]
  /\ Defines["docs"] # {}
  /\ \A g, k \in Group : g # k => Defines[g] \cap Defines[k] = {}
  /\ DefinedRisk \in [Tool -> RiskLevel]
  /\ HostRegistry \subseteq [Tool -> Opt(RiskLevel \cup {NoRisk})]
  /\ HostCatalog \subseteq [Tool -> Opt(RiskLevel)]
  /\ MaxAttempts \in Nat
  /\ NoRisk \notin RiskLevel
  /\ None \notin RiskLevel \cup {NoRisk} \cup [registry : Reg, gate : GateId, fresh : BOOLEAN]
ASSUME StartupAssumption

VARIABLES
  registry,   \* the contracts of each registry: name to risk, or None
  catalog,    \* the ToolRiskCatalog of each gate, likewise
  host,       \* history: what the host registered and classified itself
  gateway,    \* the operations gateway is on PATH
  stage,      \* where the attempt under way is
  using,      \* its registry and gate, or None
  tried,      \* history: registries an attempt was made with
  todo,       \* contracts of the group still to register, or tools to serve
  opsThere,   \* local operations_registered
  flareThere, \* local runflare is not None
  served,     \* tools added to its server
  attempts,   \* attempts begun
  runtimes    \* the runtimes handed to the host

local == <<stage, using, tried, todo, opsThere, flareThere, served, attempts, runtimes>>
vars  == <<registry, catalog, host, gateway, stage, using, tried, todo, opsThere, flareThere,
           served, attempts, runtimes>>

\* An attempt; "fresh": no attempt was made with its registry before.
Attempt == [registry : Reg, gate : GateId, fresh : BOOLEAN]
Runtime == [on : Attempt, served : SUBSET Tool, ops : BOOLEAN, flare : BOOLEAN]

TypeOK ==
  /\ registry \in [Reg -> [Tool -> Opt(RiskLevel \cup {NoRisk})]]
  /\ catalog \in [GateId -> [Tool -> Opt(RiskLevel)]]
  /\ host \in [registry : [Reg -> HostRegistry], catalog : [GateId -> HostCatalog]]
  /\ gateway \in BOOLEAN
  /\ stage \in Group \cup {"idle", "provider", "classify", "serve", "serve_ops"}
  /\ using \in Opt(Attempt)
  /\ stage # "idle" => using # None
  /\ tried \in SUBSET Reg
  /\ todo \in SUBSET Tool
  /\ opsThere \in BOOLEAN /\ flareThere \in BOOLEAN
  /\ served \in SUBSET Tool
  /\ attempts \in 0..MaxAttempts
  /\ runtimes \in Seq(Runtime)

\* A registry or gate the host did not touch is what create makes when it is
\* given none.
Init ==
  /\ registry \in [Reg -> HostRegistry]
  /\ catalog \in [GateId -> HostCatalog]
  /\ host = [registry |-> registry, catalog |-> catalog]
  /\ gateway \in BOOLEAN
  /\ stage = "idle" /\ using = None /\ tried = {} /\ todo = {}
  /\ opsThere = FALSE /\ flareThere = FALSE /\ served = {}
  /\ attempts = 0 /\ runtimes = <<>>

-------------------------------------------------------------------------------
(***************************************************************************)
(* Registration.                                                            *)
(***************************************************************************)
After == [docs |-> "github", github |-> "registry", registry |-> "runflare",
          runflare |-> "operations", operations |-> "governance"]

\* What a group registers: the operations tools only where the gateway is found.
Wanted(g) == IF g = "operations" /\ ~gateway THEN {} ELSE Defines[g]

Begin(r, k) ==
  /\ stage = "idle" /\ attempts < MaxAttempts
  /\ attempts' = attempts + 1
  /\ using' = [registry |-> r, gate |-> k, fresh |-> r \notin tried]
  /\ tried' = tried \cup {r}
  /\ stage' = "docs" /\ todo' = Wanted("docs")
  /\ opsThere' = FALSE /\ flareThere' = FALSE /\ served' = {}
  /\ UNCHANGED <<registry, catalog, host, gateway, runtimes>>

Taken_Never(n) == FALSE          \* seeded fault: a duplicate replaces the contract
Taken(n) == registry[using.registry][n] # None

\* CapabilityRegistry.register
RegisterOne(n) ==
  /\ stage \in Group /\ n \in todo
  /\ ~Taken(n)
  /\ registry' = [registry EXCEPT ![using.registry][n] = DefinedRisk[n]]
  /\ todo' = todo \ {n}
  /\ UNCHANGED <<catalog, host, gateway, stage, using, tried, opsThere, flareThere, served,
                 attempts, runtimes>>

Abort == /\ stage' = "idle" /\ using' = None /\ todo' = {}
         /\ UNCHANGED <<tried, opsThere, flareThere, served, attempts, runtimes>>

\* A duplicate raises out of create: what was registered so far stays.
Duplicate(n) ==
  /\ stage \in Group /\ n \in todo
  /\ Taken(n)
  /\ Abort
  /\ UNCHANGED <<registry, catalog, host, gateway>>

\* The next group; availability is read once, when the operations group begins.
NextGroup ==
  /\ stage \in Group \ {"governance"} /\ todo = {}
  /\ stage' = After[stage] /\ todo' = Wanted(After[stage])
  /\ opsThere' = IF After[stage] = "operations" THEN gateway ELSE opsThere
  /\ UNCHANGED <<registry, catalog, host, gateway, using, tried, flareThere, served, attempts,
                 runtimes>>

RegistrationsEnd ==
  /\ stage = "governance" /\ todo = {}
  /\ stage' = "provider"
  /\ UNCHANGED <<registry, catalog, host, gateway, using, tried, todo, opsThere, flareThere,
                 served, attempts, runtimes>>

-------------------------------------------------------------------------------
(***************************************************************************)
(* The provider, the gate and the tools.                                    *)
(***************************************************************************)

\* RunflareCLI is built, or is not: no project directory, or a ValueError or
\* OSError that create swallows.
Provider(there) ==
  /\ stage = "provider"
  /\ flareThere' = there
  /\ stage' = "classify"
  /\ UNCHANGED <<registry, catalog, host, gateway, using, tried, todo, opsThere, served,
                 attempts, runtimes>>

\* Any other exception of its constructor leaves create: expanduser raises a
\* RuntimeError where there is no home directory.
ProviderRaises ==
  /\ stage = "provider"
  /\ Abort
  /\ UNCHANGED <<registry, catalog, host, gateway>>

Always == {"docs", "github", "registry", "governance"}
Serving == (UNION {ServedOf[g] : g \in Always})
           \cup (IF flareThere THEN ServedOf["runflare"] ELSE {})

AsRisk_Unchecked(x) == x         \* seeded fault: the risk in a contract is trusted
\* _catalog_from_registry takes what is no RiskLevel for READ_ONLY.
AsRisk(x) == IF x \in RiskLevel THEN x ELSE "READ_ONLY"
RiskCatalog(r) == [n \in Tool |-> IF r[n] = None THEN None ELSE AsRisk(r[n])]

Classified_Overwrites(k, r) ==   \* seeded fault: the gate's own entry is not looked for
  [n \in Tool |-> IF r[n] # None THEN r[n] ELSE k[n]]
Classified_OfHost(k, r) == k     \* seeded fault: an injected gate is used as it is
\* The gate's catalog is filled where it has no entry of its own.
Classified(k, r) == [n \in Tool |-> IF k[n] # None THEN k[n] ELSE r[n]]

Classify ==
  /\ stage = "classify"
  /\ catalog' = [catalog EXCEPT ![using.gate] =
                   Classified(@, RiskCatalog(registry[using.registry]))]
  /\ stage' = "serve" /\ todo' = Serving
  /\ UNCHANGED <<registry, host, gateway, using, tried, opsThere, flareThere, served, attempts,
                 runtimes>>

\* add_governed: the tool is wrapped by the gate and added to the server.
Serve(n) ==
  /\ stage \in {"serve", "serve_ops"} /\ n \in todo
  /\ served' = served \cup {n}
  /\ todo' = todo \ {n}
  /\ UNCHANGED <<registry, catalog, host, gateway, stage, using, tried, opsThere, flareThere,
                 attempts, runtimes>>

OpsServed_AsOfNow(ops) == gateway  \* seeded fault: availability is read a second time
OpsServed(ops) == ops

\* The operations tools come last, if they were registered.
ServeOperations ==
  /\ stage = "serve" /\ todo = {}
  /\ stage' = "serve_ops"
  /\ todo' = IF OpsServed(opsThere) THEN ServedOf["operations"] ELSE {}
  /\ UNCHANGED <<registry, catalog, host, gateway, using, tried, opsThere, flareThere, served,
                 attempts, runtimes>>

Return ==
  /\ stage = "serve_ops" /\ todo = {}
  /\ runtimes' = Append(runtimes, [on |-> using, served |-> served, ops |-> opsThere,
                                   flare |-> flareThere])
  /\ stage' = "idle" /\ using' = None
  /\ UNCHANGED <<registry, catalog, host, gateway, tried, todo, opsThere, flareThere, served,
                 attempts>>

\* The gateway is installed or removed.
PathChanges ==
  /\ gateway' = ~gateway
  /\ UNCHANGED <<registry, catalog, host, local>>

Next ==
  \/ \E r \in Reg, k \in GateId : Begin(r, k)
  \/ \E n \in Tool : RegisterOne(n) \/ Duplicate(n) \/ Serve(n)
  \/ NextGroup \/ RegistrationsEnd \/ ProviderRaises
  \/ \E there \in BOOLEAN : Provider(there)
  \/ Classify \/ ServeOperations \/ Return \/ PathChanges

Spec == Init /\ [][Next]_vars

-------------------------------------------------------------------------------
(***************************************************************************)
(* Properties.                                                              *)
(***************************************************************************)
Built == {runtimes[i] : i \in DOMAIN runtimes}

\* Every tool a runtime serves is advertised by its registry and known to its
\* gate, under the risk of its definition unless the host itself classified or
\* registered that name.
ServedUnderItsRisk ==
  \A rt \in Built : \A n \in rt.served :
    /\ registry[rt.on.registry][n] = DefinedRisk[n]
    /\ catalog[rt.on.gate][n] # None
    /\ \/ catalog[rt.on.gate][n] = DefinedRisk[n]
       \/ host.catalog[rt.on.gate][n] # None
       \/ \E r \in Reg : host.registry[r][n] # None

\* Operations tools: announced as available, served all together and then all
\* registered, or neither announced nor served, whenever the gateway comes and
\* goes (a host may have registered a contract under one of their names itself).
OperationsTogether ==
  \A rt \in Built :
    /\ rt.served \cap ServedOf["operations"] = IF rt.ops THEN ServedOf["operations"] ELSE {}
    /\ rt.ops => \A n \in Defines["operations"] : registry[rt.on.registry][n] # None

\* A registry carries one attempt: neither one that already has a runtime nor
\* one left half filled by a failure ever yields another runtime.
OnlyFreshRegistriesServe == \A rt \in Built : rt.on.fresh

\* No step of create edits or removes a contract or a classification that is
\* there, on a gate that may already serve another runtime.
RiskNeverRewritten ==
  [][/\ \A k \in GateId, n \in Tool : catalog[k][n] # None => catalog'[k][n] = catalog[k][n]
     /\ \A r \in Reg, n \in Tool : registry[r][n] # None => registry'[r][n] = registry[r][n]]_vars
==============================================================================
