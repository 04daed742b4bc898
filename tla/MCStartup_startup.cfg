CONSTANTS
  None = None
  NoRisk = NoRisk
  Subject = {}
  ReqId = {}
  Project = {}
  Tool <- McTool
  Reg = {r1, r2}
  GateId = {k1, k2}
  Defines <- McDefines
  ServedOf <- McServed
  DefinedRisk <- McRisk
  HostRegistry <- McHostRegistry
  HostCatalog <- McHostCatalog
  MaxAttempts = 3
SPECIFICATION Spec
INVARIANTS
  TypeOK
  ServedUnderItsRisk
  OperationsTogether
  OnlyFreshRegistriesServe
PROPERTIES
  RiskNeverRewritten
