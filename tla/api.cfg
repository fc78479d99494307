SPECIFICATION Spec
CONSTANTS
  r1 = r1
  r2 = r2
  r3 = r3
  f1 = f1
  f2 = f2
  f3 = f3
  Rule <- MCRule
  Fingerprint <- MCFingerprint
  Unkeyed = none
  SeedRules <- MCSeed
  BaselineRules <- MCBaseline
  RulesOf <- MCRulesOf
  RuleLists <- MCRuleLists
  MaxRules = 6
  FlowLogs = "on"
  CatchErrors = FALSE
INVARIANTS
  TypeOK
  DeployedIsCollected
  BaselineDeployed
  RegisteredRulesCollected
  LedgerExact
PROPERTY
  KeepsLedger
CHECK_DEADLOCK FALSE
