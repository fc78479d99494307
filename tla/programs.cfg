SPECIFICATION ScriptSpec
CONSTANTS
  Nsgs <- GroupNames
  Roles <- RoleNames
  Ports <- ScriptPorts
  Spells <- SpellKinds
  MaxSpells = 20
  FlowLogs = "on"
  CatchErrors = FALSE
  Scripts <- Programs
INVARIANTS
  TiersConnected
  TiersIsolated
PROPERTY
  RunsToEnd
CHECK_DEADLOCK FALSE
