SPECIFICATION ScriptSpec
CONSTANTS
  Nsgs <- GroupNames
  Roles <- RoleNames
  Ports <- ScriptPorts
  Spells <- SpellKinds
  MaxSpells = 20
  FlowLogs = "off"
  CatchErrors = FALSE
  Scripts = {"bastion"}
INVARIANT
  BastionReusesRule
CHECK_DEADLOCK FALSE
