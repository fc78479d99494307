SPECIFICATION SharedSpec
CONSTANTS
  Nsgs = {}
  Roles = {}
  Ports <- StackPorts
  Spells <- StackSpells
  MaxSpells = 3
  FlowLogs = "on"
  CatchErrors = FALSE
  TenantSpells <- TenantKinds
  MaxTenants = 1
  MaxWritten = 3
  MaxStops = 1
INVARIANTS
  SharedTypeOK
  SpellsServed
  ExposureExplained
  OrderIndependent
  OkeLayersAgree
  TenantsServed
CHECK_DEADLOCK FALSE
