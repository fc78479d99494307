SPECIFICATION Spec
CONSTANTS
  n1 = n1
  n2 = n2
  n3 = n3
  Nsgs <- NsgNames
  Roles <- RelationRoles
  Ports <- RelationPorts
  Spells <- RelationSpells
  MaxSpells = 5
  FlowLogs = "off"
  CatchErrors = FALSE
SYMMETRY Symmetry
INVARIANTS
  DualLayer
  ExposureExplained
  OrderIndependent
  PathsDeclared
CHECK_DEADLOCK FALSE
