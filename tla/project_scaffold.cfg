SPECIFICATION Spec
CONSTANTS
  Operators = {"ann"}
  Ops = {"up"}
  Names <- AppDirs
  Stacks = {"dev"}
  Known <- SpellTypes
  Manifests <- SharedLists
  Initial <- Two
INVARIANT
  ScaffoldComplete
CHECK_DEADLOCK FALSE
