SPECIFICATION FairSpec
CONSTANTS
  Operators = {"ann", "bob"}
  Ops = {"new", "up", "preview", "destroy", "status"}
  Names <- AppDirs
  Stacks = {"dev"}
  Known <- SpellTypes
  Manifests <- SharedLists
  Initial <- Mistyped
INVARIANTS
  TypeOK
  DeployedIsManaged
PROPERTY
  CommandsEnd
