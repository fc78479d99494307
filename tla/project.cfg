SPECIFICATION Spec
CONSTANTS
  Operators = {"ann"}
  Ops = {"up", "preview", "destroy"}
  Names <- SpellDirs
  Stacks = {"dev", "prod"}
  Known <- SpellTypes
  Manifests <- OneProject
  Initial <- Three
INVARIANTS
  PrefixDeployed
  UpDeploysAll
  DestroyLeavesNothing
