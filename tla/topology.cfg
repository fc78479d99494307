SPECIFICATION Spec
CONSTANTS
  Width = 6
  Requests <- AllCidrs
  OnPremise <- Premises
  ServiceCidr <- Services
  Space <- Everything
INVARIANTS
  TypeOK
  TiersPartition
  TiersCanonical
  EgressByTier
  SubnetsDisjoint
CHECK_DEADLOCK FALSE
