SPECIFICATION FairSpec
CONSTANTS
  MinInstances = 1
  MaxInstances = 1
  InitialInstances = 2
  ScaleSteps <- OneStep
  Schedules <- DayAndNight
  MaxClashes <- Clashes
  Spells <- AllSpells
INVARIANTS
  TypeOK
  ServersReady
  LiveIsTracked
  CapacityBounded
PROPERTIES
  CommandsFinish
  ScalerManagesPool
