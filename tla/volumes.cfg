SPECIFICATION Spec
CONSTANTS
  data = data
  logs = logs
  db = db
  Labels <- LabelNames
  MaxVolumes = 3
  MaxMade = 2
  NoDisk = NoDisk
  Edits = "settled"
SYMMETRY Symmetry
INVARIANTS
  TypeOK
  LabelKeepsDisk
  AttachmentsMatch
PROPERTY
  DataKept
