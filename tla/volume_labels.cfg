SPECIFICATION Spec
CONSTANTS
  data = data
  logs = logs
  db = db
  Labels <- LabelNames
  MaxVolumes = 3
  MaxMade = 2
  NoDisk = NoDisk
  Edits = "any"
SYMMETRY Symmetry
INVARIANT
  LabelKeepsDisk
