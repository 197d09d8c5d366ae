SPECIFICATION FairSpec
CONSTANTS
  None = None
  e1 = e1
  e2 = e2
  Exporters = {e1, e2}
  Ids = {1, 2, 3}
CHECK_DEADLOCK FALSE
INVARIANTS
  DebitsAgree
PROPERTIES
  FilesAreValid
  EveryExportEnds
