SPECIFICATION Spec
CONSTANTS
  Path <- MCPath
  Contents <- MCContents
  Told <- MCTold
  App = 1
  PAGE_SIZE = 2
  GITEA_PAGE = 2
  MAX_BLOB_BYTES = 3
  MAX_SECRET_SCAN_BYTES = 3
  LARGE_FILE_BYTES = 2
  MaxSteps = 2
CHECK_DEADLOCK FALSE
INVARIANTS EveryPackageAccountedFor NoSharedIssue SilenceMeansNothing
